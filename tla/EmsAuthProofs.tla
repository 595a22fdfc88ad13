--------------------------- MODULE EmsAuthProofs ----------------------------
(***************************************************************************)
(* Proofs about EmsAuth, for any set of devices, tasks and troubles.       *)
(***************************************************************************)
EXTENDS EmsAuth, TLAPS, FiniteSetTheorems

\* An exception reports at most to the user.
LEMMA RaiseReports ==
  ASSUME NEW t, NEW kind, Raise(t, kind)
  PROVE  NotifyReauth \/ SameForm
BY DEF Raise, MayNotify

\* So does what happens once the lock is held.
LEMMA InLockReports ==
  ASSUME NEW t, NEW rejected, InLock(t, rejected)
  PROVE  NotifyReauth \/ SameForm
BY RaiseReports DEF InLock

-----------------------------------------------------------------------------
\* The notify slot is never left taken without a form (cloud.py 83-96,
\* control.py 110-129).
THEOREM SlotHasForm == Spec => []NotifiedHasForm
<1>1. Init => NotifiedHasForm
  BY DEF Init, NotifiedHasForm
<1>2. NotifiedHasForm /\ [Next]_vars => NotifiedHasForm'
  <2> SUFFICES ASSUME NotifiedHasForm, [Next]_vars PROVE NotifiedHasForm'
    OBVIOUS
  <2> USE DEF NotifiedHasForm, latchVars, userVars
  <2>1. NotifyReauth => NotifiedHasForm'
    BY DEF NotifyReauth
  <2>2. SameForm => NotifiedHasForm'
    BY DEF SameForm
  <2>3. ClearLatch => NotifiedHasForm'
    BY DEF ClearLatch
  <2> HIDE DEF NotifiedHasForm
  <2>4. ASSUME NEW t \in Tasks, Begin(t) \/ BeginSync(t) PROVE NotifiedHasForm'
    BY <2>1, <2>2, <2>4 DEF Begin, BeginSync
  <2>5. ASSUME NEW t \in Tasks, Reply(t) PROVE NotifiedHasForm'
    <3>1. CASE CallDone(t) \/ SyncDone(t)
      BY <2>2, <3>1 DEF CallDone, SyncDone
    <3>2. CASE GotDevices(t)
      BY <2>1, <2>2, <3>2 DEF GotDevices, MayNotify
    <3>3. CASE CallRejected(t) \/ GetsLock(t)
      BY <2>1, <2>2, <3>3, RaiseReports, InLockReports DEF CallRejected, GetsLock
    <3>4. CASE RefreshOk(t)
      BY <3>4 DEF RefreshOk, NotifiedHasForm
    <3>5. CASE RefreshFails(t)
      BY <2>1, <2>2, <3>5, RaiseReports DEF RefreshFails
    <3>6. CASE LoginOk(t)
      BY <2>3, <3>6 DEF LoginOk
    <3>7. CASE LoginRefused(t)
      BY <2>1, <2>2, <3>7, RaiseReports DEF LoginRefused
    <3> QED
      BY <2>5, <3>1, <3>2, <3>3, <3>4, <3>5, <3>6, <3>7 DEF Reply
  <2>6. CASE Form
    BY <2>3, <2>6 DEF Form, SubmitRight, Submit, ReauthOk, ReauthRefused, NotifiedHasForm
  <2>7. CASE OptionsReply \/ HubSetupFails
    BY <2>3, <2>7 DEF OptionsReply, OptionsLoginOk, OptionsLoginRefused, OptionsSaved,
                      HubSetupFails, NotifiedHasForm
  <2>8. CASE Disturbance
    <3>1. ASSUME NEW t \in Tasks, CallFails(t) PROVE NotifiedHasForm'
      BY <2>1, <2>2, <3>1, RaiseReports DEF CallFails
    <3>2. CASE FormFails \/ EmsForgets \/ \E c \in Controls : AuthRotates(c)
      BY <3>2 DEF FormFails, EmsForgets, AuthRotates, NotifiedHasForm
    <3>3. CASE SubmitWrong \/ Restart
      BY <2>3, <3>3 DEF SubmitWrong, Submit, Restart
    <3>4. CASE Options
      BY <2>3, <3>4 DEF Options, OptionsSubmit, NotifiedHasForm
    <3> QED
      BY <2>8, <3>1, <3>2, <3>3, <3>4 DEF Disturbance
  <2>9. CASE UNCHANGED vars
    BY <2>9 DEF vars, NotifiedHasForm
  <2> QED
    BY <2>4, <2>5, <2>6, <2>7, <2>8, <2>9 DEF Next
<1> QED
  BY <1>1, <1>2, PTL DEF Spec

-----------------------------------------------------------------------------
\* An operation in progress has the account objects it uses.
OperationInv ==
  \A t \in Tasks : task[t].pc # "idle" =>
    /\ task[t].stage = "sync" => t \in Syncs /\ task[t].tmp \in Accounts
    /\ task[t].stage # "sync" => t \in Users /\ task[t].obj \in Accounts
    /\ task[t].stage = "devices" => task[t].tmp \in Accounts

\* The stored account, the objects and the operations that use them.
HeapTypes ==
  /\ hub \in Creds
  /\ acc \in [Accounts -> Creds]
  /\ cloud \in [Controls -> Accounts \cup {NoAccount}]
  /\ key \in [Controls -> Creds]
  /\ task \in [Tasks -> Operation]
  /\ OperationInv

LEMMA BlankCreds == Blank \in Creds /\ None \in Tokens
BY DEF Blank, Creds, Passwords, Tokens, None, WrongPassword

\* UnusedOf picks an element of the set.
LEMMA UnusedElement ==
  ASSUME NEW S, NEW used, S # {}
  PROVE  UnusedOf(S, used) \in S
<1>1. \E x \in S : x \notin used \/ S \subseteq used
  OBVIOUS
<1> QED
  BY <1>1 DEF UnusedOf

\* Devices and tasks are finitely many.
LEMMA FiniteTasks ==
  /\ IsFiniteSet(Tasks) /\ IsFiniteSet(Controls)
  /\ Cardinality(Tasks) \in Nat /\ Cardinality(Controls) \in Nat
<1>1. IsFiniteSet(Tasks) /\ IsFiniteSet(Users)
  BY AuthAssumption, FS_Subset DEF Tasks
<1>2. IsFiniteSet(Controls)
  <2>1. [t \in Users |-> ControlOf[t]] \in Surjection(Users, Controls)
    BY DEF Surjection, Controls
  <2> QED
    BY <1>1, <2>1, FS_Surjection
<1> QED
  BY <1>1, <1>2, FS_CardinalityType

\* There is always an object not in use, and it is the one taken.
LEMMA NewIsUnused == NewAccount \in Accounts \ Held
<1> DEFINE A == {cloud[c] : c \in Controls}
           B == {task[t].obj : t \in Tasks}
           C == {task[t].tmp : t \in Tasks}
<1>1. IsFiniteSet(A) /\ Cardinality(A) <= Cardinality(Controls)
  <2>1. [c \in Controls |-> cloud[c]] \in Surjection(Controls, A)
    BY DEF Surjection
  <2> QED
    BY <2>1, FiniteTasks, FS_Surjection
<1>2. IsFiniteSet(B) /\ Cardinality(B) <= Cardinality(Tasks)
  <2>1. [t \in Tasks |-> task[t].obj] \in Surjection(Tasks, B)
    BY DEF Surjection
  <2> QED
    BY <2>1, FiniteTasks, FS_Surjection
<1>3. IsFiniteSet(C) /\ Cardinality(C) <= Cardinality(Tasks)
  <2>1. [t \in Tasks |-> task[t].tmp] \in Surjection(Tasks, C)
    BY DEF Surjection
  <2> QED
    BY <2>1, FiniteTasks, FS_Surjection
<1>4. Held \subseteq (A \cup B) \cup C
  BY DEF Held
<1> HIDE DEF A, B, C
<1>5. /\ IsFiniteSet(A \cup B)
      /\ Cardinality(A \cup B) <= Cardinality(Controls) + Cardinality(Tasks)
  <2>1. /\ IsFiniteSet(A \cup B) /\ IsFiniteSet(A \cap B)
        /\ Cardinality(A \cup B) = Cardinality(A) + Cardinality(B) - Cardinality(A \cap B)
    BY <1>1, <1>2, FS_Union, FS_Intersection
  <2>2. /\ Cardinality(A) \in Nat /\ Cardinality(B) \in Nat
        /\ Cardinality(A \cap B) \in Nat
    BY <1>1, <1>2, <2>1, FS_CardinalityType
  <2> QED
    BY <1>1, <1>2, <2>1, <2>2, FiniteTasks
<1>6. /\ IsFiniteSet((A \cup B) \cup C)
      /\ Cardinality((A \cup B) \cup C) <= Cardinality(Controls) + 2 * Cardinality(Tasks)
  <2> DEFINE D == A \cup B
  <2>1. IsFiniteSet(D) /\ Cardinality(D) <= Cardinality(Controls) + Cardinality(Tasks)
    BY <1>5
  <2> HIDE DEF D
  <2>2. /\ IsFiniteSet(D \cup C) /\ IsFiniteSet(D \cap C)
        /\ Cardinality(D \cup C) = Cardinality(D) + Cardinality(C) - Cardinality(D \cap C)
    BY <1>3, <2>1, FS_Union, FS_Intersection
  <2>3. /\ Cardinality(D) \in Nat /\ Cardinality(C) \in Nat
        /\ Cardinality(D \cap C) \in Nat
    BY <1>3, <2>1, <2>2, FS_CardinalityType
  <2>4. Cardinality(D \cup C) <= Cardinality(Controls) + 2 * Cardinality(Tasks)
    BY <1>3, <2>1, <2>2, <2>3, FiniteTasks
  <2> QED
    BY <2>2, <2>4 DEF D
<1>7. /\ IsFiniteSet(Held)
      /\ Cardinality(Held) <= Cardinality(Controls) + 2 * Cardinality(Tasks)
  <2> DEFINE U == (A \cup B) \cup C
  <2>1. IsFiniteSet(U) /\ Cardinality(U) <= Cardinality(Controls) + 2 * Cardinality(Tasks)
    BY <1>6
  <2>2. IsFiniteSet(Held) /\ Cardinality(Held) <= Cardinality(U)
    BY <1>4, <2>1, FS_Subset
  <2>3. Cardinality(Held) \in Nat /\ Cardinality(U) \in Nat
    BY <2>1, <2>2, FS_CardinalityType
  <2> QED
    BY <2>1, <2>2, <2>3, FiniteTasks
<1>8. ~(Accounts \subseteq Held)
  <2>1. SUFFICES ASSUME Accounts \subseteq Held PROVE FALSE
    OBVIOUS
  <2>2. Cardinality(Accounts) <= Cardinality(Held)
    BY <1>7, <2>1, FS_Subset
  <2>3. Cardinality(Accounts) \in Nat /\ Cardinality(Held) \in Nat
    BY <1>7, AuthAssumption, FS_CardinalityType
  <2> QED
    BY <1>7, <2>2, <2>3, AuthAssumption, FiniteTasks
<1>9. \E x \in Accounts : x \notin Held \/ Accounts \subseteq Held
  BY <1>8
<1>10. /\ NewAccount \in Accounts
       /\ NewAccount \notin Held \/ Accounts \subseteq Held
  BY <1>9 DEF NewAccount, UnusedOf
<1> QED
  BY <1>8, <1>10

\* A new object is an object; a new token is a token of the current epoch.
LEMMA NewElements ==
  ASSUME Types
  PROVE  NewAccount \in Accounts /\ Fresh \in Tokens \ {None}
<1>1. NewAccount \in Accounts
  BY NewIsUnused
<1>2. UnusedOf(TokenIds, {n \in TokenIds : <<ems.epoch, n>> \in Mentioned}) \in Nat
  BY UnusedElement, AuthAssumption
<1>3. ems.epoch \in Nat \ {0}
  BY DEF Types
<1> QED
  BY <1>1, <1>2, <1>3 DEF Fresh, Tokens, None
\* Garbage collection keeps the heap typed.
LEMMA KeptTypes ==
  ASSUME NEW new \in [Accounts -> Creds], Keep(new)
  PROVE  acc' \in [Accounts -> Creds]
BY BlankCreds DEF Keep

\* Saving tokens keeps the hub entry typed.
LEMMA PersistedTypes ==
  ASSUME NEW h \in Creds, NEW cp \in Tokens
  PROVE  Persisted(h, cp) \in Creds
BY DEF Persisted, Creds

\* DeviceControl's account object exists.
LEMMA ObjectTypes ==
  ASSUME Types, NEW c \in Controls, NEW h \in Creds
  PROVE  /\ ObjectFor(c, h) \in Accounts
         /\ HeapFor(c, h) \in [Accounts -> Creds]
BY NewElements DEF Types, ObjectFor, HeapFor, Reusable

\* The object of an operation in progress exists.
LEMMA ActiveTypes ==
  ASSUME HeapTypes, NEW t \in Tasks, task[t].pc # "idle"
  PROVE  Active(t) \in Accounts
BY DEF HeapTypes, OperationInv, Active, Operation

\* What begins an operation keeps the heap typed.
LEMMA StartTypes ==
  ASSUME HeapTypes, NEW t \in Tasks,
         NEW stage \in {"first", "devices", "second", "sync"},
         NEW obj \in Accounts \cup {NoAccount}, NEW tmp \in Accounts \cup {NoAccount},
         NEW new \in [Accounts -> Creds],
         stage = "sync" => t \in Syncs /\ tmp \in Accounts,
         stage # "sync" => t \in Users /\ obj \in Accounts,
         stage = "devices" => tmp \in Accounts,
         StartCall(t, stage, obj, tmp, new)
  PROVE  task' \in [Tasks -> Operation] /\ acc' \in [Accounts -> Creds] /\ OperationInv'
<1> DEFINE a == IF stage \in {"devices", "sync"} THEN tmp ELSE obj
           op == [pc |-> IF new[a].cp = None THEN "refresh" ELSE "call", stage |-> stage,
                  obj |-> obj, tmp |-> tmp, tok |-> new[a].cp, again |-> FALSE]
<1>1. a \in Accounts
  OBVIOUS
<1>2. op \in Operation
  BY <1>1 DEF Operation, Creds
<1>3. task' = [task EXCEPT ![t] = op]
  BY DEF StartCall
<1>4. task' \in [Tasks -> Operation]
  BY <1>2, <1>3 DEF HeapTypes
<1>5. OperationInv'
  BY <1>3 DEF HeapTypes, OperationInv
<1>6. acc' \in [Accounts -> Creds]
  BY KeptTypes DEF StartCall
<1> QED
  BY <1>4, <1>5, <1>6

\* So does what ends one.
LEMMA SaveTypes ==
  ASSUME HeapTypes, NEW t \in Users, NEW a \in Accounts,
         NEW new \in [Accounts -> Creds], NEW h \in Creds,
         SaveAndEnd(t, a, new, h)
  PROVE  HeapTypes'
<1> DEFINE c == ControlOf[t]
<1>1. c \in Controls /\ t \in Tasks
  BY DEF Controls, Tasks
<1>2. hub' \in Creds
  <2>1. new[a].cp \in Tokens
    BY DEF Creds
  <2> QED
    BY <2>1, PersistedTypes DEF SaveAndEnd
<1>3. /\ cloud' \in [Controls -> Accounts \cup {NoAccount}]
      /\ key' \in [Controls -> Creds]
  BY <1>1, <1>2 DEF SaveAndEnd, HeapTypes
<1>4. Idle \in Operation
  BY BlankCreds DEF Idle, Operation
<1>5. task' \in [Tasks -> Operation] /\ OperationInv'
  BY <1>1, <1>4 DEF SaveAndEnd, HeapTypes, OperationInv, Idle
<1>6. acc' \in [Accounts -> Creds]
  BY KeptTypes DEF SaveAndEnd
<1> QED
  BY <1>2, <1>3, <1>5, <1>6 DEF HeapTypes

\* A forced GwList refresh keeps the heap typed.
LEMMA ForceTypes ==
  ASSUME Types, HeapTypes, NEW t \in Tasks, task[t].pc # "idle",
         task[t].stage = "first", ForceRefresh(t)
  PROVE  HeapTypes'
<1> DEFINE c == ControlOf[t]
           h == Persisted(hub, acc[task[t].obj].cp)
<1>1. t \in Users /\ task[t].obj \in Accounts
  BY DEF HeapTypes, OperationInv
<1>2. h \in Creds
  <2>1. acc[task[t].obj].cp \in Tokens
    BY <1>1 DEF HeapTypes, Creds
  <2> QED
    BY <2>1, PersistedTypes DEF HeapTypes
<1>3. NewAccount \in Accounts
  BY NewElements
<1>4. c \in Controls
  BY <1>1 DEF Controls
<1>5. [acc EXCEPT ![NewAccount] = h] \in [Accounts -> Creds]
  BY <1>2, <1>3 DEF HeapTypes
<1>6. task' \in [Tasks -> Operation] /\ acc' \in [Accounts -> Creds] /\ OperationInv'
  BY <1>1, <1>3, <1>5, StartTypes DEF ForceRefresh
<1>7. /\ hub' \in Creds /\ key' \in [Controls -> Creds]
      /\ cloud' \in [Controls -> Accounts \cup {NoAccount}]
  BY <1>2, <1>4 DEF ForceRefresh, HeapTypes
<1> QED
  BY <1>6, <1>7 DEF HeapTypes

\* So does an exception, which may leave the lock.
LEMMA RaiseTypes ==
  ASSUME Types, HeapTypes, NEW t \in Tasks, task[t].pc # "idle",
         NEW kind, Raise(t, kind)
  PROVE  HeapTypes' /\ lockq' \in Seq(Tasks)
<1>1. lockq' \in Seq(Tasks)
  BY DEF Raise, Unlocked, HoldsLock, Types
<1>2. CASE task[t].stage = "first" /\ kind = "auth" /\ ~Rejected
  <2>1. ForceRefresh(t)
    BY <1>2 DEF Raise
  <2> QED
    BY <1>1, <1>2, <2>1, ForceTypes
<1>3. CASE ~(task[t].stage = "first" /\ kind = "auth" /\ ~Rejected) /\ task[t].stage # "sync"
  <2>1. t \in Users /\ task[t].obj \in Accounts
    BY <1>3 DEF HeapTypes, OperationInv
  <2>2. SaveAndEnd(t, task[t].obj, acc, hub)
    BY <1>3 DEF Raise
  <2> QED
    BY <1>1, <2>1, <2>2, SaveTypes DEF HeapTypes
<1>4. CASE task[t].stage = "sync"
  <2>1. UNCHANGED <<hub, cloud, key>> /\ task' = [task EXCEPT ![t] = Idle] /\ Keep(acc)
    BY <1>4 DEF Raise
  <2>2. acc' \in [Accounts -> Creds]
    BY <2>1, KeptTypes DEF HeapTypes
  <2>3. Idle \in Operation
    BY BlankCreds DEF Idle, Operation
  <2>4. task' \in [Tasks -> Operation] /\ OperationInv'
    BY <2>1, <2>3 DEF HeapTypes, OperationInv, Idle
  <2> QED
    BY <1>1, <2>1, <2>2, <2>4 DEF HeapTypes
<1> QED
  BY <1>1, <1>2, <1>3, <1>4
\* A task that moves on keeps its objects.
LEMMA MovedTypes ==
  ASSUME HeapTypes, NEW t \in Tasks, task[t].pc # "idle", NEW op \in Operation,
         op.stage = task[t].stage, op.obj = task[t].obj, op.tmp = task[t].tmp,
         task' = [task EXCEPT ![t] = op]
  PROVE  task' \in [Tasks -> Operation] /\ OperationInv'
<1>1. task' \in [Tasks -> Operation]
  BY DEF HeapTypes
<1>2. \A u \in Tasks : task'[u] = IF u = t THEN op ELSE task[u]
  BY DEF HeapTypes
<1> QED
  BY <1>1, <1>2 DEF HeapTypes, OperationInv

\* What _reauthenticate does under the lock keeps the heap and the token typed.
LEMMA InLockTypes ==
  ASSUME Types, HeapTypes, NEW t \in Tasks, task[t].pc # "idle",
         NEW rejected, InLock(t, rejected)
  PROVE  HeapTypes' /\ lockq' \in Seq(Tasks) /\ shared' \in Tokens
<1>1. Active(t) \in Accounts
  BY ActiveTypes
<1>2. CASE Rejected
  BY <1>2, RaiseTypes DEF InLock, Types
<1>3. CASE ~Rejected /\ Adoptable(rejected)
  <2>1. /\ UNCHANGED <<hub, shared, cloud, key>> /\ lockq' = Unlocked(t)
        /\ task' = [task EXCEPT ![t].pc = "call", ![t].tok = shared, ![t].again = TRUE]
        /\ Keep([acc EXCEPT ![Active(t)].cp = shared])
    BY <1>3 DEF InLock
  <2>2. [acc EXCEPT ![Active(t)].cp = shared] \in [Accounts -> Creds]
    BY <1>1 DEF Types, HeapTypes, Creds
  <2>3. acc' \in [Accounts -> Creds]
    BY <2>1, <2>2, KeptTypes
  <2>4. task' \in [Tasks -> Operation] /\ OperationInv'
    <3> DEFINE op == [task[t] EXCEPT !.pc = "call", !.tok = shared, !.again = TRUE]
    <3>1. op \in Operation /\ op.stage = task[t].stage /\ op.obj = task[t].obj
          /\ op.tmp = task[t].tmp
      BY DEF Types, HeapTypes, Operation
    <3>2. task' = [task EXCEPT ![t] = op]
      BY <2>1
    <3> HIDE DEF op
    <3> QED
      BY <3>1, <3>2, MovedTypes
  <2>5. lockq' \in Seq(Tasks)
    BY <2>1 DEF Types, Unlocked, HoldsLock
  <2> QED
    BY <2>1, <2>3, <2>4, <2>5 DEF Types, HeapTypes
<1>4. CASE ~Rejected /\ ~Adoptable(rejected)
  <2>1. /\ UNCHANGED <<hub, shared, cloud, key>>
        /\ task' = [task EXCEPT ![t].pc = "refresh", ![t].tok = None, ![t].again = TRUE]
        /\ Keep([acc EXCEPT ![Active(t)].cp = None])
        /\ lockq' = IF lockq = <<>> THEN <<t>> ELSE lockq
    BY <1>4 DEF InLock
  <2>2. [acc EXCEPT ![Active(t)].cp = None] \in [Accounts -> Creds]
    BY <1>1, BlankCreds DEF HeapTypes, Creds
  <2>3. acc' \in [Accounts -> Creds]
    BY <2>1, <2>2, KeptTypes
  <2>4. task' \in [Tasks -> Operation] /\ OperationInv'
    <3> DEFINE op == [task[t] EXCEPT !.pc = "refresh", !.tok = None, !.again = TRUE]
    <3>1. op \in Operation /\ op.stage = task[t].stage /\ op.obj = task[t].obj
          /\ op.tmp = task[t].tmp
      BY BlankCreds DEF HeapTypes, Operation
    <3>2. task' = [task EXCEPT ![t] = op]
      BY <2>1
    <3> HIDE DEF op
    <3> QED
      BY <3>1, <3>2, MovedTypes
  <2>5. lockq' \in Seq(Tasks)
    BY <2>1 DEF Types
  <2> QED
    BY <2>1, <2>3, <2>4, <2>5 DEF Types, HeapTypes
<1> QED
  BY <1>2, <1>3, <1>4

\* A task that signs in gets a token, and shares it if it holds the lock.
LEMMA SignedInTypes ==
  ASSUME Types, HeapTypes, NEW t \in Tasks, task[t].pc # "idle", SignedIn(t)
  PROVE  HeapTypes' /\ lockq' \in Seq(Tasks) /\ shared' \in Tokens
<1>1. Active(t) \in Accounts /\ Fresh \in Tokens
  BY ActiveTypes, NewElements
<1>2. [acc EXCEPT ![Active(t)].cp = Fresh] \in [Accounts -> Creds]
  BY <1>1 DEF HeapTypes, Creds
<1>3. acc' \in [Accounts -> Creds]
  BY <1>2, KeptTypes DEF SignedIn
<1>4. task' \in [Tasks -> Operation] /\ OperationInv'
  <2> DEFINE op == [task[t] EXCEPT !.pc = "call", !.tok = Fresh]
  <2>1. op \in Operation /\ op.stage = task[t].stage /\ op.obj = task[t].obj
        /\ op.tmp = task[t].tmp
    BY <1>1 DEF HeapTypes, Operation
  <2>2. task' = [task EXCEPT ![t] = op]
    BY DEF SignedIn
  <2> HIDE DEF op
  <2> QED
    BY <2>1, <2>2, MovedTypes
<1>5. lockq' \in Seq(Tasks) /\ shared' \in Tokens
  BY <1>1 DEF SignedIn, Types, Unlocked, HoldsLock
<1> QED
  BY <1>3, <1>4, <1>5 DEF SignedIn, HeapTypes
\* The values of the form are typed.
LEMMA FormTypes ==
  ASSUME Types
  PROVE  /\ NotifyReauth \/ SameForm =>
              notified' \in BOOLEAN /\ form' \in {"closed", "open", "login"}
         /\ ClearLatch => latched' \in BOOLEAN /\ notified' \in BOOLEAN /\ refused' \in Nat
         /\ NoOptions \in OptionsForm
<1>1. notified \in BOOLEAN /\ form \in {"closed", "open", "login"}
  BY DEF Types
<1>2. NotifyReauth \/ SameForm =>
        notified' \in BOOLEAN /\ form' \in {"closed", "open", "login"}
  BY <1>1 DEF NotifyReauth, SameForm
<1>3. ClearLatch => latched' \in BOOLEAN /\ notified' \in BOOLEAN /\ refused' \in Nat
  <2>1. TRUE \in BOOLEAN /\ FALSE \in BOOLEAN /\ 0 \in Nat
    OBVIOUS
  <2> QED
    BY <2>1, Zenon DEF ClearLatch
<1>4. NoOptions \in OptionsForm
  BY BlankCreds DEF NoOptions, OptionsForm
<1> QED
  BY <1>2, <1>3, <1>4

TypeInv == Types /\ OperationInv

\* A task's step keeps the types.
LEMMA TaskStepTypes ==
  ASSUME TypeInv, NEW t \in Tasks, Begin(t) \/ BeginSync(t) \/ Reply(t)
  PROVE  TypeInv'
<1> USE DEF latchVars, userVars
<1>h. HeapTypes /\ Types
  BY DEF TypeInv, HeapTypes, Types
<1>1. CASE Begin(t)
  <2> DEFINE c == ControlOf[t]
  <2>1. t \in Users /\ c \in Controls
    BY <1>1 DEF Begin, Controls
  <2>2. ObjectFor(c, hub) \in Accounts /\ HeapFor(c, hub) \in [Accounts -> Creds]
    BY <2>1, <1>h, ObjectTypes DEF HeapTypes
  <2>3. HeapTypes'
    <3>1. CASE Rejected
      <4>1. SaveAndEnd(t, ObjectFor(c, hub), HeapFor(c, hub), hub)
        BY <1>1, <3>1 DEF Begin
      <4> QED
        BY <1>h, <2>1, <2>2, <4>1, SaveTypes DEF HeapTypes
    <3>2. CASE ~Rejected
      <4>1. /\ UseObject(c, hub) /\ UNCHANGED hub
            /\ StartCall(t, "first", ObjectFor(c, hub), NoAccount, HeapFor(c, hub))
        BY <1>1, <3>2 DEF Begin
      <4>2. task' \in [Tasks -> Operation] /\ acc' \in [Accounts -> Creds] /\ OperationInv'
        BY <1>h, <2>1, <2>2, <4>1, StartTypes
      <4> QED
        BY <1>h, <2>1, <2>2, <4>1, <4>2 DEF UseObject, HeapTypes
    <3> QED
      BY <3>1, <3>2
  <2>4. NotifyReauth \/ SameForm
    BY <1>1 DEF Begin
  <2> QED
    BY <1>1, <1>h, <2>3, <2>4, FormTypes DEF Begin, TypeInv, Types, HeapTypes
<1>2. CASE BeginSync(t)
  <2>1. HeapTypes'
    <3>1. CASE Rejected
      BY <1>2, <1>h, <3>1 DEF BeginSync, HeapTypes, OperationInv
    <3>2. CASE ~Rejected
      <4>1. t \in Syncs /\ NewAccount \in Accounts
        BY <1>2, <1>h, NewElements DEF BeginSync
      <4>2. [acc EXCEPT ![NewAccount] = hub] \in [Accounts -> Creds]
        BY <1>h, <4>1 DEF HeapTypes
      <4>3. /\ UNCHANGED <<hub, cloud, key>>
            /\ StartCall(t, "sync", NoAccount, NewAccount, [acc EXCEPT ![NewAccount] = hub])
        BY <1>2, <3>2 DEF BeginSync
      <4>4. task' \in [Tasks -> Operation] /\ acc' \in [Accounts -> Creds] /\ OperationInv'
        BY <1>h, <4>1, <4>2, <4>3, StartTypes
      <4> QED
        BY <1>h, <4>3, <4>4 DEF HeapTypes
    <3> QED
      BY <3>1, <3>2
  <2>2. NotifyReauth \/ SameForm
    BY <1>2 DEF BeginSync
  <2>3. syncDue' = "none" /\ UNCHANGED <<ems, authOk, shared, lockq, latched, entered, opt, refused, troubles>>
    BY <1>2 DEF BeginSync
  <2> QED
    BY <1>h, <2>1, <2>2, <2>3, FormTypes DEF TypeInv, Types, HeapTypes
<1>3. CASE CallDone(t)
  <2>1. t \in Users /\ task[t].obj \in Accounts
    BY <1>3, <1>h DEF CallDone, HeapTypes, OperationInv
  <2>2. SaveAndEnd(t, task[t].obj, acc, hub)
    BY <1>3 DEF CallDone
  <2>3. HeapTypes'
    BY <1>h, <2>1, <2>2, SaveTypes DEF HeapTypes
  <2> QED
    BY <1>3, <1>h, <2>3, FormTypes DEF CallDone, TypeInv, Types, HeapTypes
<1>4. CASE GotDevices(t)
  <2> DEFINE c == ControlOf[t]
             h == Persisted(hub, acc[task[t].tmp].cp)
             a == ObjectFor(c, h)
  <2>1. t \in Users /\ task[t].tmp \in Accounts /\ c \in Controls
    BY <1>4, <1>h DEF GotDevices, HeapTypes, OperationInv, Controls
  <2>2. h \in Creds
    <3>1. acc[task[t].tmp].cp \in Tokens
      BY <1>h, <2>1 DEF HeapTypes, Creds
    <3> QED
      BY <1>h, <3>1, PersistedTypes DEF HeapTypes
  <2>3. a \in Accounts /\ HeapFor(c, h) \in [Accounts -> Creds]
    BY <1>h, <2>1, <2>2, ObjectTypes
  <2>4. HeapTypes'
    <3>1. CASE Rejected
      <4>1. SaveAndEnd(t, a, HeapFor(c, h), h)
        BY <1>4, <3>1 DEF GotDevices
      <4> QED
        BY <1>h, <2>1, <2>2, <2>3, <4>1, SaveTypes
    <3>2. CASE ~Rejected
      <4>1. /\ hub' = h /\ UseObject(c, h)
            /\ StartCall(t, "second", a, NoAccount, HeapFor(c, h))
        BY <1>4, <3>2 DEF GotDevices
      <4>2. task' \in [Tasks -> Operation] /\ acc' \in [Accounts -> Creds] /\ OperationInv'
        BY <1>h, <2>1, <2>3, <4>1, StartTypes
      <4>3. /\ cloud' \in [Controls -> Accounts \cup {NoAccount}]
            /\ key' \in [Controls -> Creds]
        BY <1>h, <2>1, <2>2, <2>3, <4>1 DEF UseObject, HeapTypes
      <4> QED
        BY <2>2, <4>1, <4>2, <4>3 DEF HeapTypes
    <3> QED
      BY <3>1, <3>2
  <2>5. NotifyReauth \/ SameForm
    BY <1>4 DEF GotDevices, MayNotify
  <2>6. /\ authOk' = [authOk EXCEPT ![c] = TRUE]
        /\ UNCHANGED <<ems, shared, lockq, latched, userVars, refused, troubles>>
    BY <1>4 DEF GotDevices
  <2> HIDE DEF h, a
  <2> QED
    BY <1>h, <2>4, <2>5, <2>6, FormTypes DEF TypeInv, Types, HeapTypes
<1>5. CASE SyncDone(t)
  <2>1. task[t].tmp \in Accounts
    BY <1>5, <1>h DEF SyncDone, HeapTypes, OperationInv
  <2>2. acc[task[t].tmp].cp \in Tokens
    BY <1>h, <2>1 DEF HeapTypes, Creds
  <2>3. hub' \in Creds
    BY <1>5, <1>h, <2>2 DEF SyncDone, HeapTypes, Creds
  <2>4. acc' \in [Accounts -> Creds]
    BY <1>5, <1>h, KeptTypes DEF SyncDone, HeapTypes
  <2>5. Idle \in Operation
    BY BlankCreds DEF Idle, Operation
  <2>6. task' \in [Tasks -> Operation] /\ OperationInv'
    BY <1>5, <1>h, <2>5 DEF SyncDone, HeapTypes, OperationInv, Idle
  <2>7. UNCHANGED <<ems, authOk, shared, lockq, latched, cloud, key, userVars, refused, troubles>>
        /\ SameForm
    BY <1>5 DEF SyncDone
  <2> QED
    BY <1>h, <2>3, <2>4, <2>6, <2>7, FormTypes DEF TypeInv, Types
<1>6. CASE CallRejected(t)
  <2>1. task[t].pc = "call"
    BY <1>6 DEF CallRejected
  <2> DEFINE rejected == acc[Active(t)].cp
  <2>2. rejected \in Tokens
    BY <1>h, <2>1, ActiveTypes DEF HeapTypes, Creds
  <2>3. HeapTypes' /\ lockq' \in Seq(Tasks) /\ shared' \in Tokens
    <3>1. CASE Raise(t, "auth") /\ UNCHANGED shared
      BY <1>h, <2>1, <3>1, RaiseTypes DEF Types
    <3>2. CASE InLock(t, rejected)
      BY <1>h, <2>1, <3>2, InLockTypes
    <3>3. CASE /\ task' = [task EXCEPT ![t].pc = "lock", ![t].tok = rejected]
               /\ lockq' = Append(lockq, t)
               /\ UNCHANGED <<hub, shared, acc, cloud, key>>
      <4> DEFINE op == [task[t] EXCEPT !.pc = "lock", !.tok = rejected]
      <4>1. op \in Operation /\ op.stage = task[t].stage /\ op.obj = task[t].obj
            /\ op.tmp = task[t].tmp
        BY <1>h, <2>2 DEF HeapTypes, Operation
      <4>2. task' = [task EXCEPT ![t] = op]
        BY <3>3
      <4> HIDE DEF op
      <4>3. task' \in [Tasks -> Operation] /\ OperationInv'
        BY <1>h, <2>1, <4>1, <4>2, MovedTypes
      <4> QED
        BY <1>h, <3>3, <4>3 DEF HeapTypes, Types
    <3> QED
      BY <1>6, <3>1, <3>2, <3>3 DEF CallRejected
  <2>4. NotifyReauth \/ SameForm
    BY <1>6, RaiseReports, InLockReports DEF CallRejected
  <2>5. UNCHANGED <<ems, authOk, latched, userVars, refused, troubles>>
    BY <1>6 DEF CallRejected
  <2> QED
    BY <1>h, <2>3, <2>4, <2>5, FormTypes DEF TypeInv, Types, HeapTypes
<1>7. CASE GetsLock(t)
  <2>1. HeapTypes' /\ lockq' \in Seq(Tasks) /\ shared' \in Tokens
    BY <1>7, <1>h, InLockTypes DEF GetsLock
  <2>2. NotifyReauth \/ SameForm
    BY <1>7, InLockReports DEF GetsLock
  <2>3. UNCHANGED <<ems, authOk, latched, userVars, refused, troubles>>
    BY <1>7 DEF GetsLock
  <2> QED
    BY <1>h, <2>1, <2>2, <2>3, FormTypes DEF TypeInv, Types, HeapTypes
<1>8. CASE RefreshOk(t) \/ LoginOk(t)
  <2>1. HeapTypes' /\ lockq' \in Seq(Tasks) /\ shared' \in Tokens
    BY <1>8, <1>h, SignedInTypes DEF RefreshOk, LoginOk
  <2>2. /\ UNCHANGED <<form>>
        /\ ClearLatch \/ UNCHANGED <<latchVars, refused>>
        /\ UNCHANGED <<ems, authOk, userVars, troubles>>
    BY <1>8 DEF RefreshOk, LoginOk, SignedIn
  <2> QED
    BY <1>h, <2>1, <2>2, FormTypes DEF TypeInv, Types, HeapTypes
<1>9. CASE RefreshFails(t)
  <2>1. HeapTypes' /\ lockq' \in Seq(Tasks)
    <3>1. CASE ~Rejected
      <4> DEFINE op == [task[t] EXCEPT !.pc = "login"]
      <4>1. op \in Operation /\ op.stage = task[t].stage /\ op.obj = task[t].obj
            /\ op.tmp = task[t].tmp
        BY <1>h DEF HeapTypes, Operation
      <4>2. task' = [task EXCEPT ![t] = op] /\ UNCHANGED <<hub, lockq, acc, cloud, key>>
            /\ task[t].pc # "idle"
        BY <1>9, <3>1 DEF RefreshFails
      <4> HIDE DEF op
      <4>3. task' \in [Tasks -> Operation] /\ OperationInv'
        BY <1>h, <4>1, <4>2, MovedTypes
      <4> QED
        BY <1>h, <4>2, <4>3 DEF HeapTypes, Types
    <3>2. CASE Rejected
      BY <1>9, <1>h, <3>2, RaiseTypes DEF RefreshFails
    <3> QED
      BY <3>1, <3>2
  <2>2. NotifyReauth \/ SameForm
    BY <1>9, RaiseReports DEF RefreshFails
  <2>3. UNCHANGED <<ems, authOk, shared, latched, userVars, refused, troubles>>
    BY <1>9 DEF RefreshFails
  <2> QED
    BY <1>h, <2>1, <2>2, <2>3, FormTypes DEF TypeInv, Types, HeapTypes
<1>10. CASE LoginRefused(t)
  <2>1. HeapTypes' /\ lockq' \in Seq(Tasks)
    BY <1>10, <1>h, RaiseTypes DEF LoginRefused
  <2>2. NotifyReauth \/ SameForm
    BY <1>10, RaiseReports DEF LoginRefused
  <2>3. latched' = TRUE /\ refused' = refused + 1
        /\ UNCHANGED <<ems, authOk, shared, userVars, troubles>>
    BY <1>10 DEF LoginRefused
  <2> QED
    BY <1>h, <2>1, <2>2, <2>3, FormTypes DEF TypeInv, Types, HeapTypes
<1> QED
  BY <1>1, <1>2, <1>3, <1>4, <1>5, <1>6, <1>7, <1>8, <1>9, <1>10 DEF Reply

\* So does a step of the user or of what goes wrong.
LEMMA OtherStepTypes ==
  ASSUME TypeInv, Form \/ OptionsReply \/ HubSetupFails \/ Disturbance
  PROVE  TypeInv'
<1> USE DEF latchVars, userVars, emsVars
<1>h. HeapTypes /\ Types
  BY DEF TypeInv, HeapTypes, Types
<1>f. Fresh \in Tokens \ {None} /\ NoOptions \in OptionsForm /\ WrongPassword \in Passwords
  BY <1>h, NewElements, FormTypes DEF WrongPassword, Passwords
<1>s. ASSUME NEW p \in Passwords, Submit(p), troubles' \in 0..MaxTroubles
      PROVE  TypeInv'
  BY <1>h, <1>s, FormTypes DEF Submit, TypeInv, Types, OperationInv
<1>e. ems.pw \in Passwords /\ hub.pw \in Passwords
  BY <1>h DEF Types, Creds
<1>t. Trouble => troubles' \in 0..MaxTroubles
  BY <1>h, AuthAssumption DEF Trouble, Types
<1>1. CASE SubmitRight \/ SubmitWrong
  BY <1>1, <1>h, <1>s, <1>e, <1>f, <1>t DEF SubmitRight, SubmitWrong, Types
<1>2. CASE ReauthOk
  <2>1. hub' \in Creds
    BY <1>2, <1>f, <1>h DEF ReauthOk, Creds, Types
  <2>2. /\ ClearLatch /\ syncDue' = "setup" /\ form' = "closed" /\ entered' = WrongPassword
        /\ UNCHANGED <<emsVars, opt, troubles>>
    BY <1>2 DEF ReauthOk
  <2>3. OperationInv'
    BY <1>h, <2>2 DEF HeapTypes, OperationInv
  <2>4. latched' \in BOOLEAN /\ notified' \in BOOLEAN /\ refused' \in Nat
    BY <1>h, <2>2, FormTypes
  <2> QED
    BY <1>h, <1>f, <2>1, <2>2, <2>3, <2>4 DEF TypeInv, Types
<1>3. CASE ReauthRefused \/ HubSetupFails
  <2>1. UNCHANGED <<emsVars, hub, notified, opt, troubles>>
    BY <1>3 DEF ReauthRefused, HubSetupFails
  <2>2. /\ latched' \in BOOLEAN /\ refused' \in Nat /\ entered' \in Passwords
        /\ form' \in {"closed", "open", "login"} /\ syncDue' \in {"none", "setup", "options"}
    <3>1. latched \in BOOLEAN /\ TRUE \in BOOLEAN
      BY <1>h DEF Types
    <3>2. latched' \in BOOLEAN
      BY <1>3, <3>1, Zenon DEF ReauthRefused, HubSetupFails
    <3>3. refused' \in Nat /\ entered' \in Passwords
      BY <1>3, <1>h, <1>f DEF ReauthRefused, HubSetupFails, Types
    <3>4. /\ form' \in {"closed", "open", "login"}
          /\ syncDue' \in {"none", "setup", "options"}
      BY <1>3, <1>h DEF ReauthRefused, HubSetupFails, Types
    <3> QED
      BY <3>2, <3>3, <3>4
  <2>3. OperationInv'
    BY <1>h, <2>1 DEF HeapTypes, OperationInv
  <2> QED
    BY <1>h, <2>1, <2>2, <2>3 DEF TypeInv, Types
<1>4. CASE OptionsLoginOk
  <2>1. opt' \in OptionsForm
    <3> DEFINE data == [opt.data EXCEPT !.cp = Fresh]
    <3>1. data \in Creds
      BY <1>h, <1>f DEF Types, OptionsForm, Creds
    <3>2. opt' = [[opt EXCEPT !.pc = "saving"] EXCEPT !.data = data]
      BY <1>4, <1>h DEF OptionsLoginOk, Types, OptionsForm
    <3> HIDE DEF data
    <3> QED
      BY <1>h, <3>1, <3>2 DEF Types, OptionsForm
  <2> QED
    BY <1>4, <1>h, <2>1, FormTypes DEF OptionsLoginOk, TypeInv, Types, OperationInv
<1>5. CASE OptionsLoginRefused
  BY <1>5, <1>h, <1>f DEF OptionsLoginRefused, TypeInv, Types, OperationInv
<1>6. CASE OptionsSaved
  <2>1. hub' \in Creds /\ opt' \in OptionsForm
    BY <1>6, <1>h, <1>f DEF OptionsSaved, Types, OptionsForm
  <2> QED
    BY <1>6, <1>h, <2>1 DEF OptionsSaved, TypeInv, Types, OperationInv
<1>7. ASSUME NEW t \in Tasks, CallFails(t) PROVE TypeInv'
  <2>1. HeapTypes' /\ lockq' \in Seq(Tasks)
    BY <1>7, <1>h, RaiseTypes DEF CallFails
  <2>2. NotifyReauth \/ SameForm
    BY <1>7, RaiseReports DEF CallFails
  <2>3. /\ UNCHANGED <<ems, authOk, shared, latched, userVars, refused>>
        /\ troubles' \in 0..MaxTroubles
    BY <1>7, <1>t DEF CallFails
  <2> QED
    BY <1>h, <2>1, <2>2, <2>3, FormTypes DEF TypeInv, Types, HeapTypes
<1>8. CASE FormFails
  BY <1>8, <1>h, <1>f, <1>t DEF FormFails, TypeInv, Types, OperationInv
<1>9. CASE Options
  <2>1. PICK pw \in Passwords, signIn \in BOOLEAN : OptionsSubmit(pw, signIn)
    BY <1>9, <1>e, <1>f DEF Options
  <2>2. opt' \in OptionsForm
    <3> DEFINE data == [hub EXCEPT !.pw = pw]
    <3>1. data \in Creds
      BY <1>h DEF Types, Creds
    <3>2. opt' = [pc |-> IF signIn THEN "login" ELSE "saving", signIn |-> signIn, data |-> data]
      BY <2>1 DEF OptionsSubmit
    <3> HIDE DEF data
    <3> QED
      BY <3>1, <3>2 DEF OptionsForm
  <2>3. ClearLatch \/ UNCHANGED <<latchVars, refused>>
    BY <2>1 DEF OptionsSubmit
  <2>4. UNCHANGED <<emsVars, hub, form, entered, syncDue>> /\ troubles' \in 0..MaxTroubles
    BY <1>9, <1>t, <2>1 DEF OptionsSubmit, Options
  <2> QED
    BY <1>h, <2>2, <2>3, <2>4, FormTypes DEF TypeInv, Types, OperationInv
<1>10. CASE EmsForgets
  <2>1. ems' \in [pw : Passwords, epoch : Nat \ {0}]
    BY <1>10, <1>h DEF EmsForgets, Types, Passwords
  <2> QED
    BY <1>10, <1>h, <1>t, <2>1 DEF EmsForgets, TypeInv, Types, OperationInv
<1>11. ASSUME NEW c \in Controls, AuthRotates(c) PROVE TypeInv'
  BY <1>11, <1>h, <1>t DEF AuthRotates, TypeInv, Types, OperationInv
<1>12. CASE Restart
  <2>1. Idle \in Operation
    BY BlankCreds DEF Idle, Operation
  <2>2. OperationInv'
    BY <1>12 DEF Restart, OperationInv, Idle
  <2>3. /\ shared' \in Tokens /\ lockq' \in Seq(Tasks) /\ acc' \in [Accounts -> Creds]
        /\ cloud' \in [Controls -> Accounts \cup {NoAccount}]
        /\ key' \in [Controls -> Creds] /\ task' \in [Tasks -> Operation]
    BY <1>12, <2>1, BlankCreds DEF Restart
  <2>4. /\ latched' \in BOOLEAN /\ notified' \in BOOLEAN /\ refused' \in Nat
        /\ form' \in {"closed", "open", "login"} /\ entered' \in Passwords
        /\ opt' \in OptionsForm /\ syncDue' \in {"none", "setup", "options"}
        /\ troubles' \in 0..MaxTroubles
    BY <1>12, <1>f, <1>t DEF Restart, ClearLatch
  <2>5. UNCHANGED <<ems, hub, authOk>>
    BY <1>12 DEF Restart
  <2> QED
    BY <1>h, <2>2, <2>3, <2>4, <2>5 DEF TypeInv, Types
<1> QED
  BY <1>1, <1>2, <1>3, <1>4, <1>5, <1>6, <1>7, <1>8, <1>9, <1>10, <1>11, <1>12
     DEF Form, OptionsReply, Disturbance

\* Every variable keeps its type, and operations have their objects.
LEMMA TypeInvariant == Spec => []TypeInv
<1>1. Init => TypeInv
  <2> SUFFICES ASSUME Init PROVE TypeInv
    OBVIOUS
  <2>1. Idle \in Operation /\ NoOptions \in OptionsForm
    BY BlankCreds DEF Idle, Operation, NoOptions, OptionsForm
  <2>2. OperationInv
    BY DEF Init, OperationInv, Idle
  <2>3. hub \in Creds /\ ems \in [pw : Passwords, epoch : Nat \ {0}]
    BY DEF Init, Creds, Passwords, Tokens
  <2>4. /\ shared \in Tokens /\ lockq \in Seq(Tasks) /\ acc \in [Accounts -> Creds]
        /\ cloud \in [Controls -> Accounts \cup {NoAccount}]
        /\ key \in [Controls -> Creds] /\ task \in [Tasks -> Operation]
        /\ authOk \in [Controls -> BOOLEAN]
    BY <2>1, BlankCreds DEF Init
  <2>5. troubles \in 0..MaxTroubles /\ refused \in Nat /\ entered \in Passwords
    BY AuthAssumption DEF Init, Passwords, WrongPassword
  <2>6. /\ latched \in BOOLEAN /\ notified \in BOOLEAN /\ opt \in OptionsForm
        /\ form \in {"closed", "open", "login"} /\ syncDue \in {"none", "setup", "options"}
    BY <2>1 DEF Init
  <2> QED
    BY <2>2, <2>3, <2>4, <2>5, <2>6 DEF TypeInv, Types
<1>2. TypeInv /\ [Next]_vars => TypeInv'
  <2> SUFFICES ASSUME TypeInv, [Next]_vars PROVE TypeInv'
    OBVIOUS
  <2>1. CASE UNCHANGED vars
    BY <2>1 DEF vars, latchVars, userVars, TypeInv, Types, OperationInv
  <2> QED
    BY <2>1, TaskStepTypes, OtherStepTypes DEF Next
<1> QED
  BY <1>1, <1>2, PTL DEF Spec
-----------------------------------------------------------------------------
\* A sync's account is its own, and has a token while a call is out.
SyncOwns(t) ==
  task[t].pc # "idle" /\ task[t].stage = "sync" =>
    /\ \A u \in Tasks : task[u].obj # task[t].tmp /\ (u # t => task[u].tmp # task[t].tmp)
    /\ \A c \in Controls : cloud[c] # task[t].tmp
    /\ task[t].pc = "call" => acc[task[t].tmp].cp # None

Carries(t) == task[t].pc = "call" => task[t].tok # None

TaskTokens == \A t \in Tasks : SyncOwns(t) /\ Carries(t)

\* The hub's token and the one the options form will store are never empty.
TokenInv ==
  /\ TaskTokens
  /\ hub.cp # None
  /\ opt.pc # "idle" => opt.data.cp # None

\* What task t may do to the objects: use its own, a device's or a new one.
Footprint(t, new) ==
  /\ \A u \in Tasks \ {t} : task'[u] = task[u]
  /\ \/ task'[t].obj \in {task[t].obj, NoAccount, NewAccount}
     \/ \E c \in Controls : task'[t].obj = cloud[c]
  /\ task'[t].tmp \in {task[t].tmp, NoAccount, NewAccount}
  /\ \A c \in Controls : cloud'[c] \in {cloud[c], NoAccount, NewAccount, task[t].obj}
  /\ Keep(new)
  /\ \A a \in Accounts \ {NewAccount, Active(t)} : new[a] = acc[a]

\* Such a step leaves every other sync its account.
LEMMA FootprintKeeps ==
  ASSUME TypeInv, TaskTokens, NEW t \in Tasks, NEW new, Footprint(t, new),
         SyncOwns(t)', Carries(t)'
  PROVE  TaskTokens'
<1>1. ASSUME NEW u \in Tasks, u # t PROVE Carries(u)'
  BY <1>1 DEF Footprint, TaskTokens, Carries
<1>2. ASSUME NEW u \in Tasks, u # t, task[u].pc # "idle", task[u].stage = "sync"
      PROVE  SyncOwns(u)'
  <2> DEFINE x == task[u].tmp
  <2>1. task'[u] = task[u] /\ x \in Accounts
    BY <1>2 DEF Footprint, TypeInv, OperationInv
  <2>2. x \in Held /\ x \in Held'
    <3>1. x # NoAccount
      BY <2>1, AuthAssumption
    <3> QED
      BY <2>1, <3>1 DEF Held
  <2>3. x # NewAccount /\ x # NoAccount
    BY <2>1, <2>2, NewIsUnused, AuthAssumption
  <2>4. /\ \A v \in Tasks : task[v].obj # x /\ (v # u => task[v].tmp # x)
        /\ \A c \in Controls : cloud[c] # x
        /\ task[u].pc = "call" => acc[x].cp # None
    BY <1>2 DEF TaskTokens, SyncOwns
  <2>5. x # Active(t)
    BY <1>2, <2>4 DEF Active
  <2>6. acc'[x] = acc[x]
    BY <2>1, <2>2, <2>3, <2>5 DEF Footprint, Keep
  <2>7. \A v \in Tasks : task'[v].obj # x /\ (v # u => task'[v].tmp # x)
    BY <2>3, <2>4 DEF Footprint
  <2>8. \A c \in Controls : cloud'[c] # x
    BY <2>3, <2>4 DEF Footprint
  <2> QED
    BY <2>1, <2>4, <2>6, <2>7, <2>8 DEF SyncOwns
<1>3. ASSUME NEW u \in Tasks, u # t PROVE SyncOwns(u)'
  <2>1. task'[u] = task[u]
    BY <1>3 DEF Footprint
  <2> QED
    BY <1>2, <1>3, <2>1 DEF SyncOwns
<1> QED
  BY <1>1, <1>3 DEF TaskTokens

\* Saving never empties the hub's token.
LEMMA PersistedToken ==
  ASSUME NEW h \in Creds, h.cp # None, NEW cp
  PROVE  Persisted(h, cp).cp # None
BY DEF Persisted, Creds

\* The end of a device's operation.
LEMMA SaveTokens ==
  ASSUME TypeInv, TaskTokens, NEW t \in Users,
         NEW a \in {task[t].obj, NewAccount, cloud[ControlOf[t]]}, NEW new,
         \A x \in Accounts \ {NewAccount, Active(t)} : new[x] = acc[x],
         NEW h \in Creds, h.cp # None, SaveAndEnd(t, a, new, h)
  PROVE  TaskTokens' /\ hub'.cp # None
<1>1. t \in Tasks
  BY DEF Tasks
<1>2. hub'.cp # None
  BY PersistedToken DEF SaveAndEnd
<1>3. task'[t] = Idle /\ \A u \in Tasks \ {t} : task'[u] = task[u]
  BY <1>1 DEF SaveAndEnd, TypeInv, Types
<1>4. SyncOwns(t)' /\ Carries(t)'
  BY <1>3 DEF SyncOwns, Carries, Idle
<1>5. \A c \in Controls : cloud'[c] \in {cloud[c], NoAccount, NewAccount, task[t].obj}
  BY DEF SaveAndEnd, TypeInv, Types
<1>6. Footprint(t, new)
  BY <1>3, <1>5 DEF Footprint, SaveAndEnd, Idle
<1> QED
  BY <1>1, <1>2, <1>4, <1>6, FootprintKeeps

\* The beginning of one.
LEMMA StartTokens ==
  ASSUME TypeInv, TaskTokens, NEW t \in Users,
         NEW stage \in {"first", "devices", "second"},
         NEW obj \in {task[t].obj, NewAccount, cloud[ControlOf[t]]},
         NEW tmp \in {NoAccount, NewAccount}, NEW new,
         \A x \in Accounts \ {NewAccount, Active(t)} : new[x] = acc[x],
         \A c \in Controls : cloud'[c] \in {cloud[c], NoAccount, NewAccount, task[t].obj},
         StartCall(t, stage, obj, tmp, new)
  PROVE  TaskTokens'
<1> DEFINE cp == new[IF stage \in {"devices", "sync"} THEN tmp ELSE obj].cp
           op == [pc |-> IF cp = None THEN "refresh" ELSE "call", stage |-> stage,
                  obj |-> obj, tmp |-> tmp, tok |-> cp, again |-> FALSE]
<1>1. t \in Tasks /\ ControlOf[t] \in Controls
  BY DEF Tasks, Controls
<1>2. task' = [task EXCEPT ![t] = op]
  BY DEF StartCall
<1>3. task'[t] = op /\ \A u \in Tasks \ {t} : task'[u] = task[u]
  BY <1>1, <1>2 DEF TypeInv, Types
<1>4. SyncOwns(t)' /\ Carries(t)'
  BY <1>3 DEF SyncOwns, Carries
<1>5. task'[t].obj = obj /\ task'[t].tmp = tmp
  BY <1>3
<1> HIDE DEF op
<1>6. Footprint(t, new)
  BY <1>1, <1>3, <1>5 DEF Footprint, StartCall
<1> QED
  BY <1>1, <1>4, <1>6, FootprintKeeps

\* A forced GwList.
LEMMA ForceTokens ==
  ASSUME TypeInv, TaskTokens, hub.cp # None, NEW t \in Users,
         task[t].pc # "idle", task[t].stage = "first", ForceRefresh(t)
  PROVE  TaskTokens' /\ hub'.cp # None
<1> DEFINE c == ControlOf[t]
           h == Persisted(hub, acc[task[t].obj].cp)
<1>1. h.cp # None /\ hub' = h
  BY PersistedToken DEF ForceRefresh, TypeInv, Types
<1>2. \A d \in Controls : cloud'[d] \in {cloud[d], NoAccount, NewAccount, task[t].obj}
  BY DEF ForceRefresh, TypeInv, Types
<1> DEFINE new == [acc EXCEPT ![NewAccount] = h]
<1>3. \A x \in Accounts \ {NewAccount, Active(t)} : new[x] = acc[x]
  BY DEF TypeInv, Types
<1>4. StartCall(t, "devices", task[t].obj, NewAccount, new)
  BY DEF ForceRefresh
<1> HIDE DEF h, new
<1>5. TaskTokens'
  BY <1>2, <1>3, <1>4, StartTokens
<1> QED
  BY <1>1, <1>5

\* An exception.
LEMMA RaiseTokens ==
  ASSUME TypeInv, TaskTokens, hub.cp # None, NEW t \in Tasks, task[t].pc # "idle",
         NEW kind, Raise(t, kind)
  PROVE  TaskTokens' /\ hub'.cp # None
<1>1. CASE task[t].stage = "sync"
  <2>1. /\ UNCHANGED <<hub, cloud, key>> /\ task' = [task EXCEPT ![t] = Idle]
        /\ Keep(acc)
    BY <1>1 DEF Raise
  <2>2. task'[t] = Idle /\ \A u \in Tasks \ {t} : task'[u] = task[u]
    BY <2>1 DEF TypeInv, Types
  <2>3. SyncOwns(t)' /\ Carries(t)'
    BY <2>2 DEF SyncOwns, Carries, Idle
  <2>4. Footprint(t, acc)
    BY <2>1, <2>2 DEF Footprint, Idle
  <2> QED
    BY <2>1, <2>3, <2>4, FootprintKeeps
<1>2. CASE task[t].stage # "sync"
  <2>1. t \in Users
    BY <1>2 DEF TypeInv, OperationInv
  <2>2. CASE task[t].stage = "first" /\ kind = "auth" /\ ~Rejected
    <3>1. ForceRefresh(t)
      BY <2>2 DEF Raise
    <3> QED
      BY <2>1, <2>2, <3>1, ForceTokens
  <2>3. CASE ~(task[t].stage = "first" /\ kind = "auth" /\ ~Rejected)
    <3>1. SaveAndEnd(t, task[t].obj, acc, hub)
      BY <1>2, <2>3 DEF Raise
    <3>2. hub \in Creds
      BY DEF TypeInv, Types
    <3> QED
      BY <2>1, <3>1, <3>2, SaveTokens
  <2> QED
    BY <2>2, <2>3
<1> QED
  BY <1>1, <1>2

\* A task that moves on with the same objects.
LEMMA MovedTokens ==
  ASSUME TypeInv, TaskTokens, NEW t \in Tasks, task[t].pc # "idle", NEW op,
         task' = [task EXCEPT ![t] = op], op.stage = task[t].stage,
         op.obj = task[t].obj, op.tmp = task[t].tmp, NEW new, Keep(new), UNCHANGED cloud,
         \A a \in Accounts \ {NewAccount, Active(t)} : new[a] = acc[a],
         op.pc = "call" => op.tok # None /\ new[Active(t)].cp # None
  PROVE  TaskTokens'
<1>1. task'[t] = op /\ \A u \in Tasks \ {t} : task'[u] = task[u]
  BY DEF TypeInv, Types
<1>2. Carries(t)'
  BY <1>1 DEF Carries
<1>3. SyncOwns(t)'
  <2> SUFFICES ASSUME task[t].stage = "sync" PROVE SyncOwns(t)'
    BY <1>1 DEF SyncOwns
  <2>1. Active(t) = task[t].tmp /\ task[t].tmp \in Accounts
    BY DEF Active, TypeInv, OperationInv
  <2>2. task[t].tmp \in Held'
    BY <1>1, <2>1, AuthAssumption DEF Held
  <2>3. acc'[task[t].tmp] = new[task[t].tmp]
    BY <2>1, <2>2 DEF Keep
  <2>4. /\ \A u \in Tasks : task[u].obj # task[t].tmp
                           /\ (u # t => task[u].tmp # task[t].tmp)
        /\ \A c \in Controls : cloud[c] # task[t].tmp
    BY DEF TaskTokens, SyncOwns
  <2> QED
    BY <1>1, <2>1, <2>3, <2>4 DEF SyncOwns
<1>4. Footprint(t, new)
  BY <1>1 DEF Footprint
<1> QED
  BY <1>2, <1>3, <1>4, FootprintKeeps
\* What happens under the lock: a token is adopted or dropped for a new one.
LEMMA InLockTokens ==
  ASSUME TypeInv, TaskTokens, hub.cp # None, NEW t \in Tasks, task[t].pc # "idle",
         NEW rejected, InLock(t, rejected)
  PROVE  TaskTokens' /\ hub'.cp # None
<1>a. Active(t) \in Accounts
  BY ActiveTypes DEF TypeInv, Types, HeapTypes
<1>1. CASE Rejected
  BY <1>1, RaiseTokens DEF InLock
<1>2. CASE ~Rejected /\ Adoptable(rejected)
  <2> DEFINE op == [task[t] EXCEPT !.pc = "call", !.tok = shared, !.again = TRUE]
             new == [acc EXCEPT ![Active(t)].cp = shared]
  <2>1. task' = [task EXCEPT ![t] = op] /\ Keep(new) /\ UNCHANGED <<hub, cloud>>
    BY <1>2 DEF InLock
  <2>2. shared # None
    BY <1>2 DEF Adoptable
  <2>3. /\ op.stage = task[t].stage /\ op.obj = task[t].obj /\ op.tmp = task[t].tmp
        /\ op.pc = "call" => op.tok # None
    BY <2>2 DEF TypeInv, Types, Operation
  <2>4. /\ \A a \in Accounts \ {NewAccount, Active(t)} : new[a] = acc[a]
        /\ new[Active(t)].cp # None
    BY <1>a, <2>2 DEF TypeInv, Types, Creds
  <2> HIDE DEF op, new
  <2> QED
    BY <2>1, <2>3, <2>4, MovedTokens
<1>3. CASE ~Rejected /\ ~Adoptable(rejected)
  <2> DEFINE op == [task[t] EXCEPT !.pc = "refresh", !.tok = None, !.again = TRUE]
             new == [acc EXCEPT ![Active(t)].cp = None]
  <2>1. task' = [task EXCEPT ![t] = op] /\ Keep(new) /\ UNCHANGED <<hub, cloud>>
    BY <1>3 DEF InLock
  <2>2. /\ op.stage = task[t].stage /\ op.obj = task[t].obj /\ op.tmp = task[t].tmp
        /\ op.pc # "call"
    BY DEF TypeInv, Types, Operation
  <2>3. \A a \in Accounts \ {NewAccount, Active(t)} : new[a] = acc[a]
    BY <1>a DEF TypeInv, Types, Creds
  <2> HIDE DEF op, new
  <2> QED
    BY <2>1, <2>2, <2>3, MovedTokens
<1> QED
  BY <1>1, <1>2, <1>3

\* A new token.
LEMMA SignedInTokens ==
  ASSUME TypeInv, TaskTokens, NEW t \in Tasks, task[t].pc # "idle", SignedIn(t)
  PROVE  TaskTokens' /\ hub' = hub
<1> DEFINE op == [task[t] EXCEPT !.pc = "call", !.tok = Fresh]
           new == [acc EXCEPT ![Active(t)].cp = Fresh]
<1>1. Active(t) \in Accounts /\ Fresh # None
  BY ActiveTypes, NewElements DEF TypeInv, Types, HeapTypes
<1>2. task' = [task EXCEPT ![t] = op] /\ Keep(new) /\ UNCHANGED <<hub, cloud>>
  BY DEF SignedIn
<1>3. /\ op.stage = task[t].stage /\ op.obj = task[t].obj /\ op.tmp = task[t].tmp
      /\ op.pc = "call" => op.tok # None
  BY <1>1 DEF TypeInv, Types, Operation
<1>4. /\ \A a \in Accounts \ {NewAccount, Active(t)} : new[a] = acc[a]
      /\ new[Active(t)].cp # None
  BY <1>1 DEF TypeInv, Types, Creds
<1> HIDE DEF op, new
<1> QED
  BY <1>2, <1>3, <1>4, MovedTokens

\* DeviceControl's account object is the device's or a new one.
LEMMA ObjectUse ==
  ASSUME TypeInv, NEW t \in Users, NEW h
  PROVE  /\ ObjectFor(ControlOf[t], h) \in {task[t].obj, NewAccount, cloud[ControlOf[t]]}
         /\ \A x \in Accounts \ {NewAccount, Active(t)} :
              HeapFor(ControlOf[t], h)[x] = acc[x]
         /\ UseObject(ControlOf[t], h) =>
              \A c \in Controls : cloud'[c] \in {cloud[c], NoAccount, NewAccount, task[t].obj}
<1>1. ObjectFor(ControlOf[t], h) \in {NewAccount, cloud[ControlOf[t]]}
  BY DEF ObjectFor
<1>2. \A x \in Accounts \ {NewAccount, Active(t)} : HeapFor(ControlOf[t], h)[x] = acc[x]
  BY DEF HeapFor, TypeInv, Types
<1>3. UseObject(ControlOf[t], h) =>
        \A c \in Controls : cloud'[c] \in {cloud[c], NoAccount, NewAccount, task[t].obj}
  BY <1>1 DEF UseObject, TypeInv, Types
<1> QED
  BY <1>1, <1>2, <1>3

\* Every step of a task keeps the tokens.
LEMMA TaskStepTokens ==
  ASSUME TypeInv, TokenInv, NEW t \in Tasks, Begin(t) \/ BeginSync(t) \/ Reply(t)
  PROVE  TokenInv'
<1> USE DEF userVars
<1>h. /\ TaskTokens /\ hub.cp # None /\ hub \in Creds
      /\ opt' = opt => (opt'.pc # "idle" => opt'.data.cp # None)
  BY DEF TokenInv, TypeInv, Types
<1>1. CASE Begin(t)
  <2>1. t \in Users
    BY <1>1 DEF Begin
  <2>2. TaskTokens' /\ hub'.cp # None
    <3>1. CASE Rejected
      <4> DEFINE a == ObjectFor(ControlOf[t], hub)
                 new == HeapFor(ControlOf[t], hub)
      <4>1. SaveAndEnd(t, a, new, hub)
        BY <1>1, <3>1 DEF Begin
      <4>2. /\ a \in {task[t].obj, NewAccount, cloud[ControlOf[t]]}
            /\ \A x \in Accounts \ {NewAccount, Active(t)} : new[x] = acc[x]
        BY DEF ObjectFor, HeapFor, TypeInv, Types
      <4> HIDE DEF a, new
      <4> QED
        BY <1>h, <2>1, <4>1, <4>2, SaveTokens
    <3>2. CASE ~Rejected
      <4>1. /\ UseObject(ControlOf[t], hub) /\ UNCHANGED hub
            /\ StartCall(t, "first", ObjectFor(ControlOf[t], hub), NoAccount,
                         HeapFor(ControlOf[t], hub))
        BY <1>1, <3>2 DEF Begin
      <4>2. TaskTokens'
        BY <1>h, <2>1, <4>1, ObjectUse, StartTokens
      <4> QED
        BY <1>h, <4>1, <4>2
    <3> QED
      BY <3>1, <3>2
  <2> QED
    BY <1>1, <1>h, <2>2 DEF Begin, TokenInv
<1>2. CASE BeginSync(t)
  <2>1. hub' = hub /\ opt' = opt /\ cloud' = cloud /\ task[t].pc = "idle" /\ t \in Syncs
    BY <1>2 DEF BeginSync
  <2>2. CASE Rejected
    <3>1. UNCHANGED <<task, acc>>
      BY <1>2, <2>2 DEF BeginSync
    <3>2. TaskTokens'
      BY <1>h, <2>1, <3>1 DEF TaskTokens, SyncOwns, Carries
    <3> QED
      BY <1>h, <2>1, <3>2 DEF TokenInv
  <2>3. CASE ~Rejected
    <3> DEFINE new == [acc EXCEPT ![NewAccount] = hub]
               op == [pc |-> IF new[NewAccount].cp = None THEN "refresh" ELSE "call",
                      stage |-> "sync", obj |-> NoAccount, tmp |-> NewAccount,
                      tok |-> new[NewAccount].cp, again |-> FALSE]
    <3>1. task' = [task EXCEPT ![t] = op] /\ Keep(new)
      BY <1>2, <2>3 DEF BeginSync, StartCall
    <3>2. NewAccount \in Accounts \ Held /\ NewAccount # NoAccount
      BY NewIsUnused, AuthAssumption
    <3>3. new[NewAccount] = hub /\ \A a \in Accounts \ {NewAccount} : new[a] = acc[a]
      BY <3>2 DEF TypeInv, Types
    <3>4. op.stage = "sync" /\ op.obj = NoAccount /\ op.tmp = NewAccount
          /\ op.tok = hub.cp
      BY <3>3
    <3> HIDE DEF new, op
    <3>5. task'[t] = op /\ \A u \in Tasks \ {t} : task'[u] = task[u]
      BY <3>1 DEF TypeInv, Types
    <3>6. NewAccount \in Held'
      BY <3>2, <3>4, <3>5 DEF Held
    <3>7. acc'[NewAccount] = hub
      BY <3>1, <3>2, <3>3, <3>6 DEF Keep
    <3>8. /\ \A u \in Tasks : task[u].obj # NewAccount /\ task[u].tmp # NewAccount
          /\ \A c \in Controls : cloud[c] # NewAccount
      BY <3>2 DEF Held
    <3>9. SyncOwns(t)' /\ Carries(t)'
      BY <1>h, <2>1, <3>2, <3>4, <3>5, <3>7, <3>8 DEF SyncOwns, Carries
    <3>10. Footprint(t, new)
      BY <2>1, <3>1, <3>3, <3>4, <3>5 DEF Footprint
    <3>11. TaskTokens'
      BY <1>h, <3>9, <3>10, FootprintKeeps
    <3> QED
      BY <1>h, <2>1, <3>11 DEF TokenInv
  <2> QED
    BY <2>2, <2>3
<1>3. CASE CallDone(t)
  <2>1. t \in Users
    BY <1>3 DEF CallDone, TypeInv, OperationInv
  <2>2. SaveAndEnd(t, task[t].obj, acc, hub)
    BY <1>3 DEF CallDone
  <2>3. TaskTokens' /\ hub'.cp # None
    BY <1>h, <2>1, <2>2, SaveTokens
  <2> QED
    BY <1>3, <1>h, <2>3 DEF CallDone, TokenInv
<1>4. CASE GotDevices(t)
  <2> DEFINE c == ControlOf[t]
             h == Persisted(hub, acc[task[t].tmp].cp)
             a == ObjectFor(c, h)
             new == HeapFor(c, h)
  <2>1. t \in Users /\ task[t].tmp \in Accounts
    BY <1>4 DEF GotDevices, TypeInv, OperationInv
  <2>2. h \in Creds /\ h.cp # None
    <3>1. acc[task[t].tmp].cp \in Tokens
      BY <2>1 DEF TypeInv, Types, Creds
    <3> QED
      BY <1>h, <3>1, PersistedTypes, PersistedToken
  <2>u. /\ a \in {task[t].obj, NewAccount, cloud[c]}
        /\ \A x \in Accounts \ {NewAccount, Active(t)} : new[x] = acc[x]
        /\ UseObject(c, h) =>
             \A d \in Controls : cloud'[d] \in {cloud[d], NoAccount, NewAccount, task[t].obj}
    BY <2>1, ObjectUse
  <2>3. CASE Rejected
    <3>1. SaveAndEnd(t, a, new, h)
      BY <1>4, <2>3 DEF GotDevices
    <3> HIDE DEF h, a, new
    <3>2. TaskTokens' /\ hub'.cp # None
      BY <1>h, <2>1, <2>2, <2>u, <3>1, SaveTokens
    <3> QED
      BY <1>4, <1>h, <3>2 DEF GotDevices, TokenInv
  <2>4. CASE ~Rejected
    <3>1. hub' = h /\ UseObject(c, h) /\ StartCall(t, "second", a, NoAccount, new)
      BY <1>4, <2>4 DEF GotDevices
    <3> HIDE DEF h, a, new
    <3>2. TaskTokens'
      BY <1>h, <2>1, <2>u, <3>1, StartTokens
    <3> QED
      BY <1>4, <1>h, <2>2, <3>1, <3>2 DEF GotDevices, TokenInv
  <2> QED
    BY <2>3, <2>4
<1>5. CASE SyncDone(t)
  <2>1. /\ hub' = [hub EXCEPT !.cp = acc[task[t].tmp].cp]
        /\ task' = [task EXCEPT ![t] = Idle] /\ Keep(acc) /\ UNCHANGED <<cloud, opt>>
        /\ task[t].pc = "call" /\ task[t].stage = "sync"
    BY <1>5 DEF SyncDone
  <2>2. hub'.cp # None
    BY <1>h, <2>1 DEF TaskTokens, SyncOwns, Creds
  <2>3. task'[t] = Idle /\ \A u \in Tasks \ {t} : task'[u] = task[u]
    BY <2>1 DEF TypeInv, Types
  <2>4. SyncOwns(t)' /\ Carries(t)'
    BY <2>3 DEF SyncOwns, Carries, Idle
  <2>5. Footprint(t, acc)
    BY <2>1, <2>3 DEF Footprint, Idle
  <2>6. TaskTokens'
    BY <1>h, <2>4, <2>5, FootprintKeeps
  <2> QED
    BY <1>h, <2>1, <2>2, <2>6 DEF TokenInv
<1>6. CASE CallRejected(t)
  <2>1. task[t].pc = "call" /\ opt' = opt
    BY <1>6 DEF CallRejected
  <2> DEFINE rejected == acc[Active(t)].cp
  <2>2. TaskTokens' /\ hub'.cp # None
    <3>1. CASE Raise(t, "auth")
      BY <1>h, <2>1, <3>1, RaiseTokens
    <3>2. CASE InLock(t, rejected)
      BY <1>h, <2>1, <3>2, InLockTokens
    <3>3. CASE /\ task' = [task EXCEPT ![t].pc = "lock", ![t].tok = rejected]
               /\ UNCHANGED <<hub, shared, acc, cloud, key>>
      <4> DEFINE op == [task[t] EXCEPT !.pc = "lock", !.tok = rejected]
      <4>1. /\ op.stage = task[t].stage /\ op.obj = task[t].obj /\ op.tmp = task[t].tmp
            /\ op.pc = "lock"
        BY DEF TypeInv, Types, Operation
      <4>2. task' = [task EXCEPT ![t] = op]
        BY <3>3
      <4> HIDE DEF op
      <4>3. task'[t] = op /\ \A u \in Tasks \ {t} : task'[u] = task[u]
        BY <4>2 DEF TypeInv, Types
      <4>4. \A u \in Tasks : /\ task'[u].obj = task[u].obj /\ task'[u].tmp = task[u].tmp
                             /\ task'[u].stage = task[u].stage
                             /\ (task'[u].pc = "idle") = (task[u].pc = "idle")
                             /\ task'[u].pc = "call" => task'[u] = task[u]
        BY <2>1, <4>1, <4>3
      <4> HIDE DEF rejected
      <4>5. ASSUME NEW u \in Tasks PROVE SyncOwns(u)' /\ Carries(u)'
        <5>1. SyncOwns(u) /\ Carries(u)
          BY <1>h DEF TaskTokens
        <5>2. Carries(u)'
          BY <4>4, <5>1 DEF Carries
        <5>3. SyncOwns(u)'
          BY <3>3, <4>4, <5>1 DEF SyncOwns
        <5> QED
          BY <5>2, <5>3
      <4>6. TaskTokens'
        BY <4>5 DEF TaskTokens
      <4> QED
        BY <1>h, <3>3, <4>6
    <3> QED
      BY <1>6, <3>1, <3>2, <3>3 DEF CallRejected
  <2> QED
    BY <1>h, <2>1, <2>2 DEF TokenInv
<1>7. CASE GetsLock(t)
  <2>1. TaskTokens' /\ hub'.cp # None
    BY <1>7, <1>h, InLockTokens DEF GetsLock
  <2> QED
    BY <1>7, <1>h, <2>1 DEF GetsLock, TokenInv
<1>8. CASE RefreshOk(t) \/ LoginOk(t)
  <2>1. TaskTokens' /\ hub' = hub
    BY <1>8, <1>h, SignedInTokens DEF RefreshOk, LoginOk
  <2> QED
    BY <1>8, <1>h, <2>1 DEF RefreshOk, LoginOk, SignedIn, TokenInv
<1>9. CASE RefreshFails(t)
  <2>1. opt' = opt /\ task[t].pc = "refresh"
    BY <1>9 DEF RefreshFails
  <2>2. CASE ~Rejected
    <3> DEFINE op == [task[t] EXCEPT !.pc = "login"]
    <3>1. /\ op.stage = task[t].stage /\ op.obj = task[t].obj /\ op.tmp = task[t].tmp
          /\ op.pc = "login"
      BY DEF TypeInv, Types, Operation
    <3>2. task' = [task EXCEPT ![t] = op] /\ UNCHANGED <<hub, acc, cloud>>
      BY <1>9, <2>2 DEF RefreshFails
    <3> HIDE DEF op
    <3>3. task'[t] = op /\ \A u \in Tasks \ {t} : task'[u] = task[u]
      BY <3>2 DEF TypeInv, Types
    <3>4. \A u \in Tasks : /\ task'[u].obj = task[u].obj /\ task'[u].tmp = task[u].tmp
                           /\ task'[u].stage = task[u].stage
                           /\ (task'[u].pc = "idle") = (task[u].pc = "idle")
                           /\ task'[u].pc = "call" => task'[u] = task[u]
      BY <2>1, <3>1, <3>3
    <3>5. TaskTokens'
      BY <1>h, <3>2, <3>4 DEF TaskTokens, SyncOwns, Carries
    <3> QED
      BY <1>h, <2>1, <3>2, <3>5 DEF TokenInv
  <2>3. CASE Rejected
    <3>1. TaskTokens' /\ hub'.cp # None
      BY <1>9, <1>h, <2>1, <2>3, RaiseTokens DEF RefreshFails
    <3> QED
      BY <1>h, <2>1, <3>1 DEF TokenInv
  <2> QED
    BY <2>2, <2>3
<1>10. CASE LoginRefused(t)
  <2>1. TaskTokens' /\ hub'.cp # None
    BY <1>10, <1>h, RaiseTokens DEF LoginRefused
  <2> QED
    BY <1>10, <1>h, <2>1 DEF LoginRefused, TokenInv
<1> QED
  BY <1>1, <1>2, <1>3, <1>4, <1>5, <1>6, <1>7, <1>8, <1>9, <1>10 DEF Reply

\* So does every other step.
LEMMA OtherStepTokens ==
  ASSUME TypeInv, TokenInv, Form \/ OptionsReply \/ HubSetupFails \/ Disturbance
  PROVE  TokenInv'
<1> USE DEF userVars, emsVars
<1>h. /\ TaskTokens /\ hub.cp # None /\ Fresh # None
      /\ opt.pc # "idle" => opt.data.cp # None
  BY NewElements DEF TokenInv, TypeInv
<1>a. UNCHANGED <<acc, cloud, task>> => TaskTokens'
  BY <1>h DEF TaskTokens, SyncOwns, Carries
<1>1. CASE Form
  BY <1>1, <1>h, <1>a DEF Form, SubmitRight, Submit, ReauthOk, ReauthRefused, TokenInv
<1>2. CASE OptionsLoginOk
  <2>1. opt'.data.cp # None
    BY <1>2, <1>h DEF OptionsLoginOk, TypeInv, Types, OptionsForm, Creds
  <2> QED
    BY <1>2, <1>h, <1>a, <2>1 DEF OptionsLoginOk, TokenInv
<1>3. CASE OptionsLoginRefused \/ OptionsSaved
  BY <1>3, <1>h, <1>a DEF OptionsLoginRefused, OptionsSaved, NoOptions, TokenInv
<1>4. CASE HubSetupFails
  BY <1>4, <1>h, <1>a DEF HubSetupFails, TokenInv
<1>5. ASSUME NEW t \in Tasks, CallFails(t) PROVE TokenInv'
  <2>1. task[t].pc # "idle" /\ opt' = opt
    BY <1>5 DEF CallFails
  <2>2. TaskTokens' /\ hub'.cp # None
    BY <1>5, <1>h, <2>1, RaiseTokens DEF CallFails
  <2> QED
    BY <1>h, <2>1, <2>2 DEF TokenInv
<1>6. CASE FormFails \/ SubmitWrong \/ EmsForgets \/ \E c \in Controls : AuthRotates(c)
  BY <1>6, <1>h, <1>a
     DEF FormFails, SubmitWrong, Submit, EmsForgets, AuthRotates, NoOptions, TokenInv
<1>7. CASE Options
  <2>1. PICK pw \in Passwords, signIn \in BOOLEAN : OptionsSubmit(pw, signIn)
    BY <1>7 DEF Options, TypeInv, Types, Creds, Passwords, WrongPassword
  <2>2. opt'.data.cp # None
    BY <1>h, <2>1 DEF OptionsSubmit, TypeInv, Types, Creds
  <2> QED
    BY <1>h, <1>a, <2>1, <2>2 DEF OptionsSubmit, TokenInv
<1>8. CASE Restart
  <2>1. TaskTokens'
    BY <1>8 DEF Restart, TaskTokens, SyncOwns, Carries, Idle
  <2> QED
    BY <1>8, <1>h, <2>1 DEF Restart, NoOptions, TokenInv
<1> QED
  BY <1>1, <1>2, <1>3, <1>4, <1>5, <1>6, <1>7, <1>8
     DEF OptionsReply, Disturbance

LEMMA TokenInvariant == Spec => []TokenInv
<1>1. Init => TokenInv
  BY DEF Init, TokenInv, TaskTokens, SyncOwns, Carries, Idle, NoOptions, None
<1>2. TypeInv /\ TokenInv /\ [Next]_vars => TokenInv'
  <2> SUFFICES ASSUME TypeInv, TokenInv, [Next]_vars PROVE TokenInv'
    OBVIOUS
  <2>1. CASE UNCHANGED vars
    BY <2>1 DEF vars, userVars, TokenInv, TaskTokens, SyncOwns, Carries
  <2> QED
    BY <2>1, TaskStepTokens, OtherStepTokens DEF Next
<1> QED
  BY <1>1, <1>2, TypeInvariant, PTL DEF Spec

\* Every variable keeps its type, and the hub is never stored without a CPToken
\* (_persist_hub_tokens of control.py, async_sync_cloud_to_devices of cloud_sync.py).
THEOREM AuthTypes == Spec => []TypeOK
<1>1. TypeInv /\ TokenInv => TypeOK
  BY DEF TypeInv, TokenInv, TypeOK
<1> QED
  BY <1>1, TypeInvariant, TokenInvariant, PTL

\* No call goes out without a CPToken, whatever other tasks do to the account it
\* uses (cloud.py 337-352, 382-401).
THEOREM TokenSent == Spec => []CallsCarryToken
<1>1. TokenInv => CallsCarryToken
  BY DEF TokenInv, TaskTokens, Carries, CallsCarryToken
<1> QED
  BY <1>1, TokenInvariant, PTL
-----------------------------------------------------------------------------
\* Tasks and forms whose password is at EMS.
Pending == {t \in Tasks : task[t].pc = "login"}
FormPending == IF form = "login" THEN 1 ELSE 0
OptionsPending == IF opt.pc = "login" THEN 1 ELSE 0

\* Each refusal used up a password login under way when the latch was set.
RefusalInv ==
  /\ ~latched => refused = 0
  /\ refused + Cardinality(Pending) + FormPending + OptionsPending <= Cardinality(Tasks) + 2

LEMMA PendingCount ==
  /\ IsFiniteSet(Pending) /\ Cardinality(Pending) \in Nat
  /\ Cardinality(Pending) <= Cardinality(Tasks)
<1>1. Pending \subseteq Tasks
  BY DEF Pending
<1> QED
  BY <1>1, FiniteTasks, FS_Subset, FS_CardinalityType

\* While nothing has been refused the bound holds.
LEMMA NoRefusals ==
  ASSUME refused' = 0
  PROVE  RefusalInv'
<1>1. /\ IsFiniteSet(Pending') /\ Cardinality(Pending') \in Nat
      /\ Cardinality(Pending') <= Cardinality(Tasks)
  <2>1. Pending' \subseteq Tasks
    BY DEF Pending
  <2> QED
    BY <2>1, FiniteTasks, FS_Subset, FS_CardinalityType
<1>2. FormPending' \in {0, 1} /\ OptionsPending' \in {0, 1}
  BY DEF FormPending, OptionsPending
<1> QED
  BY <1>1, <1>2, FiniteTasks DEF RefusalInv

\* So it does at the start.
LEMMA NoRefusalsInit ==
  ASSUME refused = 0
  PROVE  RefusalInv
<1>1. FormPending \in {0, 1} /\ OptionsPending \in {0, 1}
  BY DEF FormPending, OptionsPending
<1> QED
  BY <1>1, PendingCount, FiniteTasks DEF RefusalInv

\* No login begins.
NoNewLogin ==
  /\ \A t \in Tasks : task'[t].pc = "login" => task[t].pc = "login"
  /\ form' = "login" => form = "login"
  /\ opt'.pc = "login" => opt.pc = "login"

\* A step that begins no login keeps the bound.
LEMMA NoLoginKeeps ==
  ASSUME Types, RefusalInv, NoNewLogin, refused' = refused, latched' = latched
  PROVE  RefusalInv'
<1>1. Pending' \subseteq Pending
  BY DEF Pending, NoNewLogin
<1>2. /\ Cardinality(Pending') \in Nat /\ Cardinality(Pending) \in Nat
      /\ Cardinality(Pending') <= Cardinality(Pending)
  BY <1>1, PendingCount, FS_Subset, FS_CardinalityType
<1>3. /\ FormPending' \in {0, 1} /\ OptionsPending' \in {0, 1}
      /\ FormPending \in {0, 1} /\ OptionsPending \in {0, 1}
      /\ FormPending' <= FormPending /\ OptionsPending' <= OptionsPending
  BY DEF FormPending, OptionsPending, NoNewLogin
<1>4. refused \in Nat
  BY DEF Types
<1> QED
  BY <1>2, <1>3, <1>4, FiniteTasks DEF RefusalInv

\* A refusal ends a login.
LEMMA RefusalKeeps ==
  ASSUME Types, RefusalInv, NoNewLogin, latched' = TRUE, refused' = refused + 1,
         \/ \E t \in Tasks : task[t].pc = "login" /\ task'[t].pc # "login"
         \/ form = "login" /\ form' # "login"
         \/ opt.pc = "login" /\ opt'.pc # "login"
  PROVE  RefusalInv'
<1>1. Pending' \subseteq Pending
  BY DEF Pending, NoNewLogin
<1>2. /\ IsFiniteSet(Pending') /\ Cardinality(Pending') \in Nat
      /\ Cardinality(Pending) \in Nat /\ Cardinality(Pending') <= Cardinality(Pending)
  BY <1>1, PendingCount, FS_Subset, FS_CardinalityType
<1>3. /\ FormPending' \in {0, 1} /\ OptionsPending' \in {0, 1}
      /\ FormPending \in {0, 1} /\ OptionsPending \in {0, 1}
      /\ FormPending' <= FormPending /\ OptionsPending' <= OptionsPending
  BY DEF FormPending, OptionsPending, NoNewLogin
<1>4. refused \in Nat
  BY DEF Types
<1>5. CASE \E t \in Tasks : task[t].pc = "login" /\ task'[t].pc # "login"
  <2>1. Pending' # Pending
    BY <1>5 DEF Pending
  <2>2. Cardinality(Pending') < Cardinality(Pending)
    BY <1>1, <1>2, <2>1, PendingCount, FS_Subset
  <2> QED
    BY <1>2, <1>3, <1>4, <2>2, FiniteTasks DEF RefusalInv
<1>6. CASE form = "login" /\ form' # "login"
  <2>1. FormPending' < FormPending
    BY <1>6 DEF FormPending
  <2> QED
    BY <1>2, <1>3, <1>4, <2>1, FiniteTasks DEF RefusalInv
<1>7. CASE opt.pc = "login" /\ opt'.pc # "login"
  <2>1. OptionsPending' < OptionsPending
    BY <1>7 DEF OptionsPending
  <2> QED
    BY <1>2, <1>3, <1>4, <2>1, FiniteTasks DEF RefusalInv
<1> QED
  BY <1>5, <1>6, <1>7

\* Task t has no login under way afterwards, and the others are where they were.
Elsewhere(t) ==
  /\ task'[t].pc # "login"
  /\ \A u \in Tasks \ {t} : task'[u] = task[u]

LEMMA NoLoginFollows ==
  ASSUME Types, NEW t \in Tasks
  PROVE  /\ \A a, new, h : SaveAndEnd(t, a, new, h) => Elsewhere(t)
         /\ \A stage, obj, tmp, new : StartCall(t, stage, obj, tmp, new) => Elsewhere(t)
         /\ \A kind : Raise(t, kind) => Elsewhere(t)
         /\ \A rejected : InLock(t, rejected) => Elsewhere(t)
         /\ SignedIn(t) => Elsewhere(t)
<1>0. task \in [Tasks -> Operation]
  BY DEF Types
<1>1. ASSUME NEW a, NEW new, NEW h, SaveAndEnd(t, a, new, h) PROVE Elsewhere(t)
  BY <1>0, <1>1 DEF SaveAndEnd, Elsewhere, Idle
<1>2. ASSUME NEW stage, NEW obj, NEW tmp, NEW new, StartCall(t, stage, obj, tmp, new)
      PROVE  Elsewhere(t)
  BY <1>0, <1>2 DEF StartCall, Elsewhere
<1>3. ASSUME NEW kind, Raise(t, kind) PROVE Elsewhere(t)
  <2>1. CASE ForceRefresh(t)
    BY <1>2, <2>1 DEF ForceRefresh
  <2>2. CASE task' = [task EXCEPT ![t] = Idle]
    BY <1>0, <2>2 DEF Elsewhere, Idle
  <2>3. CASE SaveAndEnd(t, task[t].obj, acc, hub)
    BY <1>1, <2>3
  <2> QED
    BY <1>3, <2>1, <2>2, <2>3 DEF Raise
<1>4. ASSUME NEW rejected, InLock(t, rejected) PROVE Elsewhere(t)
  <2>1. CASE Raise(t, "credentials")
    BY <1>3, <2>1
  <2>2. CASE task' = [task EXCEPT ![t].pc = "call", ![t].tok = shared, ![t].again = TRUE]
    BY <1>0, <2>2 DEF Elsewhere, Operation
  <2>3. CASE task' = [task EXCEPT ![t].pc = "refresh", ![t].tok = None, ![t].again = TRUE]
    BY <1>0, <2>3 DEF Elsewhere, Operation
  <2> QED
    BY <1>4, <2>1, <2>2, <2>3 DEF InLock
<1>5. ASSUME SignedIn(t) PROVE Elsewhere(t)
  BY <1>0, <1>5 DEF SignedIn, Elsewhere, Operation
<1> QED
  BY <1>1, <1>2, <1>3, <1>4, <1>5
\* A refused password is not hammered: between two events that clear the reject
\* latch, at most the logins under way are refused (cloud.py 293-327, README.md:36).
THEOREM NotHammered == Spec => []RefusalsBounded
<1>1. Init => RefusalInv
  BY NoRefusalsInit DEF Init
<1>2. Types /\ RefusalInv /\ [Next]_vars => RefusalInv'
  <2> SUFFICES ASSUME Types, RefusalInv, [Next]_vars PROVE RefusalInv'
    OBVIOUS
  <2> USE DEF latchVars, userVars, emsVars
  <2>1. NotifyReauth \/ SameForm => (form' = "login" => form = "login")
    BY DEF NotifyReauth, SameForm
  <2>2. ASSUME NEW t \in Tasks, Elsewhere(t), NotifyReauth \/ SameForm, UNCHANGED opt
        PROVE  NoNewLogin
    BY <2>1, <2>2 DEF Elsewhere, NoNewLogin
  <2>3. ClearLatch => RefusalInv'
    BY NoRefusals DEF ClearLatch
  <2>4. ASSUME NEW t \in Tasks, Begin(t) PROVE RefusalInv'
    <3>1. Elsewhere(t)
      BY <2>4, NoLoginFollows DEF Begin
    <3> QED
      BY <2>2, <2>4, <3>1, NoLoginKeeps DEF Begin
  <2>5. ASSUME NEW t \in Tasks, BeginSync(t) PROVE RefusalInv'
    <3>1. task' = task \/ Elsewhere(t)
      BY <2>5, NoLoginFollows DEF BeginSync
    <3>2. NotifyReauth \/ SameForm
      BY <2>5 DEF BeginSync
    <3>3. NoNewLogin
      BY <2>1, <2>2, <2>5, <3>1, <3>2 DEF BeginSync, NoNewLogin
    <3> QED
      BY <2>5, <3>3, NoLoginKeeps DEF BeginSync
  <2>6. ASSUME NEW t \in Tasks, CallDone(t) \/ GotDevices(t) \/ SyncDone(t) PROVE RefusalInv'
    <3>1. CASE CallDone(t)
      BY <2>2, <3>1, NoLoginFollows, NoLoginKeeps DEF CallDone
    <3>2. CASE GotDevices(t)
      <4>1. Elsewhere(t)
        BY <3>2, NoLoginFollows DEF GotDevices
      <4> QED
        BY <2>2, <3>2, <4>1, NoLoginKeeps DEF GotDevices, MayNotify
    <3>3. CASE SyncDone(t)
      <4>1. Elsewhere(t)
        BY <3>3 DEF SyncDone, Elsewhere, Idle, Types
      <4> QED
        BY <2>2, <3>3, <4>1, NoLoginKeeps DEF SyncDone
    <3> QED
      BY <2>6, <3>1, <3>2, <3>3
  <2>7. ASSUME NEW t \in Tasks, CallRejected(t) PROVE RefusalInv'
    <3>1. Elsewhere(t)
      <4>1. CASE task' = [task EXCEPT ![t].pc = "lock", ![t].tok = acc[Active(t)].cp]
        BY <4>1 DEF Types, Operation, Elsewhere
      <4> QED
        BY <2>7, <4>1, NoLoginFollows DEF CallRejected
    <3>2. NotifyReauth \/ SameForm
      BY <2>7, RaiseReports, InLockReports DEF CallRejected
    <3> QED
      BY <2>2, <2>7, <3>1, <3>2, NoLoginKeeps DEF CallRejected
  <2>8. ASSUME NEW t \in Tasks, GetsLock(t) PROVE RefusalInv'
    BY <2>2, <2>8, InLockReports, NoLoginFollows, NoLoginKeeps DEF GetsLock
  <2>9. ASSUME NEW t \in Tasks, RefreshOk(t) PROVE RefusalInv'
    <3>1. Elsewhere(t)
      BY <2>9, NoLoginFollows DEF RefreshOk
    <3> QED
      BY <2>2, <2>9, <3>1, NoLoginKeeps DEF RefreshOk, SignedIn, SameForm
  <2>10. ASSUME NEW t \in Tasks, RefreshFails(t) PROVE RefusalInv'
    <3>1. CASE Rejected
      <4>1. Raise(t, "credentials")
        BY <2>10, <3>1 DEF RefreshFails
      <4>2. Elsewhere(t)
        BY <4>1, NoLoginFollows
      <4> QED
        BY <2>2, <2>10, <4>1, <4>2, RaiseReports, NoLoginKeeps DEF RefreshFails
    <3>2. CASE ~Rejected
      BY <2>10, <3>2, NoRefusals DEF RefreshFails, Rejected, RefusalInv
    <3> QED
      BY <3>1, <3>2
  <2>11. ASSUME NEW t \in Tasks, LoginOk(t) PROVE RefusalInv'
    BY <2>3, <2>11 DEF LoginOk
  <2>12. ASSUME NEW t \in Tasks, LoginRefused(t) PROVE RefusalInv'
    <3>1. Elsewhere(t) /\ (NotifyReauth \/ SameForm)
      BY <2>12, NoLoginFollows, RaiseReports DEF LoginRefused
    <3>2. NoNewLogin /\ task[t].pc = "login" /\ task'[t].pc # "login"
      BY <2>2, <2>12, <3>1 DEF LoginRefused, Elsewhere
    <3> QED
      BY <2>12, <3>2, RefusalKeeps DEF LoginRefused
  <2>13. CASE Form
    <3>1. CASE SubmitRight \/ ReauthOk
      BY <2>3, <3>1 DEF SubmitRight, Submit, ReauthOk
    <3>2. CASE ReauthRefused
      <4>1. NoNewLogin /\ form = "login" /\ form' # "login"
        BY <3>2 DEF ReauthRefused, NoNewLogin
      <4> QED
        BY <3>2, <4>1, RefusalKeeps DEF ReauthRefused
    <3> QED
      BY <2>13, <3>1, <3>2 DEF Form
  <2>14. CASE OptionsReply
    <3>1. CASE OptionsLoginOk
      BY <2>3, <3>1 DEF OptionsLoginOk
    <3>2. CASE OptionsLoginRefused
      <4>1. NoNewLogin /\ opt.pc = "login" /\ opt'.pc # "login"
        BY <3>2 DEF OptionsLoginRefused, NoNewLogin, NoOptions
      <4> QED
        BY <3>2, <4>1, RefusalKeeps DEF OptionsLoginRefused
    <3>3. CASE OptionsSaved
      <4>1. NoNewLogin
        BY <3>3 DEF OptionsSaved, NoNewLogin, NoOptions
      <4> QED
        BY <3>3, <4>1, NoLoginKeeps DEF OptionsSaved
    <3> QED
      BY <2>14, <3>1, <3>2, <3>3 DEF OptionsReply
  <2>15. CASE HubSetupFails
    <3>1. NoNewLogin
      BY <2>15 DEF HubSetupFails, NoNewLogin
    <3> QED
      BY <2>15, <3>1, NoLoginKeeps DEF HubSetupFails
  <2>16. CASE Disturbance
    <3>1. ASSUME NEW t \in Tasks, CallFails(t) PROVE RefusalInv'
      BY <2>2, <3>1, RaiseReports, NoLoginFollows, NoLoginKeeps DEF CallFails
    <3>2. ASSUME NEW c \in Controls, AuthRotates(c) PROVE RefusalInv'
      BY <3>2, NoLoginKeeps DEF AuthRotates, NoNewLogin
    <3>3. CASE FormFails \/ EmsForgets
      <4>1. NoNewLogin
        BY <3>3 DEF FormFails, EmsForgets, NoNewLogin, NoOptions
      <4> QED
        BY <3>3, <4>1, NoLoginKeeps DEF FormFails, EmsForgets
    <3>4. CASE SubmitWrong \/ Restart
      BY <2>3, <3>4 DEF SubmitWrong, Submit, Restart
    <3>5. CASE Options
      <4>1. PICK pw \in Nat, signIn \in BOOLEAN : OptionsSubmit(pw, signIn)
        BY <3>5 DEF Options, Types, Creds, Passwords, WrongPassword
      <4>2. CASE signIn
        BY <2>3, <4>1, <4>2 DEF OptionsSubmit
      <4>3. CASE ~signIn
        <5>1. NoNewLogin
          BY <4>1, <4>3 DEF OptionsSubmit, NoNewLogin
        <5> QED
          BY <4>1, <4>3, <5>1, NoLoginKeeps DEF OptionsSubmit
      <4> QED
        BY <4>2, <4>3
    <3> QED
      BY <2>16, <3>1, <3>2, <3>3, <3>4, <3>5 DEF Disturbance
  <2>17. CASE UNCHANGED vars
    BY <2>17, NoLoginKeeps DEF vars, NoNewLogin
  <2> QED
    BY <2>4, <2>5, <2>6, <2>7, <2>8, <2>9, <2>10, <2>11, <2>12, <2>13, <2>14, <2>15,
       <2>16, <2>17 DEF Next, Reply
<1>3. TypeInv /\ RefusalInv => Types /\ RefusalsBounded
  <2> SUFFICES ASSUME TypeInv, RefusalInv PROVE Types /\ RefusalsBounded
    OBVIOUS
  <2>1. FormPending \in {0, 1} /\ OptionsPending \in {0, 1}
    BY DEF FormPending, OptionsPending
  <2>2. refused \in Nat
    BY DEF TypeInv, Types
  <2> QED
    BY <2>1, <2>2, PendingCount, FiniteTasks DEF TypeInv, RefusalInv, RefusalsBounded
<1>4. Spec => []Types
  <2>1. TypeInv => Types
    BY DEF TypeInv
  <2> QED
    BY <2>1, TypeInvariant, PTL
<1>5. Spec => []RefusalInv
  BY <1>1, <1>2, <1>4, PTL DEF Spec
<1> QED
  BY <1>3, <1>5, TypeInvariant, PTL
=============================================================================
