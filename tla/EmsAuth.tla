------------------------------ MODULE EmsAuth -------------------------------
(***************************************************************************)
(* Signing in to EMS (cloud.py, control.py, config_flow.py, cloud_sync.py).*)
(* One EMS account is used through several CloudAccount objects: one per   *)
(* device, shared by that device's polls and writes, and private ones for  *)
(* a forced GwList refresh and for the hub's sync.  They meet in module    *)
(* globals (reject latch, notify slot, re-login lock and its result), in   *)
(* the hub entry and in the reauth form.                                   *)
(*                                                                         *)
(* Steps run from one EMS reply to the next: nothing else suspends, but    *)
(* for the wait on a contended re-login lock.  Whether EMS still honours a *)
(* RefreshToken is left open at every refresh, so its value is not kept:   *)
(* a stored account always has one.                                        *)
(***************************************************************************)
EXTENDS Integers, Sequences, FiniteSets

CONSTANTS
  Users,        \* tasks using a device's DeviceControl: its poll, a write
  Syncs,        \* tasks running async_sync_cloud_to_devices
  ControlOf,    \* the device of each of Users
  Accounts,     \* identities of CloudAccount objects, more than live at once
  NoAccount,
  TokenIds,     \* identities of CPTokens, more than remembered at once
  MaxTroubles   \* bound on what goes wrong

Tasks == Users \cup Syncs
Controls == {ControlOf[t] : t \in Users}

ASSUME AuthAssumption ==
  /\ IsFiniteSet(Tasks) /\ Users \cap Syncs = {}
  /\ ControlOf \in [Users -> Controls]
  /\ IsFiniteSet(Accounts) /\ NoAccount \notin Accounts
  /\ Cardinality(Accounts) > Cardinality(Controls) + 2 * Cardinality(Tasks)
  /\ TokenIds # {} /\ TokenIds \subseteq Nat
  /\ MaxTroubles \in Nat

VARIABLES
  ems,       \* what EMS accepts: the password, the epoch of its CPTokens
  hub,       \* hub entry data: password, CPToken
  authOk,    \* is the device's stored Auth the one EMS has?
  shared,    \* _reauth_tokens: CPToken of the last locked re-login
  lockq,     \* the re-login lock: its holder, then its waiters
  latched,   \* _credentials_invalid
  notified,  \* _reauth_notified
  acc,       \* CloudAccount objects: password, cp_token
  cloud,     \* DeviceControl._cloud, an object or NoAccount
  key,       \* DeviceControl._cloud_key
  task,      \* every task's operation, see Operation
  form,      \* the hub's reauth flow: "closed", "open", "login"
  entered,   \* password of the form's login
  opt,       \* the hub's options form, see OptionsForm
  syncDue,   \* who is about to sync: "none", hub "setup", the "options" form
  refused,   \* history: password logins refused since the latch was last clear
  troubles   \* history: things that went wrong

latchVars == <<latched, notified>>
userVars == <<entered, opt, syncDue>>
vars == <<ems, hub, authOk, shared, lockq, latchVars, acc, cloud, key, task,
          form, userVars, refused, troubles>>

None == <<0, 0>>
Tokens == Nat \X Nat   \* the epoch of issue, an identity
Passwords == Nat
WrongPassword == 0
Creds == [pw : Passwords, cp : Tokens]
Blank == [pw |-> WrongPassword, cp |-> None]

Operation ==
  [pc : {"idle", "call", "refresh", "login", "lock"},
   stage : {"first", "devices", "second", "sync"},  \* which EMS operation
   obj : Accounts \cup {NoAccount},                 \* the caller's "cloud"
   tmp : Accounts \cup {NoAccount},                 \* the GwList's account
   tok : Tokens,                                    \* token sent, or "rejected"
   again : BOOLEAN]                                 \* the retry of _with_auth_retry
Idle == [pc |-> "idle", stage |-> "first", obj |-> NoAccount, tmp |-> NoAccount,
         tok |-> None, again |-> FALSE]

OptionsForm == [pc : {"idle", "login", "saving"}, signIn : BOOLEAN, data : Creds]
NoOptions == [pc |-> "idle", signIn |-> FALSE, data |-> Blank]

Types ==
  /\ ems \in [pw : Passwords, epoch : Nat \ {0}]
  /\ hub \in Creds /\ authOk \in [Controls -> BOOLEAN]
  /\ shared \in Tokens /\ lockq \in Seq(Tasks)
  /\ latched \in BOOLEAN /\ notified \in BOOLEAN
  /\ acc \in [Accounts -> Creds]
  /\ cloud \in [Controls -> Accounts \cup {NoAccount}]
  /\ key \in [Controls -> Creds]
  /\ task \in [Tasks -> Operation]
  /\ form \in {"closed", "open", "login"} /\ entered \in Passwords
  /\ opt \in OptionsForm /\ syncDue \in {"none", "setup", "options"}
  /\ refused \in Nat /\ troubles \in 0..MaxTroubles

\* The hub is never stored without a CPToken, though accounts between two tokens are saved.
TypeOK == Types /\ hub.cp # None

-----------------------------------------------------------------------------
(* Objects and tokens *)

Held == ({cloud[c] : c \in Controls} \cup {task[t].obj : t \in Tasks}
         \cup {task[t].tmp : t \in Tasks}) \ {NoAccount}

\* An object nothing refers to is gone.
Keep(new) == acc' = [a \in Accounts |-> IF a \in Held' THEN new[a] ELSE Blank]

\* An element of S not in use, if there is one.
UnusedOf(S, used) == CHOOSE x \in S : x \notin used \/ S \subseteq used

NewAccount == UnusedOf(Accounts, Held)

Mentioned == {hub.cp, shared, opt.data.cp} \cup {acc[a].cp : a \in Accounts}
             \cup {key[c].cp : c \in Controls} \cup {task[t].tok : t \in Tasks}

\* A CPToken EMS has not issued, or nobody remembers.
Fresh == <<ems.epoch, UnusedOf(TokenIds, {n \in TokenIds : <<ems.epoch, n>> \in Mentioned})>>

Live(tok) == tok[1] = ems.epoch

\* The account object of the operation in progress.
Active(t) == IF task[t].stage \in {"devices", "sync"} THEN task[t].tmp ELSE task[t].obj

HoldsLock(t) == lockq # <<>> /\ Head(lockq) = t

\* Leaving "async with", however it is left.
Unlocked(t) == IF HoldsLock(t) THEN Tail(lockq) ELSE lockq

-----------------------------------------------------------------------------
(* How an EMS operation begins and ends *)

\* Mutant: marked under a normalised name, looked up under the name as typed.
RejectedUnseen == FALSE

\* credentials_rejected
Rejected == latched

\* async_trigger_hub_reauth, take_reauth_notify_slot: a second flow is not started.
NotifyReauth ==
  /\ notified' = TRUE
  /\ form' = IF ~notified /\ form = "closed" THEN "open" ELSE form

SameForm == UNCHANGED <<notified, form>>

\* CloudCredentialsInvalid from the second call: only a cloud-mode poll reports it.
MayNotify == NotifyReauth \/ SameForm

\* Mutant: an object between two tokens empties the hub's.
PersistedAlways(h, cp) == [h EXCEPT !.cp = cp]

\* _persist_hub_tokens, into hub data h
Persisted(h, cp) == IF cp = None THEN h ELSE [h EXCEPT !.cp = cp]

\* _save_cloud_tokens in the finally clause of _cloud_write and _cloud_status.
SaveAndEnd(t, a, new, h) ==
  LET c == ControlOf[t] IN
  /\ hub' = Persisted(h, new[a].cp)
  /\ cloud' = [cloud EXCEPT ![c] = a] /\ key' = [key EXCEPT ![c] = hub']
  /\ task' = [task EXCEPT ![t] = Idle]
  /\ Keep(new)

\* ensure_login past its latch check, at the start of _with_auth_retry.
StartCall(t, stage, obj, tmp, new) ==
  LET cp == new[IF stage \in {"devices", "sync"} THEN tmp ELSE obj].cp IN
  /\ task' = [task EXCEPT ![t] =
       [pc |-> IF cp = None THEN "refresh" ELSE "call", stage |-> stage,
        obj |-> obj, tmp |-> tmp, tok |-> cp, again |-> FALSE]]
  /\ Keep(new)

\* DeviceControl._cloud_account, with hub data h: the object kept while the
\* hub's credentials are those of its key, else a new one made from them.
Reusable(c, h) == cloud[c] # NoAccount /\ key[c] = h
ObjectFor(c, h) == IF Reusable(c, h) THEN cloud[c] ELSE NewAccount
HeapFor(c, h) == IF Reusable(c, h) THEN acc ELSE [acc EXCEPT ![NewAccount] = h]
UseObject(c, h) ==
  /\ cloud' = [cloud EXCEPT ![c] = ObjectFor(c, h)]
  /\ key' = [key EXCEPT ![c] = h]

\* except CloudAuthError: save, forget the object, async_refresh_cloud_auth(force).
ForceRefresh(t) ==
  LET c == ControlOf[t]
      h == Persisted(hub, acc[task[t].obj].cp) IN
  /\ hub' = h
  /\ cloud' = [cloud EXCEPT ![c] = NoAccount] /\ key' = [key EXCEPT ![c] = h]
  /\ StartCall(t, "devices", task[t].obj, NewAccount, [acc EXCEPT ![NewAccount] = h])

\* An exception leaves the EMS operation: "credentials" is CloudCredentialsInvalid,
\* "auth" any other CloudAuthError, "api" the rest.  GwList failures other than
\* credentials become "no creds": the caller gives up.
Raise(t, kind) ==
  LET stage == task[t].stage
      retry == stage = "first" /\ kind = "auth" IN
  /\ lockq' = Unlocked(t)
  /\ IF retry /\ ~Rejected
     THEN ForceRefresh(t) /\ SameForm
     ELSE /\ IF stage = "sync"
             THEN /\ UNCHANGED <<hub, cloud, key>>
                  /\ task' = [task EXCEPT ![t] = Idle] /\ Keep(acc)
             ELSE SaveAndEnd(t, task[t].obj, acc, hub)
          /\ CASE kind = "credentials" /\ stage = "second" -> MayNotify
               [] retry \/ (kind = "credentials" /\ stage # "second") -> NotifyReauth
               [] OTHER -> SameForm

-----------------------------------------------------------------------------
(* A device's poll or write: _cloud_status, _cloud_write; a sync *)

Begin(t) ==
  LET c == ControlOf[t] IN
  /\ task[t].pc = "idle" /\ t \in Users
  /\ IF Rejected
     THEN SaveAndEnd(t, ObjectFor(c, hub), HeapFor(c, hub), hub) /\ NotifyReauth
     ELSE /\ UseObject(c, hub)
          /\ StartCall(t, "first", ObjectFor(c, hub), NoAccount, HeapFor(c, hub))
          /\ UNCHANGED hub /\ SameForm
  /\ UNCHANGED <<ems, authOk, shared, lockq, latched, userVars, refused, troubles>>

\* async_sync_cloud_to_devices: an account of its own.
BeginSync(t) ==
  /\ task[t].pc = "idle" /\ t \in Syncs
  /\ syncDue = "options" \/ (syncDue = "setup" /\ ~Rejected)
  /\ syncDue' = "none"
  /\ UNCHANGED <<ems, hub, authOk, shared, lockq, latched, cloud, key, entered, opt, refused, troubles>>
  /\ IF Rejected
     THEN NotifyReauth /\ UNCHANGED <<task, acc>>
     ELSE StartCall(t, "sync", NoAccount, NewAccount, [acc EXCEPT ![NewAccount] = hub]) /\ SameForm

\* EMS accepts a call when the token lives and, for a device call, its Auth is right.
Accepted(t) ==
  Live(task[t].tok) /\ (task[t].stage \in {"first", "second"} => authOk[ControlOf[t]])

\* The device call succeeds.
CallDone(t) ==
  /\ task[t].pc = "call" /\ task[t].stage \in {"first", "second"} /\ Accepted(t)
  /\ SaveAndEnd(t, task[t].obj, acc, hub)
  /\ SameForm
  /\ UNCHANGED <<ems, authOk, shared, lockq, latched, userVars, refused, troubles>>

\* The forced GwList arrives: tokens and Auth are stored, the call is made again.
GotDevices(t) ==
  LET c == ControlOf[t]
      h == Persisted(hub, acc[task[t].tmp].cp)
      a == ObjectFor(c, h) IN
  /\ task[t].pc = "call" /\ task[t].stage = "devices" /\ Accepted(t)
  /\ authOk' = [authOk EXCEPT ![c] = TRUE]
  /\ IF Rejected
     THEN SaveAndEnd(t, a, HeapFor(c, h), h) /\ MayNotify
     ELSE /\ hub' = h /\ SameForm /\ UseObject(c, h)
          /\ StartCall(t, "second", a, NoAccount, HeapFor(c, h))
  /\ UNCHANGED <<ems, shared, lockq, latched, userVars, refused, troubles>>

SyncDone(t) ==
  /\ task[t].pc = "call" /\ task[t].stage = "sync" /\ Accepted(t)
  /\ UNCHANGED <<ems, authOk, shared, lockq, latched, cloud, key, userVars, refused, troubles>>
  /\ hub' = [hub EXCEPT !.cp = acc[task[t].tmp].cp]
  /\ task' = [task EXCEPT ![t] = Idle] /\ Keep(acc)
  /\ SameForm

-----------------------------------------------------------------------------
(* Signing in again: _with_auth_retry, _reauthenticate, ensure_login, login *)

\* Mutant: an empty slot is a token unlike the rejected one.
AdoptOther(rejected) == shared # rejected

\* _reauthenticate: somebody has signed in since "rejected" was issued.
Adoptable(rejected) == shared # None /\ shared # rejected

\* _reauthenticate, once the lock is held.
InLock(t, rejected) ==
  LET a == Active(t) IN
  \/ /\ Rejected /\ Raise(t, "credentials") /\ UNCHANGED shared
  \/ /\ ~Rejected /\ Adoptable(rejected)
     /\ SameForm /\ UNCHANGED <<hub, shared, cloud, key>>
     /\ task' = [task EXCEPT ![t].pc = "call", ![t].tok = shared, ![t].again = TRUE]
     /\ Keep([acc EXCEPT ![a].cp = shared])
     /\ lockq' = Unlocked(t)
  \/ /\ ~Rejected /\ ~Adoptable(rejected)
     /\ SameForm /\ UNCHANGED <<hub, shared, cloud, key>>
     /\ task' = [task EXCEPT ![t].pc = "refresh", ![t].tok = None, ![t].again = TRUE]
     /\ Keep([acc EXCEPT ![a].cp = None])
     /\ lockq' = IF lockq = <<>> THEN <<t>> ELSE lockq

\* CloudAuthError.  "rejected" is the object's token now, not the one sent.
CallRejected(t) ==
  LET rejected == acc[Active(t)].cp IN
  /\ task[t].pc = "call" /\ ~Accepted(t)
  /\ IF task[t].again
     THEN Raise(t, "auth") /\ UNCHANGED shared
     ELSE IF Rejected \/ lockq = <<>>
     THEN InLock(t, rejected)
     ELSE /\ task' = [task EXCEPT ![t].pc = "lock", ![t].tok = rejected]
          /\ lockq' = Append(lockq, t)
          /\ SameForm /\ UNCHANGED <<hub, shared, acc, cloud, key>>
  /\ UNCHANGED <<ems, authOk, latched, userVars, refused, troubles>>

\* A waiter is woken in its turn.
GetsLock(t) ==
  /\ task[t].pc = "lock" /\ HoldsLock(t)
  /\ InLock(t, task[t].tok)
  /\ UNCHANGED <<ems, authOk, latched, userVars, refused, troubles>>

\* ensure_login returns with a new token; the holder of the lock shares it.
SignedIn(t) ==
  /\ UNCHANGED <<ems, hub, authOk, cloud, key, userVars, troubles>>
  /\ task' = [task EXCEPT ![t].pc = "call", ![t].tok = Fresh]
  /\ Keep([acc EXCEPT ![Active(t)].cp = Fresh])
  /\ shared' = IF HoldsLock(t) THEN Fresh ELSE shared
  /\ lockq' = Unlocked(t)

RefreshOk(t) ==
  /\ task[t].pc = "refresh"
  /\ SignedIn(t)
  /\ UNCHANGED <<latchVars, form, refused>>

\* The refresh fails with anything but a rate limit: fall back to the password.
RefreshFails(t) ==
  /\ task[t].pc = "refresh"
  /\ IF ~Rejected
     THEN /\ task' = [task EXCEPT ![t].pc = "login"]
          /\ SameForm /\ UNCHANGED <<hub, lockq, acc, cloud, key>>
     ELSE Raise(t, "credentials")
  /\ UNCHANGED <<ems, authOk, shared, latched, userVars, refused, troubles>>

\* Mutant: the notify slot stays taken.
ClearLatchOnly == latched' = FALSE /\ UNCHANGED notified /\ refused' = 0

\* clear_credentials_rejected
ClearLatch == latched' = FALSE /\ notified' = FALSE /\ refused' = 0

LoginOk(t) ==
  /\ task[t].pc = "login" /\ acc[Active(t)].pw = ems.pw
  /\ SignedIn(t) /\ ClearLatch
  /\ UNCHANGED form

\* mark_credentials_rejected
LoginRefused(t) ==
  /\ task[t].pc = "login" /\ acc[Active(t)].pw # ems.pw
  /\ latched' = TRUE /\ refused' = refused + 1
  /\ Raise(t, "credentials")
  /\ UNCHANGED <<ems, authOk, shared, userVars, troubles>>

-----------------------------------------------------------------------------
(* The reauth form, hub setup and the hub's options form:                  *)
(* async_step_reauth_confirm, _async_setup_hub, HubOptionsFlowHandler      *)

emsVars == <<ems, authOk, shared, lockq, acc, cloud, key, task>>

\* The latch is cleared before the login, for the form's attempt and for everyone.
Submit(p) ==
  /\ form = "open"
  /\ form' = "login" /\ entered' = p
  /\ ClearLatch
  /\ UNCHANGED <<emsVars, hub, opt, syncDue>>

SubmitRight == Submit(ems.pw) /\ UNCHANGED troubles

\* The hub is stored anew and reloaded.
ReauthOk ==
  /\ form = "login" /\ entered = ems.pw
  /\ ClearLatch
  /\ hub' = [pw |-> entered, cp |-> Fresh] /\ syncDue' = "setup"
  /\ form' = "closed" /\ entered' = WrongPassword
  /\ UNCHANGED <<emsVars, opt, troubles>>

ReauthRefused ==
  /\ form = "login" /\ entered # ems.pw
  /\ latched' = TRUE /\ refused' = refused + 1
  /\ form' = "open" /\ entered' = WrongPassword
  /\ UNCHANGED <<emsVars, hub, notified, opt, syncDue, troubles>>

\* Hub setup with the latch set: ConfigEntryAuthFailed starts the flow.
HubSetupFails ==
  /\ syncDue = "setup" /\ Rejected
  /\ syncDue' = "none"
  /\ form' = IF form = "closed" THEN "open" ELSE form
  /\ UNCHANGED <<emsVars, hub, latchVars, entered, opt, refused, troubles>>

\* async_step_init: the hub's data as it was before the login and the saves.
OptionsSubmit(pw, signIn) ==
  /\ opt.pc = "idle"
  /\ opt' = [pc |-> IF signIn THEN "login" ELSE "saving", signIn |-> signIn,
             data |-> [hub EXCEPT !.pw = pw]]
  /\ IF signIn THEN ClearLatch ELSE UNCHANGED <<latchVars, refused>>
  /\ UNCHANGED <<emsVars, hub, form, entered, syncDue>>

OptionsLoginOk ==
  /\ opt.pc = "login" /\ opt.data.pw = ems.pw
  /\ ClearLatch
  /\ opt' = [opt EXCEPT !.pc = "saving", !.data.cp = Fresh]
  /\ UNCHANGED <<emsVars, hub, form, entered, syncDue, troubles>>

OptionsLoginRefused ==
  /\ opt.pc = "login" /\ opt.data.pw # ems.pw
  /\ latched' = TRUE /\ refused' = refused + 1
  /\ opt' = NoOptions
  /\ UNCHANGED <<emsVars, hub, notified, form, entered, syncDue, troubles>>

\* After the energy and LAN settings are on disk.
OptionsSaved ==
  /\ opt.pc = "saving"
  /\ hub' = opt.data /\ opt' = NoOptions
  /\ syncDue' = IF opt.signIn THEN "options" ELSE syncDue
  /\ UNCHANGED <<emsVars, latchVars, form, entered, refused, troubles>>

-----------------------------------------------------------------------------
(* What goes wrong *)

Trouble == troubles < MaxTroubles /\ troubles' = troubles + 1

\* A rate limit, a timeout, an HTTP error.  A failed refresh is one only if rate limited.
CallFails(t) ==
  /\ Trouble
  /\ task[t].pc \in {"call", "refresh", "login"}
  /\ Raise(t, "api")
  /\ UNCHANGED <<ems, authOk, shared, latched, userVars, refused>>

\* A form's login fails for another reason than the password.
FormFails ==
  /\ \/ /\ form = "login" /\ form' = "open" /\ entered' = WrongPassword
        /\ UNCHANGED opt
     \/ /\ opt.pc = "login" /\ opt' = NoOptions
        /\ UNCHANGED <<form, entered>>
  /\ UNCHANGED <<emsVars, hub, latchVars, syncDue, refused, troubles>>

\* Any number of times.
SubmitWrong == Submit(WrongPassword) /\ UNCHANGED troubles

\* A password typed, right or wrong, a new sign-in, or neither.
Options ==
  /\ Trouble
  /\ \/ \E pw \in {ems.pw, hub.pw, WrongPassword} : OptionsSubmit(pw, TRUE)
     \/ OptionsSubmit(hub.pw, FALSE)

\* EMS drops every CPToken; the owner may have changed the password as well.
EmsForgets ==
  /\ Trouble
  /\ \E change \in {0, 1} : ems' = [pw |-> ems.pw + change, epoch |-> ems.epoch + 1]
  /\ UNCHANGED <<hub, authOk, shared, lockq, latchVars, acc, cloud, key, task,
                 form, userVars, refused>>

\* EMS gives the device a new Auth.
AuthRotates(c) ==
  /\ Trouble
  /\ authOk[c] /\ authOk' = [authOk EXCEPT ![c] = FALSE]
  /\ UNCHANGED <<ems, hub, shared, lockq, latchVars, acc, cloud, key, task,
                 form, userVars, refused>>

\* Home Assistant restarts: globals, objects and flows are gone, entries stay.
Restart ==
  /\ Trouble
  /\ shared' = None /\ lockq' = <<>> /\ ClearLatch
  /\ acc' = [a \in Accounts |-> Blank]
  /\ cloud' = [c \in Controls |-> NoAccount] /\ key' = [c \in Controls |-> Blank]
  /\ task' = [t \in Tasks |-> Idle]
  /\ form' = "closed" /\ entered' = WrongPassword
  /\ opt' = NoOptions /\ syncDue' = "setup"
  /\ UNCHANGED <<ems, hub, authOk>>

-----------------------------------------------------------------------------
Init ==
  /\ ems = [pw |-> 1, epoch |-> 1]
  /\ hub = [pw |-> 1, cp |-> <<1, 1>>]
  /\ authOk = [c \in Controls |-> TRUE]
  /\ shared = None /\ lockq = <<>>
  /\ latched = FALSE /\ notified = FALSE
  /\ acc = [a \in Accounts |-> Blank]
  /\ cloud = [c \in Controls |-> NoAccount] /\ key = [c \in Controls |-> Blank]
  /\ task = [t \in Tasks |-> Idle]
  /\ form = "closed" /\ entered = WrongPassword
  /\ opt = NoOptions /\ syncDue = "setup"
  /\ refused = 0 /\ troubles = 0

Reply(t) ==
  \/ CallDone(t) \/ GotDevices(t) \/ SyncDone(t) \/ CallRejected(t)
  \/ GetsLock(t) \/ RefreshOk(t) \/ RefreshFails(t) \/ LoginOk(t) \/ LoginRefused(t)

Form == SubmitRight \/ ReauthOk \/ ReauthRefused
OptionsReply == OptionsLoginOk \/ OptionsLoginRefused \/ OptionsSaved

Disturbance ==
  \/ \E t \in Tasks : CallFails(t)
  \/ \E c \in Controls : AuthRotates(c)
  \/ FormFails \/ SubmitWrong \/ Options \/ EmsForgets \/ Restart

Next ==
  \/ \E t \in Tasks : Begin(t) \/ BeginSync(t) \/ Reply(t)
  \/ Form \/ OptionsReply \/ HubSetupFails \/ Disturbance

Spec == Init /\ [][Next]_vars

\* EMS answers or the transport gives up, polls recur, the user answers the form, in
\* the end with the right password, and a login with it gets through in the end.
FairSpec ==
  /\ Spec
  /\ \A t \in Tasks : WF_vars(Reply(t))
  /\ \A t \in Users : WF_vars(Begin(t))
  /\ WF_vars(Form) /\ SF_vars(SubmitRight) /\ SF_vars(ReauthOk) /\ WF_vars(OptionsReply)

-----------------------------------------------------------------------------
(* Properties *)

\* A refused password is not hammered (README.md:36): between two events that
\* clear the latch EMS refuses at most one login of each task and of each form.
RefusalsBounded == refused <= Cardinality(Tasks) + 2

\* Once the notify slot is taken there is a form the user can answer: the slot
\* and the flow are opened, freed and lost together.
NotifiedHasForm == notified => form # "closed"

\* A call goes out with a token (the asserts of cloud.py:370 and 401, 489) though
\* other tasks drop and replace the token of the object it uses.
CallsCarryToken == \A t \in Tasks : task[t].pc = "call" => task[t].tok # None

\* Whatever went wrong, every device's calls get through again and again, unless
\* every sign-in of the user overlaps a device's call: that call's end puts the
\* old password's object back, under the key of the new hub data (control.py:263-267).
SignInOverlaps == ReauthOk /\ \E t \in Tasks : task[t].pc # "idle"
AccessRecovers ==
  \/ \A t \in Users : []<><<CallDone(t)>>_vars
  \/ []<><<SignInOverlaps>>_vars

\* The latch means that the stored password was refused
\* (ems_transport.py:53-58), so that asking the user for a new one can help.
LatchMeansRefused == latched => hub.pw # ems.pw
=============================================================================
