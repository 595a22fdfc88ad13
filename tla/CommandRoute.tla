---------------------------- MODULE CommandRoute ----------------------------
(***************************************************************************)
(* DeviceControl of one appliance (control.py): a write goes over EMS, the *)
(* LAN or, in hybrid mode, the LAN when EMS fails; polls read the LAN at   *)
(* the same time.  It delivers commands as CommandDelivery says.           *)
(***************************************************************************)
EXTENDS LanClient, EmsTransport

CONSTANTS
  Callers,      \* tasks that write
  Pollers,      \* tasks that read the status, of one client each
  Keys, Values, Commands, NoCommand,
  Services,     \* how many services the walk reads one by one
  MaxCopies     \* bound on given-up copies of a command on their way

ASSUME RouteAssumption ==
  /\ Tasks = Callers \cup Pollers /\ Callers \cap Pollers = {}
  /\ Commands \subseteq [key : Keys, value : Values] /\ NoCommand \notin Commands
  /\ Services \in Nat /\ MaxCopies \in Nat

VARIABLES
  dev,     \* the appliance's registers
  late,    \* given-up copies of commands whose call has ended
  write,   \* what each caller's call does
  fetch    \* what each poller's async_fetch_status does

routeVars == <<dev, late, write, fetch>>
vars == <<lanVars, routeVars>>

Modes == {"local", "cloud", "hybrid"}
MaxSends == 4   \* two by CloudAccount._with_auth_retry, twice by _cloud_write
NoCall == [at |-> "idle", command |-> NoCommand, assist |-> FALSE, sends |-> 0,
           done |-> FALSE, taken |-> FALSE, lost |-> 0, refused |-> FALSE]
NoFetch == [at |-> "idle", todo |-> 0, missing |-> 0, dead |-> FALSE, posts |-> 0]

Call == [at : {"cloud", "sent", "lan"}, command : Commands, assist : BOOLEAN,
         sends : 0..MaxSends, done : BOOLEAN, taken : BOOLEAN, lost : 0..MaxCopies,
         refused : BOOLEAN]
Fetch == [at : {"idle", "states", "port", "walk", "fill"}, todo : 0..Services,
          missing : 0..Services, dead : BOOLEAN, posts : 0..Retries + 1]

TypeOK ==
  /\ LanTypeOK
  /\ dev \in [Keys -> Values] /\ late \in [Commands -> 0..MaxCopies]
  /\ write \in [Callers -> Call \cup {NoCall}]
  /\ fetch \in [Pollers -> Fetch]

Init ==
  /\ LanInit
  /\ dev \in [Keys -> Values] /\ late = [c \in Commands |-> 0]
  /\ write = [t \in Callers |-> NoCall] /\ fetch = [t \in Pollers |-> NoFetch]

-----------------------------------------------------------------------------
(* A write: async_write *)

Obeyed(command) == [dev EXCEPT ![command.key] = command.value]
Goes(t, at) == write' = [write EXCEPT ![t].at = at]

\* The call returns or raises; copies it gave up may arrive later, up to the bound.
Ends(t, lost) ==
  LET n == late[write[t].command] + lost
  IN  /\ late' = [late EXCEPT ![write[t].command] = IF n <= MaxCopies THEN n ELSE MaxCopies]
      /\ write' = [write EXCEPT ![t] = NoCall]

\* can_use_cloud decides where a hybrid write begins; without a LAN a local one
\* fails at once.
StartWrite(t) ==
  /\ write[t].at = "idle"
  /\ \E command \in Commands, mode \in Modes, at \in {"cloud", "lan"} :
       /\ (mode = "local" => at = "lan") /\ (mode = "cloud" => at = "cloud")
       /\ write' = [write EXCEPT ![t] = [NoCall EXCEPT !.at = at, !.command = command,
                                          !.assist = (mode = "hybrid" /\ at = "cloud")]]
  /\ UNCHANGED <<lanVars, dev, late, fetch>>

\* async_refresh_cloud_auth, _cloud_account, ensure_login or _reauthenticate
\* leave a token to send with; a request that is given up may still arrive.
Send(t) ==
  /\ write[t].at = "cloud"
  /\ write' = [write EXCEPT ![t].at = "sent", ![t].sends = @ + 1, ![t].done = FALSE]
  /\ UNCHANGED <<lanVars, dev, late, fetch>>

\* The request that is under way takes effect.
Obey(t) ==
  /\ write[t].at = "sent" \/ (host = "up" /\ t \in Posted)
  /\ ~write[t].done
  /\ dev' = Obeyed(write[t].command)
  /\ write' = [write EXCEPT ![t].done = TRUE, ![t].taken = TRUE]
  /\ UNCHANGED <<lanVars, late, fetch>>

\* A copy that was given up arrives after all, or is lost.
ObeyLost(t) ==
  /\ write[t].lost > 0
  /\ \/ dev' = Obeyed(write[t].command) /\ write' = [write EXCEPT ![t].lost = @ - 1, ![t].taken = TRUE]
     \/ dev' = dev /\ write' = [write EXCEPT ![t].lost = @ - 1]
  /\ UNCHANGED <<lanVars, late, fetch>>

ObeyLate(command) ==
  /\ late[command] > 0
  /\ late' = [late EXCEPT ![command] = @ - 1]
  /\ dev' \in {dev, Obeyed(command)}
  /\ UNCHANGED <<lanVars, write, fetch>>

\* A copy that is given up before it took effect may be on its way.
MayArrive(t) ==
  IF write[t].done \/ write[t].lost = MaxCopies THEN {write[t].lost}
                                                ELSE {write[t].lost, write[t].lost + 1}

\* What EMS says of a command: that it is done only if it is, that the token
\* has expired only if it is not.
Honest(done, reply) ==
  IF reply \in NoReplies THEN TRUE
  ELSE IF reply.body = "token" THEN ~done
  ELSE reply.status = 200 /\ reply.body \notin {"text", "denied"} => done

\* What the call may have heard when its outcome is this one.
Heard ==
  [done \in BOOLEAN |-> [outcome \in Outcomes |->
     {[answered |-> reply \in Replies, token |-> reply.body = "token"] :
        reply \in {reply \in Replies \cup NoReplies :
                     /\ Honest(done, reply)
                     /\ \E cooling \in BOOLEAN : Outcome(reply, cooling) = outcome}}]]

\* EMS has done it: the call succeeds.
CloudOk(t) ==
  /\ write[t].at = "sent" /\ Heard[write[t].done]["ok"] # {}
  /\ Ends(t, write[t].lost)
  /\ UNCHANGED <<lanVars, dev, fetch>>

\* The token has expired: sign in again and repeat.
CloudAuth(t) ==
  /\ write[t].at = "sent" /\ write[t].sends < MaxSends
  /\ \E heard \in Heard[write[t].done]["auth"] :
       write' = [write EXCEPT ![t].at = "cloud", ![t].refused = ~heard.token]
  /\ UNCHANGED <<lanVars, dev, late, fetch>>

\* Hybrid goes on over the LAN, if can_use_lan then says so.
CloudRaises(t, lost) ==
  /\ \/ /\ write[t].assist
        /\ write' = [write EXCEPT ![t] = [NoCall EXCEPT !.at = "lan", !.command = write[t].command,
                                          !.taken = write[t].taken, !.lost = lost]]
        /\ UNCHANGED late
     \/ Ends(t, lost)
  /\ UNCHANGED <<lanVars, dev, fetch>>

\* The cloud has failed.
Failures(t) ==
  Outcomes \ IF write[t].sends = MaxSends THEN {"ok"} ELSE {"ok", "auth"}
CloudFails(t) ==
  /\ write[t].at = "sent"
  /\ \E heard \in UNION {Heard[write[t].done][outcome] : outcome \in Failures(t)} :
       \E lost \in IF heard.answered THEN {write[t].lost} ELSE MayArrive(t) : CloudRaises(t, lost)

\* There is no token to be had, or no Auth, or no account.
SignInFails(t) ==
  write[t].at = "cloud" /\ CloudRaises(t, write[t].lost)

WriteLan(t) ==
  /\ write[t].at = "lan" /\ LanStart(t)
  /\ write' = [write EXCEPT ![t].done = FALSE]
  /\ UNCHANGED <<dev, late, fetch>>

\* Mutant: a rejected command is sent again.
RejectedAgain(t) ==
  /\ write[t].at = "lan"
  /\ \E result \in LanResults \ {"ok"} :
       /\ LanEnds(t, result)
       /\ IF result = "rejected"
          THEN write' = [write EXCEPT ![t].refused = TRUE] /\ UNCHANGED late
          ELSE Ends(t, write[t].lost)
  /\ UNCHANGED <<dev, fetch>>

\* The module repeats the command's value, ...
LanOk(t) ==
  /\ write[t].at = "lan" /\ write[t].done /\ LanEnds(t, "ok") /\ Ends(t, write[t].lost)
  /\ UNCHANGED <<dev, fetch>>

\* refuses it, answers with something else, or not at all.
LanFails(t) ==
  /\ write[t].at = "lan"
  /\ \E result \in LanResults \ {"ok"} :
       /\ LanEnds(t, result)
       /\ \E lost \in IF result = "transport" THEN MayArrive(t) ELSE {write[t].lost} : Ends(t, lost)
  /\ UNCHANGED <<dev, fetch>>

GiveUp(t) ==
  /\ write[t].at = "lan" /\ LanBackoff(t)
  /\ \E lost \in MayArrive(t) : write' = [write EXCEPT ![t].lost = lost]
  /\ UNCHANGED <<dev, late, fetch>>

Repeat(t) ==
  /\ write[t].at = "lan" /\ LanRetry(t)
  /\ write' = [write EXCEPT ![t].done = FALSE]
  /\ UNCHANGED <<dev, late, fetch>>

WriteStep(t) ==
  \/ Send(t) \/ CloudOk(t) \/ CloudAuth(t) \/ CloudFails(t) \/ SignInFails(t)
  \/ WriteLan(t) \/ LanOk(t) \/ LanFails(t) \/ GiveUp(t) \/ Repeat(t)
  \/ (Post(t) /\ UNCHANGED routeVars)

-----------------------------------------------------------------------------
(* A read over the LAN: TaiSeiaClient.async_fetch_status *)

Reads(t) == fetch[t].at \in {"states", "walk", "fill"}
UnchangedByFetch == UNCHANGED <<dev, late, write>>

StartFetch(t) ==
  /\ fetch[t].at = "idle"
  /\ fetch' = [fetch EXCEPT ![t] = [NoFetch EXCEPT !.at = "states", !.dead = host = "off"]]
  /\ UNCHANGED lanVars /\ UnchangedByFetch

Ask(t) ==
  /\ fetch[t].at = "states" \/ (fetch[t].at \in {"walk", "fill"} /\ fetch[t].todo > 0)
  /\ LanStart(t)
  /\ UNCHANGED fetch /\ UnchangedByFetch

PostRead(t) ==
  /\ Post(t)
  /\ fetch' = [fetch EXCEPT ![t].posts = IF @ <= Retries THEN @ + 1 ELSE @]
  /\ UnchangedByFetch

RepeatRead(t) ==
  /\ LanBackoff(t) \/ LanRetry(t)
  /\ UNCHANGED fetch /\ UnchangedByFetch

\* ALL_STATES is read: only entity services it lacks are read one by one.
StatesOk(t) ==
  /\ fetch[t].at = "states" /\ LanEnds(t, "ok")
  /\ \E n \in 0..Services : fetch' = [fetch EXCEPT ![t].at = "fill", ![t].todo = n]
  /\ UnchangedByFetch

Walk(t) == fetch' = [fetch EXCEPT ![t].at = "walk", ![t].todo = Services]

\* Mutant: every failure starts the walk.
WalkAnyway(t) ==
  /\ fetch[t].at = "states"
  /\ \E result \in LanResults \ {"ok"} : LanEnds(t, result)
  /\ Walk(t)
  /\ UnchangedByFetch

\* ALL_STATES is refused: walk; no answer: look at the port; nonsense: raise.
StatesFail(t) ==
  /\ fetch[t].at = "states"
  /\ \/ LanEnds(t, "rejected") /\ Walk(t)
     \/ LanEnds(t, "transport") /\ fetch' = [fetch EXCEPT ![t].at = "port"]
     \/ LanEnds(t, "other") /\ fetch' = [fetch EXCEPT ![t] = NoFetch]
  /\ UnchangedByFetch

\* _tcp_open
CheckPort(t) ==
  /\ fetch[t].at = "port"
  /\ IF host = "off" THEN fetch' = [fetch EXCEPT ![t] = NoFetch] ELSE Walk(t)
  /\ UNCHANGED lanVars /\ UnchangedByFetch

\* One service is read or not; what the walk misses is read once more.
ReadOne(t) ==
  /\ fetch[t].at \in {"walk", "fill"}
  /\ \E result \in LanResults :
       /\ LanEnds(t, result)
       /\ fetch' = [fetch EXCEPT ![t].todo = @ - 1,
                                 ![t].missing = IF result = "ok" \/ fetch[t].at = "fill" THEN @ ELSE @ + 1]
  /\ UnchangedByFetch

NextPass(t) ==
  /\ fetch[t].todo = 0 /\ lan[t].at = "none"
  /\ \/ /\ fetch[t].at = "walk"
        /\ fetch' = [fetch EXCEPT ![t].at = "fill", ![t].todo = fetch[t].missing, ![t].missing = 0]
     \/ fetch[t].at = "fill" /\ fetch' = [fetch EXCEPT ![t] = NoFetch]
  /\ UNCHANGED lanVars /\ UnchangedByFetch

FetchStep(t) ==
  \/ Ask(t) \/ PostRead(t) \/ RepeatRead(t) \/ StatesOk(t) \/ StatesFail(t)
  \/ CheckPort(t) \/ ReadOne(t) \/ NextPass(t)

-----------------------------------------------------------------------------

\* Clients are set up, the settings are saved, the module is switched off.
Settle == \E n \in Settings : Configure(n) /\ UNCHANGED routeVars
Surroundings ==
  /\ HostChanges
  /\ fetch' = [t \in Pollers |-> [fetch[t] EXCEPT !.dead = @ /\ host' = "off"]]
  /\ UNCHANGED <<dev, late, write>>

Next ==
  \/ \E t \in Callers : StartWrite(t) \/ WriteStep(t) \/ Obey(t) \/ ObeyLost(t)
  \/ \E t \in Pollers : StartFetch(t) \/ FetchStep(t)
  \/ \E command \in Commands : ObeyLate(command)
  \/ Settle \/ Surroundings

Spec == Init /\ [][Next]_vars

\* EMS and the module answer or the request times out; the event loop runs
\* every task that can go on.
Fairness ==
  /\ \A t \in Callers : WF_vars(WriteStep(t))
  /\ \A t \in Pollers : WF_vars(FetchStep(t))

FairSpec == Spec /\ Fairness

-----------------------------------------------------------------------------
(* Properties *)

\* A module that is off for the whole of a fetch gets the attempts of one
\* request and no walk (taiseia.py 467-475).
DeadHostBounded == \A t \in Pollers : fetch[t].dead => fetch[t].posts <= Retries

\* However often clients are set up, no more requests run at once than the
\* limits chosen while any of them was under way (taiseia.py 37-48, 315-322).
ThunderBounded == Cardinality({t \in Tasks : lan[t].at = "posted"}) <= allowance

\* A write is not sent again by a route that has answered it, unless the answer
\* was that the token has expired (cloud.py 382-398, control.py 378-392,
\* taiseia.py 334-344).
NotAskedAgain ==
  [][\A t \in Callers :
       Send(t) \/ ((t \in Posted)' /\ t \notin Posted) => ~write[t].refused]_vars

Delivery ==
  INSTANCE CommandDelivery WITH
    Copies <- 0..MaxCopies,
    out <- [t \in Callers |-> write[t].command],
    taken <- {t \in Callers : write[t].taken}

\* However it is routed, repeated and given up, a write is delivered as
\* CommandDelivery says, and one that returns a path has been obeyed.
Delivered ==
  /\ Delivery!DeliveryInit
  /\ [][/\ Delivery!DeliveryNext \/ UNCHANGED Delivery!deliveryVars
        /\ \A t \in Callers : CloudOk(t) \/ LanOk(t) => Delivery!Succeed(t, NoCommand)]_vars

\* Every write and every fetch comes to an end.
EveryCallReturns ==
  /\ \A t \in Callers : write[t].at # "idle" ~> write[t].at = "idle"
  /\ \A t \in Pollers : fetch[t].at # "idle" ~> fetch[t].at = "idle"
=============================================================================
