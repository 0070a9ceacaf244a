---------------------------- MODULE ClientProofs ----------------------------
(***************************************************************************)
(* Theorems about Client: what the command-line client says to its users   *)
(* and how often their commands take effect, for any number of users and   *)
(* commands, whatever the network drops, delays or reports too late.       *)
(***************************************************************************)
EXTENDS Client, EscrowProofs

CallsTyped == calls \in [Users -> Seq(Call)]

\* Success is reported of landed transactions only.
OkLanded ==
    \A u \in Users : \A n \in DOMAIN calls[u] :
        calls[u][n].told = "ok" => calls[u][n].net = "landed"

\* What a landed command of user u has done for good, whatever the inputs.
Ended == escrow # None /\ escrow.status # "Active"
Done(u, cmd) ==
    /\ cmd = "init" => config # None /\ config.admin = u
    /\ cmd \in {"cancel", "expire"} => Ended
LandedDone ==
    \A u \in Users : \A n \in DOMAIN calls[u] :
        calls[u][n].net = "landed" => Done(u, calls[u][n].cmd)

\* With closed inputs the status a landed command left never changes again.
Stands(cmd) ==
    /\ cmd = "cancel" => escrow # None /\ escrow.status = "Cancelled"
    /\ cmd = "expire" => escrow # None /\ escrow.status = "Expired"
LandedStands ==
    \A u \in Users : \A n \in DOMAIN calls[u] :
        calls[u][n].net = "landed" => Stands(calls[u][n].cmd)

-----------------------------------------------------------------------------
(* The escrow under its clients *)

(***************************************************************************)
(* Recording how a call fares changes that call only.                      *)
(***************************************************************************)
LEMMA SetFacts ==
    ASSUME CallsTyped, NEW u \in Users, NEW n \in DOMAIN calls[u], NEW call \in Call,
           Set(u, n, call)
    PROVE  /\ CallsTyped'
           /\ \A v \in Users :
                 /\ DOMAIN calls'[v] = DOMAIN calls[v]
                 /\ \A k \in DOMAIN calls[v] :
                       calls'[v][k] = IF v = u /\ k = n THEN call ELSE calls[v][k]
<1>1. calls' = [calls EXCEPT ![u] = [calls[u] EXCEPT ![n] = call]]
    BY DEF Set
<1>2. calls[u] \in Seq(Call)
    BY DEF CallsTyped
<1>3. [calls[u] EXCEPT ![n] = call] \in Seq(Call)
    BY <1>2
<1>4. CallsTyped'
    BY <1>1, <1>3 DEF CallsTyped
<1>5. \A v \in Users : calls'[v] = IF v = u THEN [calls[u] EXCEPT ![n] = call] ELSE calls[v]
    BY <1>1 DEF CallsTyped
<1>6. \A k \in DOMAIN calls[u] :
         [calls[u] EXCEPT ![n] = call][k] = IF k = n THEN call ELSE calls[u][k]
    BY <1>2
<1>7. DOMAIN [calls[u] EXCEPT ![n] = call] = DOMAIN calls[u]
    BY <1>2
<1> QED
    BY <1>4, <1>5, <1>6, <1>7

(***************************************************************************)
(* A command that is run gets a record of its own; the others stay.        *)
(***************************************************************************)
LEMMA RunFacts ==
    ASSUME CallsTyped, NEW u \in Users, NEW cmd \in Commands, Run(u, cmd)
    PROVE  /\ CallsTyped' /\ UNCHANGED vars
           /\ \A v \in Users : \A k \in DOMAIN calls'[v] :
                 \/ k \in DOMAIN calls[v] /\ calls'[v][k] = calls[v][k]
                 \/ calls'[v][k].net # "landed" /\ calls'[v][k].told = "nothing"
<1> DEFINE call == [cmd |-> cmd, told |-> "nothing",
                    net |-> IF ArgumentsFit(cmd) THEN "pending" ELSE "unsent"]
<1>1. /\ calls' = [calls EXCEPT ![u] = Append(calls[u], call)] /\ UNCHANGED vars
      /\ calls[u] \in Seq(Call) /\ call \in Call
      /\ call.net # "landed" /\ call.told = "nothing"
    BY DEF Run, CallsTyped, Call
<1> HIDE DEF call
<1>2. Append(calls[u], call) \in Seq(Call)
    BY <1>1
<1>3. CallsTyped'
    BY <1>1, <1>2 DEF CallsTyped
<1>4. \A k \in DOMAIN Append(calls[u], call) :
         \/ k \in DOMAIN calls[u] /\ Append(calls[u], call)[k] = calls[u][k]
         \/ Append(calls[u], call)[k] = call
    BY <1>1
<1>5. \A v \in Users : calls'[v] = IF v = u THEN Append(calls[u], call) ELSE calls[v]
    BY <1>1 DEF CallsTyped
<1> QED
    BY <1>1, <1>3, <1>4, <1>5

(***************************************************************************)
(* What the client reaches of the contract are the entry points.           *)
(***************************************************************************)
LEMMA InvokeIsNext ==
    ASSUME NEW u \in Users, NEW cmd, Invoke(u, cmd)
    PROVE  Next
    BY ClientAssumption DEF Invoke, Next

(***************************************************************************)
(* Every step of the system is one of the escrow contract, or a stutter.   *)
(***************************************************************************)
LEMMA ClientStep == [ClientNext]_cvars => [Next]_vars
    BY InvokeIsNext DEF ClientNext, cvars, Run, Land, Drop, invoke_stellar_cli, Elsewhere

(***************************************************************************)
(* So what holds of the escrow contract holds under its clients.           *)
(***************************************************************************)
LEMMA ClientRunsEscrow == ClientSpec => Spec
<1>1. ClientInit => Init
    BY DEF ClientInit
<1> QED
    BY <1>1, ClientStep, PTL DEF ClientSpec, Spec

(***************************************************************************)
(* An admin stays, and an ended escrow never becomes active again.         *)
(***************************************************************************)
LEMMA DoneStep ==
    ASSUME TypeOK, [Next]_vars, NEW u, NEW cmd, Done(u, cmd)
    PROVE  Done(u, cmd)'
<1>1. ASSUME config # None PROVE config' # None /\ config'.admin = config.admin
  <2>0. config \in ProtocolConfig
      BY <1>1 DEF TypeOK
  <2>1. ~ \E a, c \in Accounts, f \in FeeRates : init(a, f, c)
      BY <1>1 DEF init
  <2>2. CASE pause \/ unpause
    <3>1. PICK b \in BOOLEAN : config' = [config EXCEPT !.paused = b]
        BY <2>2 DEF pause, unpause
    <3>2. config' \in ProtocolConfig /\ config'.admin = config.admin
        BY <2>0, <3>1 DEF ProtocolConfig
    <3> QED BY <3>2, AddressAssumption
  <2>3. CASE config' = config
      BY <1>1, <2>3
  <2>4. CASE \E p, f \in Accounts, ms \in MilestoneVecs, d \in Deadlines \union {None},
                y \in Protocols, r \in Recurrences, a \in ReleaseAmounts :
                   create(p, f, ms, d, y, r, a)
      BY <1>1, <2>4 DEF create
  <2>5. CASE \/ \E i \in MilestoneIndices : submit_work(i)
             \/ \E i \in MilestoneIndices : approve(i)
             \/ release_recurring \/ cancel \/ expire
      BY <1>1, <2>5 DEF submit_work, approve, release_recurring, cancel, expire
  <2>6. CASE \/ \E f \in Accounts : transfer_freelancer(f)
             \/ \E p \in Accounts : transfer_payer(p)
             \/ \E d \in Deadlines : extend_deadline(d)
             \/ CloseLedger \/ RestoreInstance
             \/ \E from \in Accounts, amt \in Gifts : Donate(from, amt)
             \/ UNCHANGED vars
      BY <1>1, <2>6 DEF transfer_freelancer, transfer_payer, extend_deadline,
         CloseLedger, RestoreInstance, Donate, vars
  <2> QED
      BY <2>1, <2>2, <2>3, <2>4, <2>5, <2>6 DEF Next
<1>2. ASSUME Ended PROVE Ended'
  <2>0. escrow # None /\ escrow.status # "Active" /\ escrow \in EscrowData
      BY <1>2 DEF Ended, TypeOK
  <2>1. CASE escrow' = escrow
      BY <2>0, <2>1 DEF Ended
  <2>2. ASSUME NEW i, approve(i) PROVE Ended'
      BY <2>0, <2>2, ApproveStep DEF Ended
  <2>3. CASE \/ \E f \in Accounts : transfer_freelancer(f)
             \/ \E p \in Accounts : transfer_payer(p)
             \/ \E d \in Deadlines : extend_deadline(d)
      BY <2>0, <2>3, RoleStep DEF Ended, SameMoney
  <2> QED
      BY <2>0, <2>1, <2>2, <2>3 DEF Next, vars, init, pause, unpause, create, submit_work,
         release_recurring, cancel, expire, CloseLedger, RestoreInstance, Donate
<1> QED
    BY <1>1, <1>2 DEF Done

(***************************************************************************)
(* A landed command has done what it is for.                               *)
(***************************************************************************)
LEMMA InvokeDone ==
    ASSUME TypeOK, NEW u \in Users, NEW cmd, Invoke(u, cmd)
    PROVE  Done(u, cmd)' /\ Stands(cmd)' /\ (cmd = "init" => config = None)
           /\ (cmd \in {"cancel", "expire"} => escrow # None /\ escrow.status = "Active")
<1>1. ASSUME cmd = "init" PROVE config = None /\ config' # None /\ config'.admin = u
  <2>1. PICK f \in FeeRates, c \in Accounts : init(u, f, c)
      BY <1>1 DEF Invoke
  <2>2. config = None /\ config' = [admin |-> u, paused |-> FALSE, fee_bps |-> f, fee_collector |-> c]
      BY <2>1 DEF init
  <2>3. config' \in ProtocolConfig
      BY <2>2, ClientAssumption, AmountAssumption DEF ProtocolConfig
  <2> QED BY <2>2, <2>3, AddressAssumption
<1>2. ASSUME cmd \in {"cancel", "expire"}
      PROVE  /\ escrow # None /\ escrow.status = "Active" /\ escrow' # None
             /\ escrow'.status = IF cmd = "cancel" THEN "Cancelled" ELSE "Expired"
  <2>1. (cmd = "cancel" /\ cancel) \/ (cmd = "expire" /\ expire)
      BY <1>2 DEF Invoke
  <2>2. escrow # None /\ escrow.status = "Active" /\ escrow' # None
      BY <2>1, RefundStep
  <2>3. escrow \in EscrowData
      BY <2>2 DEF TypeOK
  <2> QED BY <2>1, <2>2, <2>3 DEF cancel, expire, Refund, EscrowData
<1> QED
    BY <1>1, <1>2 DEF Done, Stands, Ended

-----------------------------------------------------------------------------
(* The calls *)

ClientInv == CallsTyped /\ OkLanded /\ LandedDone

\* The record of call k of user v after a step: new and without effect, as it
\* was, landed in this step, or answered or dropped in this step.
CallStep(v, k) ==
    LET old == calls[v][k]
        new == calls'[v][k]
    IN  \/ new.net # "landed" /\ new.told # "ok"
        \/ /\ k \in DOMAIN calls[v] /\ new.cmd = old.cmd
           /\ \/ new = old
              \/ Land(v, k) /\ new.net = "landed"
              \/ /\ new.told = "ok" => new.net = "landed"
                 /\ new.net = "landed" => old.net = "landed"

(***************************************************************************)
(* Every step does one of these to every call.                             *)
(***************************************************************************)
LEMMA CallSteps ==
    ASSUME CallsTyped, OkLanded, [ClientNext]_cvars
    PROVE  CallsTyped' /\ \A v \in Users : \A k \in DOMAIN calls'[v] : CallStep(v, k)
<1>1. CASE calls' = calls
    BY <1>1 DEF CallsTyped, CallStep
<1>2. ASSUME NEW u \in Users, NEW cmd \in Commands, Run(u, cmd)
      PROVE  CallsTyped' /\ \A v \in Users : \A k \in DOMAIN calls'[v] : CallStep(v, k)
    BY <1>2, RunFacts DEF CallStep
<1>3. ASSUME NEW u \in Users, NEW n \in DOMAIN calls[u],
             Land(u, n) \/ Drop(u, n) \/ invoke_stellar_cli(u, n)
      PROVE  CallsTyped' /\ \A v \in Users : \A k \in DOMAIN calls'[v] : CallStep(v, k)
  <2> DEFINE old == calls[u][n]
  <2>1. old \in Call /\ (old.told = "ok" => old.net = "landed")
      BY DEF CallsTyped, OkLanded
  <2>2. PICK new \in Call : /\ Set(u, n, new) /\ new.cmd = old.cmd
                            /\ \/ Land(u, n) /\ new.net = "landed"
                               \/ /\ new.told = "ok" => new.net = "landed"
                                  /\ new.net = "landed" => old.net = "landed"
    <3> HIDE DEF old
    <3>1. CASE Land(u, n)
      <4>1. [old EXCEPT !.net = "landed"] \in Call
            /\ [old EXCEPT !.net = "landed"].cmd = old.cmd
            /\ [old EXCEPT !.net = "landed"].net = "landed"
          BY <2>1 DEF Call
      <4>2. Set(u, n, [old EXCEPT !.net = "landed"])
          BY <3>1 DEF Land, old
      <4> QED BY <3>1, <4>1, <4>2
    <3>2. CASE Drop(u, n)
      <4>1. old.net = "pending" /\ Set(u, n, [old EXCEPT !.net = "dropped"])
          BY <3>2 DEF Drop, old
      <4>2. /\ [old EXCEPT !.net = "dropped"] \in Call
            /\ [old EXCEPT !.net = "dropped"].cmd = old.cmd
            /\ [old EXCEPT !.net = "dropped"].net = "dropped"
            /\ [old EXCEPT !.net = "dropped"].told = old.told
          BY <2>1 DEF Call
      <4> QED BY <2>1, <4>1, <4>2
    <3>3. CASE invoke_stellar_cli(u, n)
      <4>1. PICK answer \in {"ok", "error"} :
               /\ answer = "ok" => old.net = "landed"
               /\ Set(u, n, [old EXCEPT !.told = answer])
          BY <3>3 DEF invoke_stellar_cli, old
      <4>2. /\ [old EXCEPT !.told = answer] \in Call
            /\ [old EXCEPT !.told = answer].cmd = old.cmd
            /\ [old EXCEPT !.told = answer].net = old.net
            /\ [old EXCEPT !.told = answer].told = answer
          BY <2>1 DEF Call
      <4> QED BY <4>1, <4>2
    <3> QED BY <1>3, <3>1, <3>2, <3>3
  <2> QED BY <2>2, SetFacts DEF CallStep
<1> QED
    BY <1>1, <1>2, <1>3 DEF ClientNext, cvars, Elsewhere

(***************************************************************************)
(* Whatever is done when a call has landed stays done.                     *)
(***************************************************************************)
LEMMA ClientInvStep == TypeOK /\ ClientInv /\ [ClientNext]_cvars => ClientInv'
<1> SUFFICES ASSUME TypeOK, ClientInv, [ClientNext]_cvars PROVE ClientInv'
    OBVIOUS
<1>1. CallsTyped' /\ \A v \in Users : \A k \in DOMAIN calls'[v] : CallStep(v, k)
    BY CallSteps DEF ClientInv
<1>2. [Next]_vars
    BY ClientStep
<1>3. OkLanded'
  <2> SUFFICES ASSUME NEW v \in Users, NEW k \in DOMAIN calls'[v], calls'[v][k].told = "ok"
               PROVE  calls'[v][k].net = "landed"
      BY DEF OkLanded
  <2> QED BY <1>1 DEF CallStep, ClientInv, OkLanded
<1>4. LandedDone'
  <2> SUFFICES ASSUME NEW v \in Users, NEW k \in DOMAIN calls'[v], calls'[v][k].net = "landed",
                      NEW cmd, cmd = calls'[v][k].cmd
               PROVE  Done(v, cmd)'
      BY DEF LandedDone, Done, Ended
  <2>1. CASE k \in DOMAIN calls[v] /\ cmd = calls[v][k].cmd /\ calls[v][k].net = "landed"
    <3>1. Done(v, cmd)
        BY <2>1 DEF ClientInv, LandedDone
    <3> QED BY <1>2, <3>1, DoneStep
  <2>2. CASE Land(v, k) /\ cmd = calls[v][k].cmd
    <3>1. Invoke(v, cmd)
        BY <2>2 DEF Land
    <3> QED BY <3>1, InvokeDone
  <2> QED BY <1>1, <2>1, <2>2 DEF CallStep
<1> QED
    BY <1>1, <1>3, <1>4 DEF ClientInv

(***************************************************************************)
(* With closed inputs the landed status stands: no late transaction, retry *)
(* or other caller changes it.                                             *)
(***************************************************************************)
LEMMA StandsStep ==
    ASSUME ClosedInputs, TypeOK, Custody, ClientInv, LandedStands, [ClientNext]_cvars
    PROVE  LandedStands'
<1>1. \A v \in Users : \A k \in DOMAIN calls'[v] : CallStep(v, k)
    BY CallSteps DEF ClientInv
<1> SUFFICES ASSUME NEW v \in Users, NEW k \in DOMAIN calls'[v], calls'[v][k].net = "landed",
                    NEW cmd, cmd = calls'[v][k].cmd
             PROVE  Stands(cmd)'
    BY DEF LandedStands, Stands
<1>2. CASE k \in DOMAIN calls[v] /\ cmd = calls[v][k].cmd /\ calls[v][k].net = "landed"
  <2>1. Stands(cmd)
      BY <1>2 DEF LandedStands
  <2>2. [Next]_vars
      BY ClientStep
  <2> QED BY <2>1, <2>2, FinalStep DEF Stands, Terminal
<1>3. CASE Land(v, k) /\ cmd = calls[v][k].cmd
  <2>1. Invoke(v, cmd)
      BY <1>3 DEF Land
  <2> QED BY <2>1, InvokeDone
<1> QED BY <1>1, <1>2, <1>3 DEF CallStep

(***************************************************************************)
(* At most one init and at most one cancel or expire lands: what the first *)
(* one did keeps every other one out, for any inputs.                      *)
(***************************************************************************)
LEMMA LandedOnceStep ==
    ASSUME TypeOK, ClientInv, LandedOnce, [ClientNext]_cvars
    PROVE  LandedOnce'
<1>1. CallsTyped /\ CallsTyped' /\ \A v \in Users : \A k \in DOMAIN calls'[v] : CallStep(v, k)
    BY CallSteps DEF ClientInv
<1> SUFFICES ASSUME NEW cmds \in {{"init"}, {"cancel", "expire"}},
                    NEW c \in AllCalls', NEW d \in AllCalls',
                    calls'[c[1]][c[2]].net = "landed", calls'[c[1]][c[2]].cmd \in cmds,
                    calls'[d[1]][d[2]].net = "landed", calls'[d[1]][d[2]].cmd \in cmds
             PROVE  c = d
    BY DEF LandedOnce
<1>2. ASSUME NEW e \in {c, d}
      PROVE  /\ e[1] \in Users /\ e[2] \in DOMAIN calls[e[1]]
             /\ e \in AllCalls
             /\ calls[e[1]][e[2]].cmd = calls'[e[1]][e[2]].cmd
             /\ calls[e[1]][e[2]].net = "landed" \/ Land(e[1], e[2])
    BY <1>1 DEF AllCalls, CallStep
<1>3. ASSUME NEW u \in Users, NEW n \in DOMAIN calls[u], NEW v \in Users, NEW k \in DOMAIN calls[v],
             Land(u, n), calls[v][k].net = "landed",
             calls[u][n].cmd \in cmds, calls[v][k].cmd \in cmds
      PROVE  FALSE
  <2>1. Invoke(u, calls[u][n].cmd)
      BY <1>3 DEF Land
  <2>2. Done(v, calls[v][k].cmd)
      BY <1>3 DEF ClientInv, LandedDone
  <2> QED BY <1>3, <2>1, <2>2, InvokeDone DEF Done, Ended
<1>4. ASSUME NEW u \in Users, NEW n \in DOMAIN calls[u], NEW v \in Users, NEW k \in DOMAIN calls[v],
             Land(u, n), Land(v, k)
      PROVE  u = v /\ n = k
  <2>1. /\ calls[u][n].net = "pending" /\ calls[v][k].net = "pending"
        /\ Set(u, n, [calls[u][n] EXCEPT !.net = "landed"])
        /\ Set(v, k, [calls[v][k] EXCEPT !.net = "landed"])
      BY <1>4 DEF Land
  <2>2. \A x \in Call : [x EXCEPT !.net = "landed"] \in Call /\ [x EXCEPT !.net = "landed"].net = "landed"
      BY DEF Call
  <2>3. PICK x \in Call : x = [calls[u][n] EXCEPT !.net = "landed"] /\ x.net = "landed"
    <3>1. calls[u][n] \in Call
        BY <1>1 DEF CallsTyped
    <3> QED BY <2>2, <3>1, Zenon
  <2>4. Set(u, n, x)
      BY <2>1, <2>3
  <2>5. \A w \in Users : \A j \in DOMAIN calls[w] :
           calls'[w][j] = IF w = u /\ j = n THEN x ELSE calls[w][j]
      BY <1>1, <2>4, SetFacts
  <2>6. calls'[u][n] = x
      BY <2>5
  <2>7. PICK y \in Call : y = [calls[v][k] EXCEPT !.net = "landed"]
    <3>1. calls[v][k] \in Call
        BY <1>1 DEF CallsTyped
    <3> QED BY <2>2, <3>1, Zenon
  <2>8. Set(v, k, y)
      BY <2>1, <2>7
  <2>9. \A w \in Users : \A j \in DOMAIN calls[w] :
           calls'[w][j] = IF w = v /\ j = k THEN y ELSE calls[w][j]
      BY <1>1, <2>8, SetFacts
  <2>10. ~ (u = v /\ n = k) => calls'[u][n] = calls[u][n]
      BY <2>9
  <2> QED BY <2>1, <2>3, <2>6, <2>10
<1>5. (c[1] = d[1] /\ c[2] = d[2]) \/ (calls[c[1]][c[2]].net = "landed" /\ calls[d[1]][d[2]].net = "landed")
    BY <1>2, <1>3, <1>4
<1>6. CASE calls[c[1]][c[2]].net = "landed" /\ calls[d[1]][d[2]].net = "landed"
  <2>1. c \in AllCalls /\ d \in AllCalls /\ calls[c[1]][c[2]].cmd \in cmds /\ calls[d[1]][d[2]].cmd \in cmds
      BY <1>2
  <2> QED BY <1>6, <2>1 DEF LandedOnce
<1> QED
    BY <1>5, <1>6 DEF AllCalls

-----------------------------------------------------------------------------
(***************************************************************************)
(* The calls are well typed, success is reported of landed transactions    *)
(* only, and what a landed command did stays done.                         *)
(***************************************************************************)
LEMMA ClientCorrect == ClientSpec => []ClientInv
<1>1. ClientInit => ClientInv
    BY DEF ClientInit, ClientInv, CallsTyped, OkLanded, LandedDone
<1> QED
    BY <1>1, ClientInvStep, ClientRunsEscrow, TypeCorrect, PTL DEF ClientSpec

(***************************************************************************)
(* Retrying is safe: of all the init commands at most one ever lands, and  *)
(* of all cancel and expire commands together at most one, for any inputs, *)
(* users and commands, although the client repeats a command whose first   *)
(* transaction may still be on its way.                                    *)
(***************************************************************************)
THEOREM AlwaysLandedOnce == ClientSpec => []LandedOnce
<1>1. ClientInit => LandedOnce
    BY DEF ClientInit, LandedOnce, AllCalls
<1>2. TypeOK /\ ClientInv /\ LandedOnce /\ [ClientNext]_cvars => LandedOnce'
    BY LandedOnceStep
<1> QED
    BY <1>1, <1>2, ClientCorrect, ClientRunsEscrow, TypeCorrect, PTL DEF ClientSpec

(***************************************************************************)
(* What the client told a user stays true for ever: with closed inputs a   *)
(* cancelled or expired escrow stays so and the contract empty, and the    *)
(* user who initialised it stays its admin.                                *)
(***************************************************************************)
THEOREM AlwaysToldTrue ==
    ASSUME ClosedInputs
    PROVE  ClientSpec => []ToldTrue
<1>1. ClientInit => LandedStands
    BY DEF ClientInit, LandedStands
<1>2. TypeOK /\ Custody /\ ClientInv /\ LandedStands /\ [ClientNext]_cvars => LandedStands'
    BY StandsStep
<1>3. Custody /\ ClientInv /\ LandedStands => ToldTrue
  <2> SUFFICES ASSUME Custody, ClientInv, LandedStands,
                      NEW c \in AllCalls, NEW call, call = calls[c[1]][c[2]], call.told = "ok"
               PROVE  /\ call.cmd = "init" => config # None /\ config.admin = c[1]
                      /\ call.cmd = "cancel" => Terminal /\ escrow.status = "Cancelled" /\ bal[Contract] = 0
                      /\ call.cmd = "expire" => Terminal /\ escrow.status = "Expired" /\ bal[Contract] = 0
      BY DEF ToldTrue
  <2>1. c[1] \in Users /\ c[2] \in DOMAIN calls[c[1]] /\ call.net = "landed"
      BY DEF AllCalls, ClientInv, OkLanded
  <2>2. Done(c[1], call.cmd) /\ Stands(call.cmd)
      BY <2>1 DEF ClientInv, LandedDone, LandedStands
  <2> QED BY <2>2 DEF Done, Stands, Terminal, Custody, Unsettled
<1>4. Spec => []TypeOK /\ []Custody
    BY TypeCorrect, CustodyExact
<1> QED
    BY <1>1, <1>2, <1>3, <1>4, ClientCorrect, ClientRunsEscrow, PTL DEF ClientSpec

=============================================================================
