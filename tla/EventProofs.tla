---------------------------- MODULE EventProofs ----------------------------
(***************************************************************************)
(* Theorems about EscrowEvents: what an observer learns from the events of *)
(* an escrow contract, for every value of its constants.                   *)
(***************************************************************************)
EXTENDS EscrowEvents, EscrowProofs, SequenceTheorems

-----------------------------------------------------------------------------
(* Replaying at most two events *)

(***************************************************************************)
(* A call publishes no event, one, or two; these are the folds of Publish  *)
(* over them.  The indices are folded from the largest one down.           *)
(***************************************************************************)
LEMMA Largest == Max({1}) = 1 /\ Max({2}) = 2 /\ Max({1, 2}) = 2
    BY DEF Max

(***************************************************************************)
(* What the observer has heard after at most two events.                   *)
(***************************************************************************)
LEMMA HearFold ==
    ASSUME NEW v, NEW d, NEW e
    PROVE  /\ HearAll(v, << >>) = v
           /\ HearAll(v, <<e>>) = Hear(v, e)
           /\ HearAll(v, <<d, e>>) = Hear(Hear(v, d), e)
<1> DEFINE Table(f, evs) ==
        f = [s \in SUBSET DOMAIN evs |->
               IF s = {} THEN v ELSE Hear(f[s \ {Max(s)}], evs[Max(s)])]
<1>1. \A evs : HearAll(v, evs) = (CHOOSE f : Table(f, evs))[DOMAIN evs]
    BY Zenon DEF HearAll, FoldLeft, MapThenFoldSet
<1>2. DOMAIN << >> = {} /\ DOMAIN <<e>> = {1} /\ DOMAIN <<d, e>> = {1, 2}
    OBVIOUS
<1>3. <<e>>[1] = e /\ <<d, e>>[1] = d /\ <<d, e>>[2] = e
    OBVIOUS
<1>4. HearAll(v, << >>) = v
  <2> DEFINE g == [s \in SUBSET {} |-> v]
  <2>1. Table(g, << >>)
      BY <1>2
  <2>2. Table(CHOOSE f : Table(f, << >>), << >>)
      BY <2>1
  <2> QED BY <1>1, <1>2, <2>2
<1>5. HearAll(v, <<e>>) = Hear(v, e)
  <2> DEFINE g == [s \in SUBSET {1} |-> IF s = {} THEN v ELSE Hear(v, e)]
  <2>1. \A s \in SUBSET {1} : s = {} \/ s = {1}
      OBVIOUS
  <2>2. {1} # {} /\ {1} \ {1} = {} /\ {} \in SUBSET {1} /\ {1} \in SUBSET {1}
      OBVIOUS
  <2>3. g[{}] = v /\ g[{1}] = Hear(v, e)
      BY <2>2
  <2>4. Table(g, <<e>>)
    <3>1. ASSUME NEW s \in SUBSET {1}
          PROVE  g[s] = IF s = {} THEN v ELSE Hear(g[s \ {Max(s)}], <<e>>[Max(s)])
      <4>1. CASE s = {}
          BY <4>1, <2>3
      <4>2. CASE s = {1}
        <5> HIDE DEF g
        <5>1. Max(s) = 1 /\ s \ {Max(s)} = {} /\ s # {}
            BY <4>2, <2>2, Largest
        <5> QED BY <4>2, <5>1, <2>3, <1>3, Zenon
      <4> QED BY <2>1, <4>1, <4>2
    <3>2. g = [s \in SUBSET {1} |->
                 IF s = {} THEN v ELSE Hear(g[s \ {Max(s)}], <<e>>[Max(s)])]
        BY <3>1
    <3> HIDE DEF g
    <3> QED BY <3>2, <1>2
  <2> HIDE DEF g
  <2>5. PICK f : Table(f, <<e>>) /\ HearAll(v, <<e>>) = f[{1}]
    <3>1. Table(CHOOSE f : Table(f, <<e>>), <<e>>)
        BY <2>4, Zenon
    <3> QED BY <3>1, <1>1, <1>2, Zenon
  <2>6. f[{}] = v
      BY <2>2, <2>5, <1>2
  <2>7. f[{1}] = Hear(f[{1} \ {Max({1})}], <<e>>[Max({1})])
      BY <2>2, <2>5, <1>2
  <2> QED BY <2>2, <2>5, <2>6, <2>7, <1>3, Largest
<1>6. HearAll(v, <<d, e>>) = Hear(Hear(v, d), e)
  <2> DEFINE g == [s \in SUBSET {1, 2} |->
                     IF s = {} THEN v ELSE IF s = {1} THEN Hear(v, d)
                     ELSE IF s = {2} THEN Hear(v, e) ELSE Hear(Hear(v, d), e)]
  <2>1. \A s \in SUBSET {1, 2} : s = {} \/ s = {1} \/ s = {2} \/ s = {1, 2}
      OBVIOUS
  <2>2. /\ {1} # {} /\ {2} # {} /\ {1, 2} # {} /\ {1} # {2} /\ {1} # {1, 2} /\ {2} # {1, 2}
        /\ {1} \ {1} = {} /\ {2} \ {2} = {} /\ {1, 2} \ {2} = {1}
        /\ {} \in SUBSET {1, 2} /\ {1} \in SUBSET {1, 2}
        /\ {2} \in SUBSET {1, 2} /\ {1, 2} \in SUBSET {1, 2}
      OBVIOUS
  <2>3. /\ g[{}] = v /\ g[{1}] = Hear(v, d) /\ g[{2}] = Hear(v, e)
        /\ g[{1, 2}] = Hear(Hear(v, d), e)
      BY <2>2
  <2>4. Table(g, <<d, e>>)
    <3>1. ASSUME NEW s \in SUBSET {1, 2}
          PROVE  g[s] = IF s = {} THEN v ELSE Hear(g[s \ {Max(s)}], <<d, e>>[Max(s)])
      <4> HIDE DEF g
      <4>1. CASE s = {}
          BY <4>1, <2>3
      <4>2. CASE s = {1}
        <5>1. Max(s) = 1 /\ s \ {Max(s)} = {} /\ s # {}
            BY <4>2, <2>2, Largest
        <5> QED BY <4>2, <5>1, <2>3, <1>3, Zenon
      <4>3. CASE s = {2}
        <5>1. Max(s) = 2 /\ s \ {Max(s)} = {} /\ s # {}
            BY <4>3, <2>2, Largest
        <5> QED BY <4>3, <5>1, <2>3, <1>3, Zenon
      <4>4. CASE s = {1, 2}
        <5>1. Max(s) = 2 /\ s \ {Max(s)} = {1} /\ s # {}
            BY <4>4, <2>2, Largest
        <5> QED BY <4>4, <5>1, <2>3, <1>3, Zenon
      <4> QED BY <2>1, <4>1, <4>2, <4>3, <4>4
    <3>2. g = [s \in SUBSET {1, 2} |->
                 IF s = {} THEN v ELSE Hear(g[s \ {Max(s)}], <<d, e>>[Max(s)])]
        BY <3>1
    <3> HIDE DEF g
    <3> QED BY <3>2, <1>2
  <2> HIDE DEF g
  <2>5. PICK f : Table(f, <<d, e>>) /\ HearAll(v, <<d, e>>) = f[{1, 2}]
    <3>1. Table(CHOOSE f : Table(f, <<d, e>>), <<d, e>>)
        BY <2>4, Zenon
    <3> QED BY <3>1, <1>1, <1>2, Zenon
  <2>6. f[{}] = v
      BY <2>2, <2>5, <1>2
  <2>7. f[{1}] = Hear(f[{1} \ {Max({1})}], <<d, e>>[Max({1})])
      BY <2>2, <2>5, <1>2
  <2>8. f[{1, 2}] = Hear(f[{1, 2} \ {Max({1, 2})}], <<d, e>>[Max({1, 2})])
      BY <2>2, <2>5, <1>2
  <2> QED BY <2>2, <2>5, <2>6, <2>7, <2>8, <1>3, Largest
<1> QED
    BY <1>4, <1>5, <1>6

(***************************************************************************)
(* What publishing no event, one or two makes of the observer's records.   *)
(***************************************************************************)
LEMMA PublishFacts ==
    ASSUME NEW d, NEW e
    PROVE  /\ Publish(<< >>) => view' = view /\ told' = told
           /\ Publish(<<e>>) =>
                 /\ view' = Observe(view, e)
                 /\ told' = [a \in Accounts |-> told[a] + ToldTo(a, e)]
           /\ Publish(<<d, e>>) =>
                 /\ view' = Observe(Observe(view, d), e)
                 /\ told' = [a \in Accounts |-> (told[a] + ToldTo(a, d)) + ToldTo(a, e)]
<1> DEFINE o == [view |-> view, told |-> told]
           h == [view |-> Observe(view, d), told |-> [a \in Accounts |-> told[a] + ToldTo(a, d)]]
<1>1. o.view = view /\ o.told = told
    OBVIOUS
<1>2. Hear(o, d) = h
    BY <1>1 DEF Hear
<1>3. /\ Hear(o, e).view = Observe(view, e)
      /\ Hear(o, e).told = [a \in Accounts |-> told[a] + ToldTo(a, e)]
    BY <1>1 DEF Hear
<1>4. /\ Hear(h, e).view = Observe(Observe(view, d), e)
      /\ Hear(h, e).told = [a \in Accounts |-> (told[a] + ToldTo(a, d)) + ToldTo(a, e)]
    BY DEF Hear
<1>5. \A evs : Publish(evs) => /\ view' = HearAll(o, evs).view
                               /\ told' = HearAll(o, evs).told
    BY Zenon DEF Publish
<1> HIDE DEF o, h
<1>6. /\ HearAll(o, << >>) = o
      /\ HearAll(o, <<e>>) = Hear(o, e)
      /\ HearAll(o, <<d, e>>) = Hear(h, e)
  <2>1. \A v : /\ HearAll(v, << >>) = v
               /\ HearAll(v, <<e>>) = Hear(v, e)
               /\ HearAll(v, <<d, e>>) = Hear(Hear(v, d), e)
      BY HearFold
  <2> QED BY <1>2, <2>1, Zenon
<1>7. Publish(<< >>) => view' = view /\ told' = told
    BY <1>1, <1>5, <1>6, Zenon
<1>8. Publish(<<e>>) =>
         view' = Observe(view, e) /\ told' = [a \in Accounts |-> told[a] + ToldTo(a, e)]
  <2> HAVE Publish(<<e>>)
  <2>1. view' = Hear(o, e).view /\ told' = Hear(o, e).told
      BY <1>5, <1>6, Zenon
  <2> QED BY <1>3, <2>1, Zenon
<1>9. Publish(<<d, e>>) =>
         /\ view' = Observe(Observe(view, d), e)
         /\ told' = [a \in Accounts |-> (told[a] + ToldTo(a, d)) + ToldTo(a, e)]
  <2> HAVE Publish(<<d, e>>)
  <2>1. view' = Hear(h, e).view /\ told' = Hear(h, e).told
      BY <1>5, <1>6, Zenon
  <2> QED BY <1>4, <2>1, Zenon
<1> QED
    BY <1>7, <1>8, <1>9

(***************************************************************************)
(* The events of a call that publishes one or two.                         *)
(***************************************************************************)
LEMMA EventPair ==
    ASSUME NEW d, NEW e
    PROVE  /\ << >> \o <<e>> = <<e>>
           /\ <<d>> \o << >> = <<d>>
           /\ <<d>> \o <<e>> = <<d, e>>
<1> DEFINE S == {d, e}
           t == <<d>> \o <<e>>
<1>1. /\ <<d>> \in Seq(S) /\ <<e>> \in Seq(S) /\ <<d, e>> \in Seq(S)
      /\ Len(<<d>>) = 1 /\ Len(<<e>>) = 1 /\ Len(<<d, e>>) = 2
      /\ <<d>>[1] = d /\ <<e>>[1] = e /\ <<d, e>>[1] = d /\ <<d, e>>[2] = e
    OBVIOUS
<1>2. /\ t \in Seq(S) /\ Len(t) = Len(<<d>>) + Len(<<e>>)
      /\ \A i \in 1..(Len(<<d>>) + Len(<<e>>)) :
            t[i] = IF i <= Len(<<d>>) THEN <<d>>[i] ELSE <<e>>[i - Len(<<d>>)]
    BY <1>1, ConcatProperties
<1>3. t[1] = d /\ t[2] = e /\ Len(t) = 2
    BY <1>1, <1>2
<1>4. t = <<d, e>>
  <2> HIDE DEF t
  <2>1. \A i \in 1..Len(t) : t[i] = <<d, e>>[i]
      BY <1>1, <1>3
  <2> HIDE DEF S
  <2> QED BY <1>1, <1>2, <1>3, <2>1, SeqEqual
<1>5. << >> \o <<e>> = <<e>> /\ <<d>> \o << >> = <<d>>
    BY <1>1, ConcatEmptySeq
<1> QED
    BY <1>4, <1>5

-----------------------------------------------------------------------------
(* The observer's view *)

\* A view, field by field.
ViewOf(paused, payer, freelancer, total, milestones, status, releases) ==
    [paused |-> paused, payer |-> payer, freelancer |-> freelancer, total |-> total,
     milestones |-> milestones, status |-> status, releases |-> releases]

(***************************************************************************)
(* Every step of the system is one of the escrow contract, or a stutter.   *)
(***************************************************************************)
LEMMA EventStep == [EventNext]_evars => [Next]_vars
<1> SUFFICES ASSUME [EventNext]_evars PROVE [Next]_vars
    OBVIOUS
<1>1. CASE \E a, c \in Accounts, f \in FeeRates : init_logged(a, f, c)
    BY <1>1 DEF init_logged, Next
<1>2. CASE pause_logged \/ unpause_logged
    BY <1>2 DEF pause_logged, unpause_logged, Next
<1>3. ASSUME NEW p \in Accounts, NEW f \in Accounts, NEW ms \in MilestoneVecs,
             NEW d \in Deadlines \union {None}, NEW y \in Protocols,
             NEW r \in Recurrences, NEW a \in ReleaseAmounts,
             create_logged(p, f, ms, d, y, r, a)
      PROVE  Next
    BY <1>3 DEF create_logged, Next
<1>4. CASE \E i \in MilestoneIndices : submit_work_logged(i) \/ approve_logged(i)
    BY <1>4 DEF submit_work_logged, approve_logged, Next
<1>5. CASE release_recurring_logged \/ cancel_logged \/ expire_logged
    BY <1>5 DEF release_recurring_logged, cancel_logged, expire_logged, Next
<1>6. CASE \/ \E f \in Accounts : transfer_freelancer_logged(f)
           \/ \E p \in Accounts : transfer_payer_logged(p)
           \/ \E d \in Deadlines : extend_deadline_logged(d)
    BY <1>6 DEF transfer_freelancer_logged, transfer_payer_logged, extend_deadline_logged, Next
<1>7. CASE Silent \/ \E from \in Accounts, amt \in Gifts : Donate_logged(from, amt)
    BY <1>7 DEF Silent, Donate_logged, Next
<1>8. CASE UNCHANGED evars
    BY <1>8 DEF evars
<1> QED BY <1>1, <1>2, <1>3, <1>4, <1>5, <1>6, <1>7, <1>8 DEF EventNext

\* The view is exactly what the contract has in its storage, or what it would
\* be for an escrow nobody created yet.
Story ==
    view = IF escrow = None
           THEN ViewOf(Paused, None, None, 0, << >>, "Active", 0)
           ELSE ViewOf(Paused, escrow.payer, escrow.freelancer, escrow.total_amount,
                       escrow.milestones, escrow.status, escrow.releases_made)

(***************************************************************************)
(* A call that creates the escrow publishes its record, after the deposit. *)
(***************************************************************************)
LEMMA CreateTold ==
    ASSUME TypeOK, Story,
           NEW p \in Accounts, NEW f \in Accounts, NEW ms \in MilestoneVecs,
           NEW d \in Deadlines \union {None}, NEW y \in Protocols,
           NEW r \in Recurrences, NEW a \in ReleaseAmounts,
           create_logged(p, f, ms, d, y, r, a)
    PROVE  Story'
<1> DEFINE c == escrow_created(p, f, Total(ms), ms)
           x == yield_deposited(y, Total(ms))
           pre == IF y = None THEN << >> ELSE <<x>>
<1>1. view = ViewOf(Paused, None, None, 0, << >>, "Active", 0) /\ Paused' = Paused
    BY DEF Story, create_logged, create, Paused
<1>2. Observe(view, c) = ViewOf(Paused, p, f, Total(ms), ms, "Active", 0)
    BY <1>1 DEF ViewOf, Observe, escrow_created
<1>3. Observe(view, x) = view
    BY DEF Observe, yield_deposited
<1>4. create(p, f, ms, d, y, r, a) /\ escrow' # None
    BY CreateStep DEF create_logged
<1>5. /\ escrow'.payer = p /\ escrow'.freelancer = f
      /\ escrow'.total_amount = Total(ms) /\ escrow'.milestones = ms
      /\ escrow'.status = "Active" /\ escrow'.releases_made = 0
    BY <1>4 DEF create
<1>6. Publish(pre \o <<c>>)
    BY DEF create_logged
<1> HIDE DEF c, x
<1>7. pre \o <<c>> = <<c>> \/ pre \o <<c>> = <<x, c>>
    BY EventPair
<1>8. view' = Observe(view, c)
    BY <1>3, <1>6, <1>7, PublishFacts
<1> QED BY <1>1, <1>2, <1>4, <1>5, <1>8 DEF Story

(***************************************************************************)
(* Calls about the configuration change the pause switch of the view, if   *)
(* anything.                                                               *)
(***************************************************************************)
LEMMA ConfigTold ==
    ASSUME TypeOK, Story,
           \/ \E a, c \in Accounts, f \in FeeRates : init_logged(a, f, c)
           \/ pause_logged
           \/ unpause_logged
    PROVE  Story'
<1>1. ASSUME NEW a \in Accounts, NEW c \in Accounts, NEW f \in FeeRates, init_logged(a, f, c)
      PROVE  Story'
  <2>1. init(a, f, c) /\ view' = view
      BY <1>1, PublishFacts DEF init_logged
  <2>2. escrow' = escrow /\ Paused' = FALSE /\ Paused = FALSE
      BY <2>1 DEF init, Paused
  <2> QED BY <2>1, <2>2 DEF Story
<1>2. ASSUME pause_logged PROVE Story'
  <2>1. pause /\ view' = Observe(view, contract_paused(config.admin))
      BY <1>2, PublishFacts DEF pause_logged
  <2>2. escrow' = escrow /\ Paused' = TRUE
    <3>1. config \in ProtocolConfig /\ config' = [config EXCEPT !.paused = TRUE]
        BY <2>1 DEF pause, TypeOK
    <3>2. config' \in ProtocolConfig /\ config'.paused = TRUE
        BY <3>1 DEF ProtocolConfig
    <3> QED BY <2>1, <3>2, AddressAssumption DEF pause, Paused
  <2>3. CASE escrow = None
    <3>1. view = ViewOf(Paused, None, None, 0, << >>, "Active", 0)
        BY <2>3 DEF Story
    <3>2. view' = ViewOf(TRUE, None, None, 0, << >>, "Active", 0)
        BY <2>1, <3>1 DEF ViewOf, Observe, contract_paused
    <3> QED BY <2>2, <2>3, <3>2 DEF Story
  <2>4. CASE escrow # None
    <3>1. view = ViewOf(Paused, escrow.payer, escrow.freelancer, escrow.total_amount,
                        escrow.milestones, escrow.status, escrow.releases_made)
        BY <2>4 DEF Story
    <3>2. view' = ViewOf(TRUE, escrow.payer, escrow.freelancer, escrow.total_amount,
                         escrow.milestones, escrow.status, escrow.releases_made)
        BY <2>1, <3>1 DEF ViewOf, Observe, contract_paused
    <3> QED BY <2>2, <2>4, <3>2 DEF Story
  <2> QED BY <2>3, <2>4
<1>3. ASSUME unpause_logged PROVE Story'
  <2>1. unpause /\ view' = Observe(view, contract_unpaused(config.admin))
      BY <1>3, PublishFacts DEF unpause_logged
  <2>2. escrow' = escrow /\ Paused' = FALSE
    <3>1. config \in ProtocolConfig /\ config' = [config EXCEPT !.paused = FALSE]
        BY <2>1 DEF unpause, TypeOK
    <3>2. config'.paused = FALSE
        BY <3>1 DEF ProtocolConfig
    <3> QED BY <2>1, <3>2 DEF unpause, Paused
  <2>3. CASE escrow = None
    <3>1. view = ViewOf(Paused, None, None, 0, << >>, "Active", 0)
        BY <2>3 DEF Story
    <3>2. view' = ViewOf(FALSE, None, None, 0, << >>, "Active", 0)
        BY <2>1, <3>1 DEF ViewOf, Observe, contract_unpaused
    <3> QED BY <2>2, <2>3, <3>2 DEF Story
  <2>4. CASE escrow # None
    <3>1. view = ViewOf(Paused, escrow.payer, escrow.freelancer, escrow.total_amount,
                        escrow.milestones, escrow.status, escrow.releases_made)
        BY <2>4 DEF Story
    <3>2. view' = ViewOf(FALSE, escrow.payer, escrow.freelancer, escrow.total_amount,
                         escrow.milestones, escrow.status, escrow.releases_made)
        BY <2>1, <3>1 DEF ViewOf, Observe, contract_unpaused
    <3> QED BY <2>2, <2>4, <3>2 DEF Story
  <2> QED BY <2>3, <2>4
<1> QED BY <1>1, <1>2, <1>3

(***************************************************************************)
(* submit_work and approve publish the milestone they changed; that the    *)
(* last approval completes the escrow follows from the view itself.        *)
(***************************************************************************)
LEMMA MilestoneTold ==
    ASSUME TypeOK, Story, NEW i, submit_work_logged(i) \/ approve_logged(i)
    PROVE  Story'
<1>1. escrow # None /\ escrow \in EscrowData /\ Paused' = Paused
    BY DEF submit_work_logged, approve_logged, submit_work, approve, TypeOK, Paused
<1>2. view = ViewOf(Paused, escrow.payer, escrow.freelancer, escrow.total_amount,
                    escrow.milestones, escrow.status, escrow.releases_made)
    BY <1>1 DEF Story
<1>3. ASSUME submit_work_logged(i) PROVE Story'
  <2> DEFINE ms == SetMilestone(escrow.milestones, i, "Submitted")
  <2>1. submit_work(i) /\ view' = Observe(view, milestone_submitted(escrow.freelancer, i))
      BY <1>3, PublishFacts DEF submit_work_logged
  <2>2. escrow' # None /\ escrow' = [escrow EXCEPT !.milestones = ms]
      BY <2>1, SubmitStep DEF submit_work
  <2>3. view' = ViewOf(Paused, escrow.payer, escrow.freelancer, escrow.total_amount,
                       ms, escrow.status, escrow.releases_made)
      BY <1>2, <2>1 DEF ViewOf, Observe, milestone_submitted
  <2> HIDE DEF ms
  <2>4. /\ escrow'.payer = escrow.payer /\ escrow'.freelancer = escrow.freelancer
        /\ escrow'.total_amount = escrow.total_amount /\ escrow'.milestones = ms
        /\ escrow'.status = escrow.status /\ escrow'.releases_made = escrow.releases_made
      BY <1>1, <2>2 DEF EscrowData
  <2> QED BY <1>1, <2>2, <2>3, <2>4 DEF Story
<1>4. ASSUME approve_logged(i) PROVE Story'
  <2> DEFINE ms == SetMilestone(escrow.milestones, i, "Approved")
             net == Net(escrow.milestones[i].amount)
             st == IF AllApproved(ms) THEN "Completed" ELSE escrow.status
  <2>1. approve(i) /\ view' = Observe(view, milestone_approved(escrow.freelancer, i, net))
      BY <1>4, PublishFacts DEF approve_logged
  <2>2. escrow' # None
      BY <2>1, ApproveStep
  <2>3. escrow' = [escrow EXCEPT !.milestones = ms, !.status = st]
      BY <1>1, <2>1 DEF approve, EscrowData
  <2>4. view' = ViewOf(Paused, escrow.payer, escrow.freelancer, escrow.total_amount,
                       ms, st, escrow.releases_made)
      BY <1>2, <2>1 DEF ViewOf, Observe, milestone_approved
  <2> HIDE DEF ms, st
  <2>5. /\ escrow'.payer = escrow.payer /\ escrow'.freelancer = escrow.freelancer
        /\ escrow'.total_amount = escrow.total_amount /\ escrow'.milestones = ms
        /\ escrow'.status = st /\ escrow'.releases_made = escrow.releases_made
      BY <1>1, <2>3 DEF EscrowData
  <2> QED BY <1>1, <2>2, <2>4, <2>5 DEF Story
<1> QED BY <1>3, <1>4

(***************************************************************************)
(* release_recurring publishes the number of the release, and payment      *)
(* released too exactly when that completed the escrow.                    *)
(***************************************************************************)
LEMMA ReleaseTold ==
    ASSUME TypeOK, Story, release_recurring_logged
    PROVE  Story'
<1> DEFINE net == Net(escrow.amount)
           d == recurring_released(escrow.freelancer, net, escrow'.releases_made)
           e == payment_released(escrow.freelancer, net)
           v == ViewOf(Paused, escrow.payer, escrow.freelancer, escrow.total_amount,
                       escrow.milestones, escrow.status, escrow'.releases_made)
<1>1. /\ release_recurring
      /\ Publish(<<d>> \o IF escrow'.status = "Completed" THEN <<e>> ELSE << >>)
    BY DEF release_recurring_logged
<1>2. /\ escrow # None /\ escrow \in EscrowData /\ escrow' # None /\ Paused' = Paused
      /\ escrow.status = "Active"
    BY <1>1, ReleaseStep DEF release_recurring, TypeOK, Paused
<1>3. Observe(view, d) = v
    BY <1>2 DEF Story, ViewOf, Observe, recurring_released
<1>4. Observe(v, e) = ViewOf(Paused, escrow.payer, escrow.freelancer, escrow.total_amount,
                             escrow.milestones, "Completed", escrow'.releases_made)
    BY DEF ViewOf, Observe, payment_released
<1>5. /\ escrow'.payer = escrow.payer /\ escrow'.freelancer = escrow.freelancer
      /\ escrow'.total_amount = escrow.total_amount
      /\ escrow'.milestones = escrow.milestones
      /\ escrow'.status = "Completed" \/ escrow'.status = escrow.status
    BY <1>1, <1>2 DEF release_recurring, EscrowData
<1>6. CASE escrow'.status = "Completed"
  <2>1. Publish(<<d, e>>)
      BY <1>1, <1>6, EventPair
  <2>2. view' = Observe(Observe(view, d), e)
      BY <2>1, PublishFacts
  <2> QED BY <1>2, <1>3, <1>4, <1>5, <1>6, <2>2 DEF Story
<1>7. CASE escrow'.status # "Completed"
  <2>1. Publish(<<d>>)
      BY <1>1, <1>7, EventPair
  <2>2. view' = Observe(view, d)
      BY <2>1, PublishFacts
  <2> QED BY <1>2, <1>3, <1>5, <1>7, <2>2 DEF Story
<1> QED BY <1>6, <1>7

(***************************************************************************)
(* cancel, expire and the changes of role and deadline.                    *)
(***************************************************************************)
LEMMA OneEventTold ==
    ASSUME TypeOK, Story,
           \/ cancel_logged
           \/ expire_logged
           \/ \E f \in Accounts : transfer_freelancer_logged(f)
           \/ \E p \in Accounts : transfer_payer_logged(p)
           \/ \E d \in Deadlines : extend_deadline_logged(d)
    PROVE  Story'
<1>1. /\ escrow # None /\ escrow \in EscrowData /\ Paused' = Paused
    BY DEF TypeOK, Paused, cancel_logged, expire_logged, transfer_freelancer_logged,
           transfer_payer_logged, extend_deadline_logged, cancel, expire,
           transfer_freelancer, transfer_payer, extend_deadline
<1>2. view = ViewOf(Paused, escrow.payer, escrow.freelancer, escrow.total_amount,
                    escrow.milestones, escrow.status, escrow.releases_made)
    BY <1>1 DEF Story
<1>3. ASSUME cancel_logged PROVE Story'
  <2>1. cancel /\ view' = Observe(view, escrow_cancelled(escrow.payer, Remaining(escrow)))
      BY <1>3, PublishFacts DEF cancel_logged
  <2>2. escrow' # None /\ escrow' = [escrow EXCEPT !.status = "Cancelled"]
      BY <2>1, RefundStep DEF cancel, Refund
  <2>3. view' = ViewOf(Paused, escrow.payer, escrow.freelancer, escrow.total_amount,
                       escrow.milestones, "Cancelled", escrow.releases_made)
      BY <1>2, <2>1 DEF ViewOf, Observe, escrow_cancelled
  <2> QED BY <1>1, <2>2, <2>3 DEF Story, EscrowData
<1>4. ASSUME expire_logged PROVE Story'
  <2>1. expire /\ view' = Observe(view, escrow_expired(escrow.payer, Remaining(escrow)))
      BY <1>4, PublishFacts DEF expire_logged
  <2>2. escrow' # None /\ escrow' = [escrow EXCEPT !.status = "Expired"]
      BY <2>1, RefundStep DEF expire, Refund
  <2>3. view' = ViewOf(Paused, escrow.payer, escrow.freelancer, escrow.total_amount,
                       escrow.milestones, "Expired", escrow.releases_made)
      BY <1>2, <2>1 DEF ViewOf, Observe, escrow_expired
  <2> QED BY <1>1, <2>2, <2>3 DEF Story, EscrowData
<1>5. ASSUME NEW f \in Accounts, transfer_freelancer_logged(f) PROVE Story'
  <2>1. /\ transfer_freelancer(f)
        /\ view' = Observe(view, freelancer_transferred(escrow.freelancer, f))
      BY <1>5, PublishFacts DEF transfer_freelancer_logged
  <2>2. escrow' # None /\ escrow' = [escrow EXCEPT !.freelancer = f]
      BY <2>1, RoleStep DEF transfer_freelancer
  <2>3. view' = ViewOf(Paused, escrow.payer, f, escrow.total_amount,
                       escrow.milestones, escrow.status, escrow.releases_made)
      BY <1>2, <2>1 DEF ViewOf, Observe, freelancer_transferred
  <2> QED BY <1>1, <2>2, <2>3 DEF Story, EscrowData
<1>6. ASSUME NEW p \in Accounts, transfer_payer_logged(p) PROVE Story'
  <2>1. transfer_payer(p) /\ view' = Observe(view, payer_transferred(escrow.payer, p))
      BY <1>6, PublishFacts DEF transfer_payer_logged
  <2>2. escrow' # None /\ escrow' = [escrow EXCEPT !.payer = p]
      BY <2>1, RoleStep DEF transfer_payer
  <2>3. view' = ViewOf(Paused, p, escrow.freelancer, escrow.total_amount,
                       escrow.milestones, escrow.status, escrow.releases_made)
      BY <1>2, <2>1 DEF ViewOf, Observe, payer_transferred
  <2> QED BY <1>1, <2>2, <2>3 DEF Story, EscrowData
<1>7. ASSUME NEW d \in Deadlines, extend_deadline_logged(d) PROVE Story'
  <2>1. extend_deadline(d) /\ view' = Observe(view, deadline_extended(escrow.deadline, d))
      BY <1>7, PublishFacts DEF extend_deadline_logged
  <2>2. escrow' # None /\ escrow' = [escrow EXCEPT !.deadline = d]
      BY <2>1, RoleStep DEF extend_deadline
  <2>3. view' = view
      BY <2>1 DEF Observe, deadline_extended
  <2> QED BY <1>1, <1>2, <2>2, <2>3 DEF Story, EscrowData
<1> QED BY <1>3, <1>4, <1>5, <1>6, <1>7

(***************************************************************************)
(* No step, published or silent, leaves the view behind.                   *)
(***************************************************************************)
LEMMA StoryStep ==
    ASSUME TypeOK, Story, [EventNext]_evars
    PROVE  Story'
<1>1. CASE Silent
    BY <1>1 DEF Silent, CloseLedger, RestoreInstance, Story, Paused
<1>2. CASE \E from \in Accounts, amt \in Gifts : Donate_logged(from, amt)
    BY <1>2 DEF Donate_logged, Donate, Story, Paused
<1>3. CASE UNCHANGED evars
    BY <1>3 DEF evars, vars, Story, Paused
<1>4. CASE \E p, f \in Accounts, ms \in MilestoneVecs, d \in Deadlines \union {None},
              y \in Protocols, r \in Recurrences, a \in ReleaseAmounts :
                 create_logged(p, f, ms, d, y, r, a)
    BY <1>4, CreateTold
<1>5. CASE \E i \in MilestoneIndices : submit_work_logged(i) \/ approve_logged(i)
    BY <1>5, MilestoneTold
<1> QED
    BY <1>1, <1>2, <1>3, <1>4, <1>5, ConfigTold, ReleaseTold, OneEventTold DEF EventNext

(***************************************************************************)
(* The escrow contract runs under its observer as it runs alone.           *)
(***************************************************************************)
LEMMA EventsRunEscrow == EventSpec => Spec
<1>1. EventInit => Init
    BY DEF EventInit
<1> QED
    BY <1>1, EventStep, PTL DEF EventSpec, Spec

(***************************************************************************)
(* The events tell the whole story: at every moment and whatever was       *)
(* called, replaying what events.rs published gives the roles, milestones, *)
(* status, releases and pause switch that the contract has in storage.     *)
(***************************************************************************)
THEOREM AlwaysEventsTell == EventSpec => []EventsTell
<1>1. EventInit => Story
    BY DEF EventInit, Init, Story, ViewOf, Unseen, Paused
<1>2. TypeOK /\ Story /\ [EventNext]_evars => Story'
    BY StoryStep
<1>3. Story => EventsTell
  <2> SUFFICES ASSUME Story PROVE EventsTell
      OBVIOUS
  <2>1. CASE escrow = None
    <3>1. view = ViewOf(Paused, None, None, 0, << >>, "Active", 0)
        BY <2>1 DEF Story
    <3>2. [view EXCEPT !.paused = FALSE] = Unseen
      <4>1. Observe(view, contract_unpaused(None))
               = ViewOf(FALSE, None, None, 0, << >>, "Active", 0)
          BY <3>1 DEF ViewOf, Observe, contract_unpaused
      <4>2. Observe(view, contract_unpaused(None)) = [view EXCEPT !.paused = FALSE]
          BY DEF Observe, contract_unpaused
      <4> QED BY <4>1, <4>2 DEF ViewOf, Unseen
    <3>3. view.paused = Paused
        BY <3>1 DEF ViewOf
    <3> QED BY <2>1, <3>2, <3>3 DEF EventsTell
  <2>2. CASE escrow # None
      BY <2>2 DEF Story, EventsTell, ViewOf
  <2> QED BY <2>1, <2>2
<1> QED
    BY <1>1, <1>2, <1>3, EventsRunEscrow, TypeCorrect, PTL DEF EventSpec

-----------------------------------------------------------------------------
(* What the observer knows of the accounts *)

ToldInv == told \in [Accounts -> Int] /\ WalletsTold

\* The collector of fees, once there is one.
Collects(h) == config # None /\ config.fee_collector = h

(***************************************************************************)
(* It is enough that a step tells every account's balance change, except   *)
(* that it may leave out what the fee collector receives.                  *)
(***************************************************************************)
LEMMA ChangesTold ==
    ASSUME TypeOK, TypeOK', ToldInv, told' \in [Accounts -> Int],
           \A h \in Accounts :
              /\ Collects(h) => bal'[h] - bal[h] >= told'[h] - told[h]
              /\ ~ Collects(h) => bal'[h] - bal[h] = told'[h] - told[h],
           config # None => config' # None /\ config'.fee_collector = config.fee_collector
    PROVE  ToldInv'
<1>1. ASSUME NEW h \in Accounts
      PROVE  IF config' # None /\ config'.fee_collector = h
             THEN bal'[h] >= told'[h] ELSE bal'[h] = told'[h]
  <2>1. bal[h] \in Int /\ bal'[h] \in Int /\ told[h] \in Int /\ told'[h] \in Int
      BY DEF TypeOK, ToldInv, Holders
  <2>2. IF Collects(h) THEN bal[h] >= told[h] ELSE bal[h] = told[h]
      BY DEF ToldInv, WalletsTold, Collects
  <2>3. Collects(h) => config' # None /\ config'.fee_collector = h
      BY DEF Collects
  <2>4. CASE Collects(h)
      BY <2>1, <2>2, <2>3, <2>4
  <2>5. CASE ~ Collects(h)
    <3>1. bal'[h] = told'[h]
        BY <2>1, <2>2, <2>5
    <3> QED BY <2>1, <3>1
  <2> QED BY <2>4, <2>5
<1> QED BY <1>1 DEF ToldInv, WalletsTold

(***************************************************************************)
(* Of a payment the events tell what the freelancer receives, net of fee.  *)
(***************************************************************************)
LEMMA PaymentTold ==
    ASSUME TypeOK, TypeOK', ToldInv, escrow # None, NEW amount \in Nat, PayOut(amount),
           config' = config,
           told' = [h \in Accounts |->
                      told[h] + IF escrow.freelancer = h THEN Net(amount) ELSE 0]
    PROVE  ToldInv'
<1>1. /\ FeeOf(amount) \in 0..amount
      /\ FeeOf(amount) > 0 => config # None
      /\ \A h \in Accounts :
            bal'[h] = bal[h] + (IF FeeOf(amount) > 0 /\ h = config.fee_collector
                                THEN FeeOf(amount) ELSE 0)
                             + (IF h = escrow.freelancer THEN amount - FeeOf(amount) ELSE 0)
    BY PaymentSplit
<1>2. \A h \in Accounts : bal[h] \in Int /\ told[h] \in Int
    BY DEF TypeOK, ToldInv, Holders
<1>3. Net(amount) = amount - FeeOf(amount) /\ Net(amount) \in Int /\ FeeOf(amount) \in Nat
    BY <1>1 DEF Net
<1>4. told' \in [Accounts -> Int]
    BY <1>2, <1>3
<1>5. ASSUME NEW h \in Accounts
      PROVE  /\ Collects(h) => bal'[h] - bal[h] >= told'[h] - told[h]
             /\ ~ Collects(h) => bal'[h] - bal[h] = told'[h] - told[h]
  <2>1. told'[h] = told[h] + IF escrow.freelancer = h THEN Net(amount) ELSE 0
      OBVIOUS
  <2>2. FeeOf(amount) > 0 /\ h = config.fee_collector => Collects(h)
      BY <1>1 DEF Collects
  <2> QED BY <1>1, <1>2, <1>3, <2>1, <2>2
<1> QED BY <1>4, <1>5, ChangesTold

(***************************************************************************)
(* The payments of approve and release_recurring are told once each.       *)
(***************************************************************************)
LEMMA PaymentsTold ==
    ASSUME TypeOK, TypeOK', ToldInv,
           (\E i \in MilestoneIndices : approve_logged(i)) \/ release_recurring_logged
    PROVE  ToldInv'
<1>1. ASSUME NEW i \in MilestoneIndices, approve_logged(i) PROVE ToldInv'
  <2> DEFINE amount == escrow.milestones[i].amount
             e == milestone_approved(escrow.freelancer, i, Net(amount))
  <2>1. approve(i) /\ told' = [h \in Accounts |-> told[h] + ToldTo(h, e)]
      BY <1>1, PublishFacts DEF approve_logged
  <2>2. \A h : ToldTo(h, e) = IF escrow.freelancer = h THEN Net(amount) ELSE 0
      BY DEF ToldTo, milestone_approved
  <2>3. escrow # None /\ amount \in Nat /\ PayOut(amount) /\ config' = config
      BY <2>1, ApproveStep DEF approve
  <2> HIDE DEF amount, e
  <2> QED BY <2>1, <2>2, <2>3, PaymentTold
<1>2. ASSUME release_recurring_logged PROVE ToldInv'
  <2> DEFINE net == Net(escrow.amount)
             d == recurring_released(escrow.freelancer, net, escrow'.releases_made)
             e == payment_released(escrow.freelancer, net)
  <2>1. /\ release_recurring
        /\ Publish(<<d>> \o IF escrow'.status = "Completed" THEN <<e>> ELSE << >>)
      BY <1>2 DEF release_recurring_logged
  <2>2. \A h : /\ ToldTo(h, d) = IF escrow.freelancer = h THEN net ELSE 0
               /\ ToldTo(h, e) = 0
      BY DEF ToldTo, recurring_released, payment_released
  <2>3. /\ escrow # None /\ escrow.amount \in Nat /\ PayOut(escrow.amount)
        /\ config' = config
      BY <2>1, ReleaseStep DEF release_recurring, TypeOK, EscrowData
  <2>4. net \in Int /\ \A h \in Accounts : told[h] \in Int
      BY <2>3, PaymentSplit DEF Net, ToldInv
  <2> HIDE DEF d, e
  <2>5. Publish(<<d>>) \/ Publish(<<d, e>>)
      BY <2>1, EventPair
  <2>6. told' = [h \in Accounts |-> told[h] + ToldTo(h, d)]
    <3>1. ASSUME NEW h \in Accounts
          PROVE  (told[h] + ToldTo(h, d)) + ToldTo(h, e) = told[h] + ToldTo(h, d)
        BY <2>2, <2>4
    <3>2. CASE Publish(<<d>>)
        BY <3>2, PublishFacts, Zenon
    <3>3. CASE Publish(<<d, e>>)
      <4>1. told' = [h \in Accounts |-> (told[h] + ToldTo(h, d)) + ToldTo(h, e)]
          BY <3>3, PublishFacts, Zenon
      <4> QED BY <3>1, <4>1
    <3> QED BY <2>5, <3>2, <3>3
  <2> QED BY <2>2, <2>3, <2>6, PaymentTold
<1> QED BY <1>1, <1>2

(***************************************************************************)
(* The refund is told with its amount.                                     *)
(***************************************************************************)
LEMMA RefundTold ==
    ASSUME TypeOK, TypeOK', ToldInv, cancel_logged \/ expire_logged
    PROVE  ToldInv'
<1> DEFINE r == Remaining(escrow)
<1>1. PICK e \in {escrow_cancelled(escrow.payer, r), escrow_expired(escrow.payer, r)} :
         (cancel \/ expire) /\ told' = [h \in Accounts |-> told[h] + ToldTo(h, e)]
    BY PublishFacts DEF cancel_logged, expire_logged
<1>2. \A h : ToldTo(h, e) = IF escrow.payer = h THEN r ELSE 0
    BY <1>1 DEF ToldTo, escrow_cancelled, escrow_expired
<1>3. /\ escrow # None /\ config' = config /\ escrow.payer \in Accounts
      /\ bal' = Transfer(bal, Contract, escrow.payer, r)
    BY <1>1 DEF cancel, expire, Refund, TypeOK, EscrowData
<1>4. r \in Int
    BY <1>3, RemainingFacts
<1>5. /\ bal \in [Holders -> Nat] /\ Accounts \subseteq Holders /\ Contract \notin Accounts
      /\ \A h \in Accounts : bal[h] \in Int /\ told[h] \in Int
    BY AddressAssumption DEF TypeOK, ToldInv, Holders
<1> HIDE DEF r
<1>6. \A h \in Accounts : bal'[h] = bal[h] + IF escrow.payer = h THEN r ELSE 0
    BY <1>3, <1>4, <1>5 DEF Transfer
<1>7. told' \in [Accounts -> Int] /\ \A h \in Accounts : bal'[h] - bal[h] = told'[h] - told[h]
    BY <1>1, <1>2, <1>4, <1>5, <1>6
<1>8. \A h \in Accounts : bal'[h] - bal[h] \in Int
    BY <1>4, <1>5, <1>6
<1> QED BY <1>3, <1>7, <1>8, ChangesTold

(***************************************************************************)
(* create's events tell what the payer locks, with and without a deposit.  *)
(***************************************************************************)
LEMMA DepositTold ==
    ASSUME TypeOK, TypeOK', ToldInv,
           NEW p \in Accounts, NEW f \in Accounts, NEW ms \in MilestoneVecs,
           NEW d \in Deadlines \union {None}, NEW y \in Protocols,
           NEW r \in Recurrences, NEW a \in ReleaseAmounts,
           create_logged(p, f, ms, d, y, r, a)
    PROVE  ToldInv'
<1> DEFINE t == Total(ms)
           c == escrow_created(p, f, t, ms)
           x == yield_deposited(y, t)
<1>1. /\ create(p, f, ms, d, y, r, a)
      /\ Publish((IF y = None THEN << >> ELSE <<x>>) \o <<c>>)
    BY DEF create_logged
<1>2. \A h : ToldTo(h, c) = (IF p = h THEN -t ELSE 0) /\ ToldTo(h, x) = 0
    BY DEF ToldTo, escrow_created, yield_deposited
<1>3. t \in Int /\ config' = config
    BY <1>1, AmountAssumption, SumTypes DEF create
<1>4. /\ bal \in [Holders -> Nat] /\ Accounts \subseteq Holders /\ Contract \in Holders
      /\ Contract \notin Accounts
      /\ \A h \in Accounts : bal[h] \in Int /\ told[h] \in Int
  <2>1. bal \in [Holders -> Nat] /\ told \in [Accounts -> Int]
      BY DEF TypeOK, ToldInv
  <2>2. Accounts \subseteq Holders /\ Contract \in Holders /\ Contract \notin Accounts
      BY AddressAssumption DEF Holders
  <2> QED BY <2>1, <2>2
<1>5. bal' = Transfer(bal, p, Contract, t)
    BY <1>1 DEF create
<1> HIDE DEF t, c, x
<1>6. \A h \in Accounts : bal'[h] = bal[h] + IF p = h THEN -t ELSE 0
    BY <1>3, <1>4, <1>5 DEF Transfer
<1>7. told' = [h \in Accounts |-> told[h] + ToldTo(h, c)]
  <2>1. Publish(<<c>>) \/ Publish(<<x, c>>)
      BY <1>1, EventPair
  <2>2. \A h \in Accounts : (told[h] + ToldTo(h, x)) + ToldTo(h, c) = told[h] + ToldTo(h, c)
      BY <1>2, <1>4
  <2> QED BY <2>1, <2>2, PublishFacts
<1>8. /\ told' \in [Accounts -> Int]
      /\ \A h \in Accounts : bal'[h] - bal[h] = told'[h] - told[h] /\ bal'[h] - bal[h] \in Int
    BY <1>2, <1>3, <1>4, <1>6, <1>7
<1> QED BY <1>3, <1>8, ChangesTold

(***************************************************************************)
(* Calls that move no tokens tell of none.                                 *)
(***************************************************************************)
LEMMA NothingTold ==
    ASSUME TypeOK, TypeOK', ToldInv,
           \/ \E a, c \in Accounts, f \in FeeRates : init_logged(a, f, c)
           \/ pause_logged
           \/ unpause_logged
           \/ \E i \in MilestoneIndices : submit_work_logged(i)
           \/ \E f \in Accounts : transfer_freelancer_logged(f)
           \/ \E p \in Accounts : transfer_payer_logged(p)
           \/ \E d \in Deadlines : extend_deadline_logged(d)
           \/ Silent
           \/ UNCHANGED evars
    PROVE  ToldInv'
<1>1. \A h, x, y :
         /\ ToldTo(h, contract_paused(x)) = 0 /\ ToldTo(h, contract_unpaused(x)) = 0
         /\ ToldTo(h, milestone_submitted(x, y)) = 0
         /\ ToldTo(h, freelancer_transferred(x, y)) = 0
         /\ ToldTo(h, payer_transferred(x, y)) = 0
         /\ ToldTo(h, deadline_extended(x, y)) = 0
    BY DEF ToldTo, contract_paused, contract_unpaused, milestone_submitted,
           freelancer_transferred, payer_transferred, deadline_extended
<1>2. /\ told \in [Accounts -> Int]
      /\ \A e : (\A h : ToldTo(h, e) = 0) => [h \in Accounts |-> told[h] + ToldTo(h, e)] = told
    BY DEF ToldInv
<1>3. \A e : Publish(<<e>>) /\ (\A h : ToldTo(h, e) = 0) => told' = told
  <2> SUFFICES ASSUME NEW e, Publish(<<e>>), \A h : ToldTo(h, e) = 0 PROVE told' = told
      OBVIOUS
  <2>1. told' = [h \in Accounts |-> told[h] + ToldTo(h, e)]
      BY PublishFacts
  <2> QED BY <1>2, <2>1
<1>4. told' = told /\ bal' = bal
      /\ (config # None => config' # None /\ config'.fee_collector = config.fee_collector)
  <2>1. CASE \E a, c \in Accounts, f \in FeeRates : init_logged(a, f, c)
      BY <2>1, PublishFacts DEF init_logged, init
  <2>2. CASE pause_logged \/ unpause_logged
    <3>1. /\ told' = told /\ bal' = bal /\ config # None /\ config \in ProtocolConfig
          /\ \E z \in BOOLEAN : config' = [config EXCEPT !.paused = z]
        BY <2>2, <1>1, <1>3 DEF pause_logged, unpause_logged, pause, unpause, TypeOK
    <3>2. config' \in ProtocolConfig /\ config'.fee_collector = config.fee_collector
        BY <3>1 DEF ProtocolConfig
    <3> QED BY <3>1, <3>2, AddressAssumption
  <2>3. CASE \E i \in MilestoneIndices : submit_work_logged(i)
      BY <2>3, <1>1, <1>3 DEF submit_work_logged, submit_work
  <2>4. CASE \E f \in Accounts : transfer_freelancer_logged(f)
      BY <2>4, <1>1, <1>3 DEF transfer_freelancer_logged, transfer_freelancer
  <2>5. CASE \E p \in Accounts : transfer_payer_logged(p)
      BY <2>5, <1>1, <1>3 DEF transfer_payer_logged, transfer_payer
  <2>6. CASE \E d \in Deadlines : extend_deadline_logged(d)
      BY <2>6, <1>1, <1>3 DEF extend_deadline_logged, extend_deadline
  <2>7. CASE Silent \/ UNCHANGED evars
      BY <2>7 DEF Silent, CloseLedger, RestoreInstance, evars, vars
  <2> QED BY <2>1, <2>2, <2>3, <2>4, <2>5, <2>6, <2>7
<1>5. \A h \in Accounts : bal'[h] - bal[h] = 0 /\ told'[h] - told[h] = 0
    BY <1>2, <1>4 DEF TypeOK, Holders
<1> QED BY <1>2, <1>4, <1>5, ChangesTold

(***************************************************************************)
(* The token itself reports a donation.                                    *)
(***************************************************************************)
LEMMA DonationTold ==
    ASSUME TypeOK, TypeOK', ToldInv,
           NEW from \in Accounts, NEW amt \in Gifts, Donate_logged(from, amt)
    PROVE  ToldInv'
<1>1. /\ bal \in [Holders -> Nat] /\ Accounts \subseteq Holders /\ Contract \notin Accounts
      /\ told \in [Accounts -> Int] /\ amt \in Nat
      /\ \A h \in Accounts : bal[h] \in Int /\ told[h] \in Int
    BY AddressAssumption, AmountAssumption DEF TypeOK, ToldInv, Holders
<1>2. /\ bal' = Transfer(bal, from, Contract, amt) /\ config' = config
      /\ told' = [told EXCEPT ![from] = told[from] - amt]
    BY DEF Donate_logged, Donate
<1>3. \A h \in Accounts : /\ bal'[h] = bal[h] - (IF h = from THEN amt ELSE 0)
                          /\ told'[h] = told[h] - (IF h = from THEN amt ELSE 0)
    BY <1>1, <1>2 DEF Transfer
<1>4. /\ told' \in [Accounts -> Int]
      /\ \A h \in Accounts : bal'[h] - bal[h] = told'[h] - told[h] /\ bal'[h] - bal[h] \in Int
    BY <1>1, <1>2, <1>3
<1> QED BY <1>2, <1>4, ChangesTold

(***************************************************************************)
(* The events account for every token an account paid or received, for any *)
(* fees, roles, recurring releases, yield deposits and donations: only the *)
(* fee collector may own more than they say, by fees no event tells of.    *)
(***************************************************************************)
THEOREM AlwaysWalletsTold == EventSpec => []WalletsTold
<1>1. EventInit => ToldInv
    BY AmountAssumption DEF EventInit, Init, ToldInv, WalletsTold, Holders
<1>2. TypeOK /\ ToldInv /\ [EventNext]_evars => ToldInv'
  <2> SUFFICES ASSUME TypeOK, ToldInv, [EventNext]_evars PROVE ToldInv'
      OBVIOUS
  <2>1. TypeOK'
      BY EventStep, TypeStep
  <2>2. CASE \E p, f \in Accounts, ms \in MilestoneVecs, d \in Deadlines \union {None},
                y \in Protocols, r \in Recurrences, a \in ReleaseAmounts :
                   create_logged(p, f, ms, d, y, r, a)
      BY <2>1, <2>2, DepositTold
  <2>3. CASE \E from \in Accounts, amt \in Gifts : Donate_logged(from, amt)
      BY <2>1, <2>3, DonationTold
  <2>4. CASE (\E i \in MilestoneIndices : approve_logged(i)) \/ release_recurring_logged
      BY <2>1, <2>4, PaymentsTold
  <2>5. CASE cancel_logged \/ expire_logged
      BY <2>1, <2>5, RefundTold
  <2> QED BY <2>1, <2>2, <2>3, <2>4, <2>5, NothingTold DEF EventNext
<1>3. ToldInv => WalletsTold
    BY DEF ToldInv
<1> QED
    BY <1>1, <1>2, <1>3, EventsRunEscrow, TypeCorrect, PTL DEF EventSpec
=============================================================================
