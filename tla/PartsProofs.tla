----------------------------- MODULE PartsProofs -----------------------------
(***************************************************************************)
(* Proofs about the smaller parts: the rotation among profiles and the     *)
(* killing of process trees.  At the end, all parts beside each other: the *)
(* composition in MCParts is a behaviour of each of them, so that what is  *)
(* proved of a part holds in the run that checks them together.            *)
(***************************************************************************)
EXTENDS MCParts, ProfileRotation, ProfileLifecycleProofs, IdempotentStartProofs, OutputPagingProofs, AtomicStoreProofs,
        SettingsSyncProofs

(***************************************************************************)
(* The rotation is fair for any number of profiles.                        *)
(***************************************************************************)
\* Between a name and itself, and nowhere else, lie all the others.
LEMMA BetweenShrinks ==
    ASSUME NEW c \in Nat, NEW n \in Places, NEW m \in Places, n \in Between(c, m)
    PROVE  /\ Between(n, m) \subseteq Between(c, m) \ {n}
           /\ n # m
BY RotationAssumption DEF Between, Places

\* A name that is not ahead of another one lies behind it, seen from the cursor.
LEMMA AheadOrBehind ==
    ASSUME NEW c \in Nat, NEW n \in Places, NEW m \in Places, n # m, m \notin Between(c, n)
    PROVE  n \in Between(c, m)
BY RotationAssumption DEF Between, Places

\* What a caller may be.
CallerRecords == [on : BOOLEAN, tries : 0 .. Retries, unseen : SUBSET Places]

\* The steps that select nobody leave or shorten what callers overlook.
CallersFit ==
    /\ caller \in [Callers -> CallerRecords]
    /\ \A c \in Callers : caller[c].unseen \subseteq ready /\ (~caller[c].on => caller[c] = Away)

LEMMA ForgottenFits ==
    ASSUME RotationInv, NEW n \in Places, NoticedByAll(n), Forgotten(n), ready' = ready \ {n},
           profiles' \subseteq Places, ready' \subseteq profiles', routed' = routed
    PROVE  RotationInv'
<1> USE RotationAssumption DEF RotationInv
<1>1. \A m \in Places : Between(routed, m) \subseteq Places
  BY DEF Between
<1>2. ASSUME NEW c \in Callers
      PROVE  /\ caller'[c] \in CallerRecords
             /\ caller'[c].on = caller[c].on /\ caller'[c].tries = caller[c].tries
             /\ caller'[c].unseen = caller[c].unseen \ {n}
             /\ ~caller[c].on => caller'[c] = Away
  <2>1. caller[c] \in CallerRecords
    BY DEF CallerRecords
  <2>2. caller'[c] = [caller[c] EXCEPT !.unseen = @ \ {n}]
    BY DEF NoticedByAll
  <2>3. caller'[c] \in CallerRecords /\ caller'[c].on = caller[c].on
        /\ caller'[c].tries = caller[c].tries /\ caller'[c].unseen = caller[c].unseen \ {n}
    BY <2>1, <2>2 DEF CallerRecords
  <2>4. ASSUME ~caller[c].on PROVE caller'[c] = Away
    <3>1. caller[c].on = FALSE /\ caller[c].tries = 0 /\ caller[c].unseen = {}
      BY <2>1, <2>4 DEF Away, CallerRecords
    <3> QED
      BY <2>3, <3>1 DEF Away, CallerRecords
  <2> QED
    BY <2>3, <2>4
<1>3. CallersFit'
  BY <1>2 DEF NoticedByAll, CallersFit, CallerRecords
<1>4. /\ passed' \in [Places -> [Places -> {0, 1}]]
      /\ overlooked' \in [Places -> [Callers -> 0 .. Retries]]
  BY DEF Forgotten
<1>5. ASSUME NEW m \in Places, NEW c \in Callers, m \in caller'[c].unseen
      PROVE  overlooked'[m][c] <= caller'[c].tries
  BY <1>2, <1>5 DEF Forgotten
<1>6. \A m \in Places : /\ m \notin ready' => /\ \A k \in Places : passed'[m][k] = 0
                                             /\ \A c \in Callers : overlooked'[m][c] = 0
                        /\ \A k \in Between(routed, m) : passed'[m][k] = 0
  BY <1>1 DEF Forgotten
<1> QED
  BY <1>3, <1>4, <1>5, <1>6 DEF CallersFit, CallerRecords

\* A selection passes nobody twice in a round.
LEMMA PassesFit ==
    ASSUME RotationInv, NEW c \in Callers, NEW n \in Places, SelectsTurn(c, n)
    PROVE  /\ passed' \in [Places -> [Places -> {0, 1}]]
           /\ \A m \in Places : /\ m \notin ready => \A k \in Places : passed'[m][k] = 0
                                /\ \A k \in Between(n, m) : passed'[m][k] = 0
<1> USE RotationAssumption DEF RotationInv
<1>1. n \in ready /\ Between(Origin, n) \cap Seen(c) = {}
  BY DEF SelectsTurn, IsNext, Seen
<1>2. ASSUME NEW m \in Places, m = n \/ m \notin ready
      PROVE  passed'[m] = [k \in Places |-> 0]
  BY <1>2 DEF SelectsTurn, Passes
<1>3. ASSUME NEW m \in ready, m # n
      PROVE  /\ passed'[m] \in [Places -> {0, 1}]
             /\ \A k \in Between(n, m) : passed'[m][k] = 0
  <2>1. m \in Places /\ passed[m] \in [Places -> {0, 1}]
    OBVIOUS
  <2>2. CASE routed \in profiles /\ ~Overlooks(c, m, n)
    <3>1. m \notin Between(routed, n)
      BY <1>1, <1>3, <2>2 DEF Overlooks, Origin, Seen
    <3>2. n \in Between(routed, m)
      BY <3>1, <1>3, <2>1, AheadOrBehind DEF Places
    <3>3. passed[m][n] = 0 /\ \A k \in Between(n, m) : k # n /\ passed[m][k] = 0
      BY <3>2, <2>1, BetweenShrinks DEF Places
    <3>4. passed'[m] = [k \in Places |-> (IF k = n THEN 1 ELSE 0) + passed[m][k]]
      BY <2>1, <2>2, <1>3 DEF SelectsTurn, Passes
    <3>5. Between(n, m) \subseteq Places
      BY DEF Between
    <3>6. \A k \in Places : passed'[m][k] = (IF k = n THEN 1 ELSE 0) + passed[m][k]
      BY <3>4
    <3>7. \A k \in Places : passed'[m][k] \in {0, 1}
      BY <2>1, <3>3, <3>6
    <3>8. \A k \in Between(n, m) : passed'[m][k] = 0
      BY <3>3, <3>5, <3>6
    <3> QED
      BY <3>4, <3>7, <3>8
  <2>3. CASE ~(routed \in profiles /\ ~Overlooks(c, m, n))
    <3>1. passed'[m] = [k \in Places |-> (IF k = n THEN 1 ELSE 0) + 0]
      BY <2>1, <2>3, <1>3 DEF SelectsTurn, Passes
    <3>2. Between(n, m) \subseteq Places \ {n}
      BY <2>1 DEF Between, Places
    <3> QED
      BY <3>1, <3>2
  <2> QED
    BY <2>2, <2>3
<1>4. passed' = [m \in Places |-> passed'[m]]
  BY DEF SelectsTurn, Passes
<1>5. \A m \in Places : Between(n, m) \subseteq Places
  BY DEF Between
<1>6. \A m \in Places : /\ passed'[m] \in [Places -> {0, 1}]
                        /\ m \notin ready => \A k \in Places : passed'[m][k] = 0
                        /\ \A k \in Between(n, m) : passed'[m][k] = 0
  BY <1>1, <1>2, <1>3, <1>5
<1> QED
  BY <1>4, <1>6

\* Each try of a call overlooks a name at most once.
LEMMA MissesFit ==
    ASSUME RotationInv, NEW c \in Callers, NEW n \in Places, SelectsTurn(c, n)
    PROVE  /\ CallersFit'
           /\ overlooked' \in [Places -> [Callers -> 0 .. Retries]]
           /\ \A m \in Places, d \in Callers :
                 /\ m \notin ready => overlooked'[m][d] = 0
                 /\ m \in caller'[d].unseen => overlooked'[m][d] <= caller'[d].tries
<1> USE RotationAssumption DEF RotationInv
<1>0. caller[c] \in CallerRecords /\ caller[c].on /\ caller[c].tries + 1 \in 0 .. Retries
  BY DEF SelectsTurn, CallerRecords
<1>1. /\ caller' \in [Callers -> CallerRecords]
      /\ \A d \in Callers : d # c => caller'[d] = caller[d]
      /\ caller'[c].on = caller[c].on /\ caller'[c].unseen = caller[c].unseen
      /\ caller'[c].tries = caller[c].tries + 1
  BY <1>0 DEF SelectsTurn, CallerRecords
<1>2. CallersFit'
  BY <1>0, <1>1 DEF CallersFit, SelectsTurn
<1>3. ASSUME NEW m \in Places, NEW d \in Callers
      PROVE  /\ overlooked'[m][d] \in 0 .. Retries
             /\ m \notin ready => overlooked'[m][d] = 0
             /\ m \in caller'[d].unseen => overlooked'[m][d] <= caller'[d].tries
  <2>0. overlooked[m][d] \in 0 .. Retries /\ caller[d].tries \in 0 .. Retries
        /\ (m \in caller[d].unseen => overlooked[m][d] <= caller[d].tries)
    OBVIOUS
  <2>00. caller'[d].unseen = caller[d].unseen /\ caller'[d].tries \in Nat /\ caller'[d].tries >= caller[d].tries
    BY <1>0, <1>1, <2>0
  <2>1. CASE m = n \/ m \notin ready
    <3>1. overlooked'[m][d] = 0
      BY <2>1 DEF SelectsTurn, Misses
    <3> QED
      BY <2>0, <2>00, <3>1
  <2>2. CASE ~(m = n \/ m \notin ready) /\ d = c /\ Overlooks(c, m, n)
    <3>1. overlooked'[m][d] = overlooked[m][d] + 1
      BY <2>0, <2>2 DEF SelectsTurn, Misses
    <3>2. m \in caller[c].unseen
      BY <2>2 DEF Overlooks
    <3> QED
      BY <1>0, <1>1, <2>0, <2>2, <3>1, <3>2
  <2>3. CASE ~(m = n \/ m \notin ready) /\ ~(d = c /\ Overlooks(c, m, n))
    <3>1. overlooked'[m][d] = overlooked[m][d]
      BY <2>0, <2>3 DEF SelectsTurn, Misses
    <3> QED
      BY <2>0, <2>00, <2>3, <3>1
  <2> QED
    BY <2>1, <2>2, <2>3
<1>4. overlooked' = [m \in Places |-> [d \in Callers |-> overlooked'[m][d]]]
  BY DEF SelectsTurn, Misses
<1> QED
  BY <1>2, <1>3, <1>4

\* No step changes the invariant.
LEMMA RotationStep == RotationInv /\ [RotationNext]_rotationVars => RotationInv'
<1> SUFFICES ASSUME RotationInv, [RotationNext]_rotationVars
             PROVE  RotationInv'
  OBVIOUS
<1> USE RotationAssumption
<1>1. ASSUME NEW c \in Callers, NEW n \in Places, SelectsTurn(c, n) PROVE RotationInv'
  <2>1. profiles' = profiles /\ ready' = ready /\ routed' = n
    BY <1>1 DEF SelectsTurn
  <2> QED
    BY <1>1, <2>1, PassesFit, MissesFit DEF RotationInv, CallersFit, CallerRecords
<1>2. ASSUME NEW c \in Callers, Arrives(c) \/ Departs(c) PROVE RotationInv'
  <2> DEFINE r == IF Arrives(c) THEN [on |-> TRUE, tries |-> 0, unseen |-> {}] ELSE Away
  <2>1. r \in CallerRecords /\ r.unseen = {} /\ (~r.on => r = Away)
    BY DEF Away, CallerRecords
  <2>2. caller' = [caller EXCEPT ![c] = r]
    BY <1>2 DEF Arrives, Departs
  <2> HIDE DEF r
  <2>3. caller \in [Callers -> CallerRecords]
    BY DEF RotationInv, CallerRecords
  <2>4. caller' \in [Callers -> CallerRecords] /\ caller'[c] = r
        /\ \A d \in Callers : d # c => caller'[d] = caller[d]
    BY <2>1, <2>2, <2>3
  <2>5. UNCHANGED <<profiles, ready, routed, passed, overlooked>>
    BY <1>2 DEF Arrives, Departs
  <2>6. CallersFit'
    BY <2>1, <2>4, <2>5 DEF RotationInv, CallersFit
  <2>7. \A m \in Places, d \in Callers :
            m \in caller'[d].unseen => overlooked'[m][d] <= caller'[d].tries
    BY <2>1, <2>4, <2>5 DEF RotationInv
  <2> QED
    BY <2>5, <2>6, <2>7 DEF RotationInv, CallersFit, CallerRecords
<1>3. ASSUME NEW n \in Places, BecomesReady(n) PROVE RotationInv'
  <2>1. PICK slow \in SUBSET {c \in Callers : caller[c].on} :
            caller' = [c \in Callers |->
                IF c \in slow THEN [caller[c] EXCEPT !.unseen = @ \cup {n}] ELSE caller[c]]
    BY <1>3 DEF BecomesReady
  <2>2. ASSUME NEW c \in Callers
        PROVE  /\ caller'[c] \in CallerRecords
               /\ caller'[c].on = caller[c].on /\ caller'[c].tries = caller[c].tries
               /\ caller'[c].unseen \subseteq caller[c].unseen \cup {n}
               /\ ~caller[c].on => caller'[c] = Away
    <3>1. caller[c] \in CallerRecords /\ (~caller[c].on => caller[c] = Away /\ c \notin slow)
      BY DEF RotationInv, CallerRecords
    <3>2. CASE c \in slow
      <4>1. caller'[c] = [caller[c] EXCEPT !.unseen = @ \cup {n}]
        BY <2>1, <3>2
      <4> QED
        BY <3>1, <3>2, <4>1 DEF CallerRecords
    <3>3. CASE c \notin slow
      <4>1. caller'[c] = caller[c]
        BY <2>1, <3>3
      <4> QED
        BY <3>1, <4>1
    <3> QED
      BY <3>2, <3>3
  <2>3. CallersFit'
    BY <1>3, <2>1, <2>2 DEF CallersFit, BecomesReady, RotationInv
  <2>4. ASSUME NEW m \in Places, NEW c \in Callers, m \in caller'[c].unseen
        PROVE  overlooked'[m][c] <= caller'[c].tries
    <3>1. caller[c].tries \in Nat
      BY DEF RotationInv
    <3> QED
      BY <1>3, <2>2, <2>4, <3>1 DEF RotationInv, BecomesReady
  <2> QED
    BY <1>3, <2>3, <2>4 DEF RotationInv, BecomesReady, CallersFit, CallerRecords
<1>4. ASSUME NEW n \in Places, BecomesSeen(n) PROVE RotationInv'
  <2>1. ASSUME NEW c \in Callers
        PROVE  /\ caller'[c] \in CallerRecords
               /\ caller'[c].tries = caller[c].tries
               /\ caller'[c].unseen \subseteq caller[c].unseen
               /\ ~caller'[c].on => caller'[c] = Away
    <3>1. caller[c] \in CallerRecords /\ (~caller[c].on => caller[c] = Away)
      BY DEF RotationInv, CallerRecords
    <3>2. caller'[c] = [caller[c] EXCEPT !.unseen = @ \ {n}]
      BY <1>4 DEF BecomesSeen, NoticedByAll
    <3>3. /\ caller'[c] \in CallerRecords /\ caller'[c].on = caller[c].on
          /\ caller'[c].tries = caller[c].tries /\ caller'[c].unseen \subseteq caller[c].unseen
      BY <3>1, <3>2 DEF CallerRecords
    <3>4. ASSUME ~caller[c].on PROVE caller'[c] = Away
      <4>1. caller[c].on = FALSE /\ caller[c].tries = 0 /\ caller[c].unseen = {}
        BY <3>1, <3>4 DEF Away, CallerRecords
      <4> QED
        BY <3>3, <4>1 DEF Away, CallerRecords
    <3> QED
      BY <3>3, <3>4
  <2>2. caller' \in [Callers -> CallerRecords]
    BY <1>4, <2>1 DEF BecomesSeen, NoticedByAll
  <2> QED
    BY <1>4, <2>1, <2>2 DEF RotationInv, BecomesSeen, CallerRecords
<1>5. ASSUME NEW n \in Places, BecomesUnready(n) PROVE RotationInv'
  BY <1>5, ForgottenFits DEF BecomesUnready, RotationInv
<1>6. ASSUME NEW n \in Places, Unregistered(n) PROVE RotationInv'
  BY <1>6, ForgottenFits DEF Unregistered, RotationInv
<1>7. CASE UNCHANGED rotationVars
  BY <1>7 DEF rotationVars, RotationInv
<1>8. QED
  BY <1>1, <1>2, <1>3, <1>4, <1>5, <1>6, <1>7 DEF RotationNext

LEMMA InitRotation == RotationInit => RotationInv
<1>1. \A m \in Places : Between(0, m) \subseteq Places
  BY DEF Between
<1> QED
  BY <1>1, RotationAssumption DEF RotationInit, RotationInv, Away

\* RotationInv holds in every state.
THEOREM RotationInvariance == RotationSpec => []RotationInv
<1>1. RotationInit => RotationInv
  BY InitRotation
<1>2. QED
  BY <1>1, RotationStep, PTL DEF RotationSpec

\* In one round of its wait an available profile is passed over at most once by
\* each other one.
THEOREM RotationIsFair == RotationSpec => []PassedAtMostOnce
<1>1. RotationInv => PassedAtMostOnce
  BY DEF RotationInv, PassedAtMostOnce
<1>2. QED
  BY <1>1, RotationInvariance, PTL

\* Old clocks begin no more rounds than a call has tries.
THEOREM RotationOverlooksFew == RotationSpec => []OverlookedFewTimes
<1>1. RotationInv => OverlookedFewTimes
  BY RotationAssumption DEF RotationInv, OverlookedFewTimes
<1>2. QED
  BY <1>1, RotationInvariance, PTL

(***************************************************************************)
(* The selections of ProfileLifecycle take turns as RoundRobin says.       *)
(***************************************************************************)
\* ProfileLifecycle and RoundRobin say the same of whose turn it is.
LEMMA SameTurn ==
    ASSUME Names \subseteq Places, Callers = Ops, Watching, cursor \in Names \cup {0},
           NEW o \in Ops, Choosing(o), NEW n \in Names, IsAfter(n, cursor, SeenAvailable(o))
    PROVE  IsNext(n, Seen(o))
<1> DEFINE names == SeenAvailable(o)
<1>0. Seen(o) = names
  BY DEF Seen, Watching, CallerOf, SeenAvailable
<1>1. n \in names /\ names \subseteq Names /\ Registered \subseteq Names
  BY DEF IsAfter, SeenAvailable, Available, Registered
<1>2. Names \subseteq Nat /\ Places \subseteq Nat /\ 0 \notin Names
  BY RotationAssumption DEF Places
<1>3. IsAfter(n, cursor, names)
  OBVIOUS
<1>10. Origin = IF cursor \in Registered THEN cursor ELSE 0
  BY DEF Origin, Watching
<1> HIDE DEF names
<1>4. CASE cursor \in Registered /\ {m \in names : m > cursor} # {}
  <2>1. n > cursor /\ \A m \in names : m > cursor => n <= m
    BY <1>3, <1>4 DEF IsAfter
  <2>2. \A m \in names : ~(cursor < m /\ m < n)
    BY <1>1, <1>2, <2>1
  <2>3. Between(cursor, n) = {k \in Places : cursor < k /\ k < n}
    BY <1>1, <1>2, <1>4, <2>1 DEF Between, Registered
  <2> QED
    BY <1>0, <1>1, <1>4, <1>10, <2>2, <2>3 DEF IsNext
<1>5. CASE cursor \in Registered /\ {m \in names : m > cursor} = {}
  <2>1. \A m \in names : n <= m
    BY <1>3, <1>5 DEF IsAfter
  <2>2. \A m \in names : m <= cursor
    BY <1>1, <1>2, <1>5
  <2>3. \A m \in names : ~(m < n) /\ ~(cursor < m)
    BY <1>1, <1>2, <1>5, <2>1, <2>2
  <2>4. Between(cursor, n) \subseteq {k \in Places : cursor < k \/ k < n}
    BY DEF Between
  <2> QED
    BY <1>0, <1>1, <1>5, <1>10, <2>3, <2>4 DEF IsNext
<1>6. CASE cursor \notin Registered
  <2>1. \A m \in names : n <= m
    BY <1>3, <1>6 DEF IsAfter
  <2>2. \A m \in names : ~(m < n)
    BY <1>1, <1>2, <2>1
  <2>3. Between(0, n) = {k \in Places : 0 < k /\ k < n}
    BY <1>1, <1>2 DEF Between
  <2> QED
    BY <1>0, <1>1, <1>6, <1>10, <2>2, <2>3 DEF IsNext
<1> QED
  BY <1>4, <1>5, <1>6

\* Only a profile that has a cooldown behind it can be taken for one still in it.
Delayed(n) == registry[n].health \notin {"healthy", "untested"}

\* A call begins, ends, or tries again; the others go on.
CallMoves(o) ==
    /\ \A p \in Ops \ {o} : op'[p] = op[p]
    /\ \/ ~Choosing(o)'
       \/ /\ ~Choosing(o)
          /\ op'[o].pc = "choose" /\ op'[o].tries = 0 /\ op'[o].missed = {}
       \/ /\ op[o].pc = "record" /\ op[o].auto
          /\ op'[o].pc = "choose"
          /\ op'[o].tries = op[o].tries + 1 /\ op'[o].missed = op[o].missed

\* The record of one profile changes, and a new one is available at once; only a
\* cooldown that ends can be missed by a call.
MovesOne(n) ==
    /\ \A m \in Names \ {n} : registry'[m] = registry[m]
    /\ registry[n].inc = 0 => registry'[n].inc = 0 \/ (IsAvailable(registry'[n]) /\ ~Delayed(n)')
    /\ \A o \in Ops :
          /\ Choosing(o)' = Choosing(o)
          /\ Choosing(o) => /\ op'[o].pc = op[o].pc /\ op'[o].tries = op[o].tries
                            /\ op'[o].missed \ {n} = op[o].missed \ {n}
    /\ n \in Available /\ n \in Available' /\ Delayed(n)'
          => Delayed(n) /\ \A o \in Ops : Choosing(o) => op'[o].missed = op[o].missed

\* One selecting process becomes something else.
LEMMA SelectingMoves ==
    ASSUME CoreInv, NEW o \in Ops, OpStep(o), ~SelectsSome(o),
           ~RecordsHealth(o), ~FinalizesWatch(o)
    PROVE  UNCHANGED <<registry, cursor>> /\ CallMoves(o)
<1>0. op \in [Ops -> OpRecords] /\ op[o] \in OpRecords
  BY DEF CoreInv, TypeOK
<1>1. ASSUME NEW r, OpBecomes(o, r)
      PROVE  op'[o] = r /\ \A p \in Ops \ {o} : op'[p] = op[p]
  BY <1>0, <1>1 DEF OpBecomes
<1>2. ASSUME OpStops(o)
      PROVE  CallMoves(o)
  <2> DEFINE r == IF o \in Watched /\ op[o].pc \notin {"choose", "finalize"}
                  THEN [op[o] EXCEPT !.pc = "finalize", !.missed = {}] ELSE IdleOp
  <2>1. r.pc \in {"finalize", "idle"}
    BY <1>0 DEF OpRecords, IdleOp
  <2>2. OpBecomes(o, r)
    BY <1>2 DEF OpStops
  <2> HIDE DEF r
  <2>3. op'[o] = r /\ \A p \in Ops \ {o} : op'[p] = op[p]
    BY <1>1, <2>2
  <2> QED
    BY <2>1, <2>3 DEF CallMoves, Choosing
<1>3. CASE SelectsNext(o)
  <2>1. OpStops(o)
    BY <1>3 DEF SelectsSome, SelectsNext
  <2>2. UNCHANGED <<registry, cursor>>
    BY <1>3 DEF SelectsSome, SelectsNext
  <2> QED
    BY <1>2, <2>1, <2>2
<1>4. CASE ReadsClock(o)
  <2> DEFINE r == [IdleOp EXCEPT !.pc = "choose", !.auto = TRUE]
  <2>1. r.pc = "choose" /\ r.tries = 0 /\ r.missed = {}
    BY DEF IdleOp
  <2>2. OpBecomes(o, r) /\ op[o].pc = "idle" /\ UNCHANGED <<registry, cursor>>
    BY <1>4 DEF ReadsClock
  <2> HIDE DEF r
  <2> QED
    BY <1>1, <2>1, <2>2 DEF CallMoves, Choosing
<1>5. CASE RecordsSelection(o)
  <2>0. UNCHANGED <<registry, cursor>> /\ op[o].pc = "record"
    BY <1>5 DEF RecordsSelection
  <2>1. CASE OpBecomes(o, [op[o] EXCEPT !.pc = "reread", !.missed = {}])
    <3> DEFINE r == [op[o] EXCEPT !.pc = "reread", !.missed = {}]
    <3>1. r.pc = "reread"
      BY <1>0 DEF OpRecords
    <3> QED
      BY <1>1, <2>0, <2>1, <3>1 DEF CallMoves, Choosing
  <2>2. CASE op[o].auto /\ OpBecomes(o, [op[o] EXCEPT !.pc = "choose", !.tries = @ + 1])
    <3> DEFINE r == [op[o] EXCEPT !.pc = "choose", !.tries = @ + 1]
    <3>1. r.pc = "choose" /\ r.tries = op[o].tries + 1 /\ r.missed = op[o].missed
      BY <1>0 DEF OpRecords
    <3>2. op'[o] = r /\ \A p \in Ops \ {o} : op'[p] = op[p]
      BY <1>1, <2>2
    <3> HIDE DEF r
    <3> QED
      BY <2>0, <2>2, <3>1, <3>2 DEF CallMoves
  <2> QED
    BY <1>2, <1>5, <2>0, <2>1, <2>2 DEF RecordsSelection
<1>6. ASSUME NEW r, OpBecomes(o, r), ~(r.pc = "choose"), ~(r.pc = "record" /\ r.auto)
      PROVE  CallMoves(o)
  BY <1>1, <1>6 DEF CallMoves, Choosing
<1>7. CASE \E n \in Names : SelectsExplicitly(o, n) \/ RunsDirectly(o, n)
  <2>1. PICK n \in Names : SelectsExplicitly(o, n) \/ RunsDirectly(o, n)
    BY <1>7
  <2> DEFINE q == [IdleOp EXCEPT !.pc = "record", !.name = n, !.inc = registry[n].inc]
             r == [IdleOp EXCEPT !.pc = "lease", !.name = n]
  <2>2. q.auto = FALSE /\ q.pc = "record" /\ r.pc = "lease"
    BY DEF IdleOp
  <2>3. OpBecomes(o, q) \/ OpBecomes(o, r)
    BY <2>1 DEF SelectsExplicitly, RunsDirectly
  <2>4. UNCHANGED <<registry, cursor>>
    BY <2>1 DEF SelectsExplicitly, RunsDirectly
  <2> HIDE DEF q, r
  <2> QED
    BY <1>6, <2>2, <2>3, <2>4
<1>8. CASE RereadsProfile(o)
  <2> DEFINE r == [op[o] EXCEPT !.pc = "lease", !.inc = registry[op[o].name].inc]
  <2>1. r.pc = "lease"
    BY <1>0 DEF OpRecords
  <2>2. (OpBecomes(o, r) \/ OpStops(o)) /\ UNCHANGED <<registry, cursor>>
    BY <1>8 DEF RereadsProfile
  <2> HIDE DEF r
  <2> QED
    BY <1>2, <1>6, <2>1, <2>2
<1>9. CASE TakesLease(o) \/ Launches(o)
  <2>1. \A pc \in {"check", "run"} : [op[o] EXCEPT !.pc = pc].pc = pc
    BY <1>0 DEF OpRecords
  <2>2. /\ OpStops(o) \/ \E pc \in {"check", "run"} : OpBecomes(o, [op[o] EXCEPT !.pc = pc])
        /\ UNCHANGED <<registry, cursor>>
    BY <1>9 DEF TakesLease, Launches, OpGoes
  <2>3. ASSUME NEW pc \in {"check", "run"}, OpBecomes(o, [op[o] EXCEPT !.pc = pc])
        PROVE  CallMoves(o)
    BY <1>6, <2>1, <2>3
  <2> QED
    BY <1>2, <2>2, <2>3
<1>10. CASE ChecksProfile(o)
  <2> DEFINE r == [op[o] EXCEPT !.pc = "launch", !.inc = registry[op[o].name].inc]
  <2>1. r.pc = "launch"
    BY <1>0 DEF OpRecords
  <2>2. (OpBecomes(o, r) \/ OpStops(o)) /\ UNCHANGED <<registry, cursor>>
    BY <1>10 DEF ChecksProfile
  <2> HIDE DEF r
  <2> QED
    BY <1>2, <1>6, <2>1, <2>2
<1>11. CASE AgyEnds(o)
  <2>1. \A h \in {"healthy", "limited"} : [op[o] EXCEPT !.pc = "health", !.outcome = h].pc = "health"
    BY <1>0 DEF OpRecords
  <2>2. /\ \/ OpStops(o)
           \/ \E h \in {"healthy", "limited"} :
                 OpBecomes(o, [op[o] EXCEPT !.pc = "health", !.outcome = h])
        /\ UNCHANGED <<registry, cursor>>
    BY <1>11 DEF AgyEnds, LeavesLease
  <2>3. ASSUME NEW h \in {"healthy", "limited"},
               OpBecomes(o, [op[o] EXCEPT !.pc = "health", !.outcome = h])
        PROVE  CallMoves(o)
    BY <1>6, <2>1, <2>3
  <2> QED
    BY <1>2, <2>2, <2>3
<1>12. CASE LauncherDies(o)
  <2>1. OpStops(o) /\ UNCHANGED <<registry, cursor>>
    BY <1>12 DEF LauncherDies, LeavesLease
  <2> QED
    BY <1>2, <2>1
<1> QED
  BY <1>3, <1>4, <1>5, <1>7, <1>8, <1>9, <1>10, <1>11, <1>12 DEF OpStep

\* A run that books its outcome selects nothing.
LEMMA BookingMoves ==
    ASSUME CoreInv, NEW o \in Ops, RecordsHealth(o) \/ FinalizesWatch(o)
    PROVE  cursor' = cursor /\ \E n \in Names : MovesOne(n)
<1>0. registry \in [Names -> Profiles] /\ op \in [Ops -> OpRecords] /\ op[o] \in OpRecords
  BY DEF CoreInv, TypeOK
<1>1. op[o].name \in Names /\ op[o].pc \in {"health", "finalize"} /\ OpStops(o) /\ cursor' = cursor
  BY Records DEF RecordsHealth, FinalizesWatch, LeavesLease
<1>2. \A p \in Ops : /\ Choosing(p)' = Choosing(p)
                     /\ Choosing(p) => op'[p] = op[p]
  <2> DEFINE r == IF o \in Watched /\ op[o].pc \notin {"choose", "finalize"}
                  THEN [op[o] EXCEPT !.pc = "finalize", !.missed = {}] ELSE IdleOp
  <2>1. r.pc \in {"finalize", "idle"}
    BY <1>0 DEF OpRecords, IdleOp
  <2>2. op' = [op EXCEPT ![o] = r]
    BY <1>1 DEF OpStops, OpBecomes
  <2> HIDE DEF r
  <2>3. op'[o] = r /\ \A p \in Ops \ {o} : op'[p] = op[p]
    BY <1>0, <2>2
  <2> QED
    BY <1>1, <2>1, <2>3 DEF Choosing
<1>6. PICK n \in Names : n = op[o].name
  BY <1>1
<1>3. CASE UNCHANGED registry
  <2>1. MovesOne(n)
    BY <1>2, <1>3 DEF MovesOne, Delayed
  <2> QED
    BY <1>1, <2>1
<1>4. ASSUME NEW h \in {"healthy", "limited"}, NEW cooldown \in {"none", "running"},
             UpdateHealth(n, h, cooldown), registry[n].inc # 0
      PROVE  MovesOne(n)
  <2> DEFINE r == [registry[n] EXCEPT !.health = h, !.cooldown = cooldown]
  <2>1. r.health = h /\ r.cooldown = cooldown /\ r.inc # 0
    BY <1>0, <1>1, <1>4 DEF Profiles
  <2>2. registry'[n] = r /\ \A m \in Names \ {n} : registry'[m] = registry[m]
    BY <1>0, <1>1, <1>4 DEF UpdateHealth, ProfileBecomes
  <2> HIDE DEF r
  <2>3. n \in Available' => ~Delayed(n)'
    <3>1. CASE h = "healthy"
      BY <2>1, <2>2, <3>1 DEF Delayed
    <3>2. CASE h = "limited"
      BY <2>1, <2>2, <3>2 DEF Available, IsAvailable
    <3> QED
      BY <3>1, <3>2
  <2> QED
    BY <1>2, <1>4, <2>2, <2>3 DEF MovesOne
<1>5. \/ UNCHANGED registry
      \/ /\ registry[n].inc # 0
         /\ \E h \in {"healthy", "limited"}, cooldown \in {"none", "running"} :
               UpdateHealth(n, h, cooldown)
  <2>1. CASE RecordsHealth(o)
    <3>1. op[o].outcome \in {"healthy", "limited"}
      BY <2>1, Records DEF Fits, OpRecords, RecordsHealth
    <3> QED
      BY <1>6, <2>1, <3>1 DEF RecordsHealth, UpdateHealth
  <2>2. CASE FinalizesWatch(o)
    BY <1>6, <2>2 DEF FinalizesWatch, UpdateHealth
  <2> QED
    BY <2>1, <2>2
<1> QED
  BY <1>1, <1>3, <1>4, <1>5

\* Adding and removing select nothing.
LEMMA AdminMovesOne ==
    ASSUME CoreInv, NEW a \in Admins, AdminStep(a), ~UNCHANGED registry
    PROVE  \E n \in Names : MovesOne(n)
<1>0. registry \in [Names -> Profiles] /\ created \in Nat
  BY LifecycleAssumption DEF CoreInv, TypeOK
<1>1. op' = op
  BY AdminShape
<1>2. \A p \in Ops : Choosing(p)' = Choosing(p) /\ op'[p] = op[p]
  BY <1>1 DEF Choosing
<1>3. admin[a].pc # "idle" => admin[a].name \in Names
  BY DEF CoreInv, Leases
<1>4. CASE Registers(a)
  <2>4. PICK n \in Names : n = admin[a].name
    BY <1>3, <1>4 DEF Registers
  <2> DEFINE r == NewProfile(created + 1)
  <2>1. IsAvailable(r) /\ r.health = "untested"
    BY <1>0 DEF NewProfile, IsAvailable
  <2>2. registry[n].inc = 0 /\ registry' = [registry EXCEPT ![n] = r]
    BY <1>4, <2>4 DEF Registers, ProfileBecomes
  <2> HIDE DEF r
  <2>3. MovesOne(n)
    <3>1. registry'[n] = r /\ \A m \in Names \ {n} : registry'[m] = registry[m]
      BY <1>0, <2>2
    <3>2. n \notin Available
      BY <2>2 DEF Available, IsAvailable
    <3> QED
      BY <1>2, <2>1, <3>1, <3>2 DEF MovesOne, Delayed
  <2> QED
    BY <2>3
<1>5. CASE Unregisters(a)
  <2>1. PICK n \in Names : n = admin[a].name
    BY <1>3, <1>5 DEF Unregisters
  <2>2. registry' = [registry EXCEPT ![n] = NoProfile]
    BY <1>5, <2>1 DEF Unregisters, ProfileBecomes
  <2>3. MovesOne(n)
    <3>1. registry'[n] = NoProfile /\ \A m \in Names \ {n} : registry'[m] = registry[m]
      BY <1>0, <2>2
    <3>2. NoProfile.inc = 0
      BY DEF NoProfile
    <3>3. n \notin Available'
      BY <3>1, <3>2 DEF Available, IsAvailable
    <3> QED
      BY <1>2, <3>1, <3>2, <3>3 DEF MovesOne
  <2> QED
    BY <2>3
<1> QED
  BY <1>4, <1>5 DEF AdminStep, StartsAdd, StartsRemove, MakesLayout, StagesHome, Purges,
     PurgesState, Sweeps, AdminDies

\* Enabling, disabling, resetting and the clock.
LEMMA SwitchMovesOne ==
    ASSUME CoreInv, NEW n \in Names, Enable(n) \/ Disable(n) \/ ResetHealth(n) \/ CooldownEnds(n)
    PROVE  cursor' = cursor /\ MovesOne(n)
<1>0. registry \in [Names -> Profiles] /\ registry[n] \in Profiles /\ op \in [Ops -> OpRecords]
  BY DEF CoreInv, TypeOK
<1>1. cursor' = cursor /\ registry'[n].inc = registry[n].inc
  BY SwitchShape
<1>2. \A m \in Names \ {n} : registry'[m] = registry[m]
  BY <1>0 DEF Enable, Disable, ResetHealth, CooldownEnds, ProfileBecomes
<1>3. \A o \in Ops : Choosing(o)' = Choosing(o) /\ op'[o].pc = op[o].pc /\ op'[o].tries = op[o].tries
  BY SwitchedOps DEF Choosing
<1>4. ASSUME NEW o \in Ops, Choosing(o)
      PROVE  op'[o].missed \ {n} = op[o].missed \ {n}
  <2>1. CASE UNCHANGED op
    BY <2>1
  <2>2. CASE CooldownEnds(n)
    <3>1. op'[o] = [op[o] EXCEPT !.missed = @ \cup {n}]
      BY <1>4, <2>2 DEF CooldownEnds
    <3>2. op'[o].missed = op[o].missed \cup {n}
      BY <1>0, <3>1 DEF OpRecords
    <3> QED
      BY <3>2
  <2> QED
    BY <2>1, <2>2 DEF Enable, Disable, ResetHealth
<1>5. ASSUME n \in Available, n \in Available', Delayed(n)'
      PROVE  Delayed(n) /\ UNCHANGED op
  <2>1. CASE Enable(n)
    <3> DEFINE h == IF registry[n].health # "disabled" THEN registry[n].health
                    ELSE IF registry[n].prior = "none" THEN "untested" ELSE registry[n].prior
               r == [registry[n] EXCEPT !.enabled = TRUE, !.health = h, !.prior = "none"]
    <3>1. registry[n].health # "disabled"
      BY <1>5 DEF Available, IsAvailable
    <3>2. r.health = registry[n].health
      BY <1>0, <3>1 DEF Profiles
    <3>3. registry'[n] = r
      BY <1>0, <2>1 DEF Enable, ProfileBecomes
    <3> HIDE DEF r
    <3> QED
      BY <1>5, <2>1, <3>2, <3>3 DEF Delayed, Enable
  <2>2. CASE Disable(n)
    <3> DEFINE r == [registry[n] EXCEPT !.enabled = FALSE,
                       !.prior = IF registry[n].health # "disabled" THEN registry[n].health ELSE @,
                       !.health = "disabled"]
    <3>1. r.health = "disabled"
      BY <1>0 DEF Profiles
    <3>2. registry'[n] = r
      BY <1>0, <2>2 DEF Disable, ProfileBecomes
    <3> HIDE DEF r
    <3> QED
      BY <1>5, <3>1, <3>2 DEF Available, IsAvailable
  <2>3. CASE ResetHealth(n)
    <3> DEFINE r == [registry[n] EXCEPT !.health = "healthy", !.cooldown = "none", !.prior = "none"]
    <3>1. r.health = "healthy"
      BY <1>0 DEF Profiles
    <3>2. registry'[n] = r
      BY <1>0, <2>3 DEF ResetHealth, ProfileBecomes
    <3> HIDE DEF r
    <3> QED
      BY <1>5, <3>1, <3>2 DEF Delayed
  <2>4. CASE CooldownEnds(n)
    <3> DEFINE r == [registry[n] EXCEPT !.cooldown = "over"]
    <3>1. r.health = registry[n].health
      BY <1>0 DEF Profiles
    <3>2. registry'[n] = r /\ registry[n].cooldown = "running"
      BY <1>0, <2>4 DEF CooldownEnds, ProfileBecomes
    <3> HIDE DEF r
    <3> QED
      BY <1>5, <3>1, <3>2 DEF Delayed, Available, IsAvailable
  <2> QED
    BY <2>1, <2>2, <2>3, <2>4
<1> QED
  BY <1>1, <1>2, <1>3, <1>4, <1>5 DEF MovesOne

\* Without a selection the counts change for a name only that is not ready any more.
LEMMA CountsRest ==
    ASSUME RotationInv,
           passed' = OnlyReady(passed, [k \in Places |-> 0]),
           overlooked' = OnlyReady(overlooked, [c \in Callers |-> 0])
    PROVE  /\ ready \subseteq ready' => passed' = passed /\ overlooked' = overlooked
           /\ \A n \in Places : ready' = ready \ {n} => Forgotten(n)
<1>1. /\ passed \in [Places -> [Places -> {0, 1}]]
      /\ overlooked \in [Places -> [Callers -> 0 .. Retries]]
  BY DEF RotationInv
<1>2. ASSUME NEW m \in Places, m \notin ready
      PROVE  passed[m] = [k \in Places |-> 0] /\ overlooked[m] = [c \in Callers |-> 0]
  <2>1. (\A k \in Places : passed[m][k] = 0) /\ (\A c \in Callers : overlooked[m][c] = 0)
    BY <1>2 DEF RotationInv
  <2>2. passed[m] = [k \in Places |-> passed[m][k]] /\ overlooked[m] = [c \in Callers |-> overlooked[m][c]]
    BY <1>1
  <2> QED
    BY <2>1, <2>2
<1>3. passed = [m \in Places |-> passed[m]] /\ overlooked = [m \in Places |-> overlooked[m]]
  BY <1>1
<1>4. ready \subseteq Places
  BY DEF RotationInv
<1>5. ASSUME ready \subseteq ready' PROVE passed' = passed /\ overlooked' = overlooked
  BY <1>2, <1>3, <1>5 DEF OnlyReady
<1>6. ASSUME NEW n \in Places, ready' = ready \ {n} PROVE Forgotten(n)
  BY <1>1, <1>2, <1>3, <1>6 DEF OnlyReady, Forgotten
<1> QED
  BY <1>5, <1>6

\* The registry, but not the calls, decides who is registered and available.
LEMMA SameRegistry ==
    ASSUME Watching, Watching', UNCHANGED registry
    PROVE  profiles' = profiles /\ ready' = ready
BY DEF Watching, Registered, Available

\* A selection of ProfileLifecycle is one of RoundRobin.
LEMMA SelectionFollows ==
    ASSUME Names \subseteq Places, Callers = Ops, Retries = MaxRetries, CoreInv, RotationInv,
           Watching, Watching', NEW o \in Ops, SelectsSome(o),
           passed' = Passes(o, cursor'), overlooked' = Misses(o, cursor')
    PROVE  RotationNext
<1>0. op \in [Ops -> OpRecords] /\ op[o] \in OpRecords /\ cursor \in Names \cup {0}
  BY DEF CoreInv, TypeOK
<1>1. PICK n \in SeenAvailable(o) :
         /\ IsAfter(n, cursor, SeenAvailable(o)) /\ cursor' = n
         /\ OpBecomes(o, [op[o] EXCEPT !.pc = "record", !.name = n, !.inc = registry[n].inc])
  BY DEF SelectsSome, SelectsNext
<1>2. n \in Names /\ n \in Places
  BY DEF SeenAvailable, Available
<1>3. op[o].pc = "choose" /\ UNCHANGED registry /\ op[o].auto /\ Choosing(o)
  BY DEF SelectsSome, SelectsNext, CoreInv, RunsVerified, Choosing
<1>4. IsNext(n, Seen(o))
  BY <1>0, <1>1, <1>2, <1>3, SameTurn
<1>5. profiles' = profiles /\ ready' = ready /\ routed' = n
  BY <1>1, <1>3, SameRegistry DEF Watching
<1> DEFINE r == [op[o] EXCEPT !.pc = "record", !.name = n, !.inc = registry[n].inc]
<1>6. /\ r.pc = "record" /\ r.auto = op[o].auto /\ r.tries = op[o].tries
      /\ r.missed = op[o].missed
  BY <1>0 DEF OpRecords
<1>7. op' = [op EXCEPT ![o] = r]
  BY <1>1 DEF OpBecomes
<1> HIDE DEF r
<1>8. op'[o] = r /\ \A p \in Ops \ {o} : op'[p] = op[p]
  BY <1>0, <1>7
<1>9. \A p \in Ops \ {o} : CallerOf(p)' = CallerOf(p)
  BY <1>3, <1>8 DEF CallerOf, Choosing, Available, SeenAvailable
<1>10. caller = [p \in Ops |-> CallerOf(p)] /\ caller' = [p \in Ops |-> CallerOf(p)']
  BY DEF Watching
<1>11. CallerOf(o) = [on |-> TRUE, tries |-> op[o].tries, unseen |-> Available \ SeenAvailable(o)]
  <2>1. op[o].tries + 0 = op[o].tries
    BY <1>0 DEF OpRecords
  <2> QED
    BY <1>3, <2>1 DEF CallerOf
<1>12. CallerOf(o)' = [on |-> TRUE, tries |-> op[o].tries + 1,
                       unseen |-> Available \ SeenAvailable(o)]
  BY <1>3, <1>6, <1>8 DEF CallerOf, Choosing, Available, SeenAvailable
<1>13. caller' = [caller EXCEPT ![o].tries = @ + 1]
  <2>1. caller[o] = CallerOf(o) /\ DOMAIN caller = Ops
    BY <1>10
  <2>2. caller'[o] = [caller[o] EXCEPT !.tries = op[o].tries + 1]
    <3>1. PICK on, t, u, w : /\ caller[o] = [on |-> on, tries |-> t, unseen |-> u]
                             /\ caller'[o] = [on |-> on, tries |-> w, unseen |-> u]
                             /\ w = op[o].tries + 1
      BY <1>10, <1>11, <1>12, <2>1
    <3> QED
      BY <3>1
  <2>3. caller[o].tries + 1 = op[o].tries + 1
    BY <1>11, <2>1
  <2> QED
    BY <1>9, <1>10, <2>1, <2>2, <2>3
<1>14. caller[o].on /\ caller[o].tries < Retries
  <2>1. op[o].tries < MaxRetries
    BY <1>0 DEF OpRecords, MaxRetries
  <2> QED
    BY <1>10, <1>11, <2>1
<1>15. SelectsTurn(o, n)
  BY <1>1, <1>4, <1>5, <1>13, <1>14 DEF SelectsTurn
<1> QED
  BY <1>2, <1>15 DEF RotationNext

\* A call begins or ends; a further try is none of the rotation's business.
LEMMA CallFollows ==
    ASSUME Callers = Ops, CoreInv, RotationInv, Watching, Watching', NEW o \in Ops,
           UNCHANGED <<registry, cursor>>, CallMoves(o),
           UNCHANGED <<passed, overlooked>>
    PROVE  [RotationNext]_rotationVars
<1>0. op \in [Ops -> OpRecords] /\ op[o] \in OpRecords
  BY DEF CoreInv, TypeOK
<1>1. profiles' = profiles /\ ready' = ready /\ routed' = routed
  BY SameRegistry DEF Watching
<1>2. \A p \in Ops \ {o} : CallerOf(p)' = CallerOf(p)
  BY DEF CallMoves, CallerOf, Choosing, Available, SeenAvailable
<1>3. caller = [p \in Ops |-> CallerOf(p)] /\ caller' = [p \in Ops |-> CallerOf(p)']
  BY DEF Watching
<1>4. caller' = [caller EXCEPT ![o] = CallerOf(o)']
  BY <1>2, <1>3
<1>5. caller[o] = CallerOf(o) /\ (caller[o].on = Choosing(o))
  BY <1>3 DEF CallerOf, Away, Choosing
<1>6. CASE CallerOf(o)' = CallerOf(o)
  <2>1. caller' = caller
    BY <1>2, <1>3, <1>6
  <2> QED
    BY <1>1, <2>1 DEF rotationVars
<1>7. CASE ~Choosing(o)'
  <2>1. CallerOf(o)' = Away
    BY <1>7 DEF CallerOf
  <2>2. CASE Choosing(o)
    <3>1. Departs(o)
      BY <1>1, <1>4, <1>5, <2>1, <2>2 DEF Departs
    <3> QED
      BY <3>1 DEF RotationNext
  <2>3. CASE ~Choosing(o)
    BY <1>6, <2>1, <2>3 DEF CallerOf
  <2> QED
    BY <2>2, <2>3
<1>8. CASE /\ ~Choosing(o)
           /\ op'[o].pc = "choose" /\ op'[o].tries = 0 /\ op'[o].missed = {}
  <2>1. Choosing(o)' /\ SeenAvailable(o)' = Available'
    BY <1>8 DEF Choosing, SeenAvailable
  <2>4. Available' \ SeenAvailable(o)' = {} /\ op'[o].tries + 0 = 0
    BY <1>8, <2>1
  <2>2. CallerOf(o)' = [on |-> TRUE, tries |-> 0, unseen |-> {}]
    BY <1>8, <2>1, <2>4 DEF CallerOf
  <2>3. Arrives(o)
    BY <1>1, <1>4, <1>5, <1>8, <2>2 DEF Arrives
  <2> QED
    BY <2>3 DEF RotationNext
<1>9. CASE /\ op[o].pc = "record" /\ op[o].auto
           /\ op'[o].pc = "choose"
           /\ op'[o].tries = op[o].tries + 1 /\ op'[o].missed = op[o].missed
  <2>1. Choosing(o) /\ Choosing(o)' /\ SeenAvailable(o)' = SeenAvailable(o) /\ Available' = Available
    BY <1>9 DEF Choosing, SeenAvailable, Available
  <2>2. op'[o].tries + 0 = op[o].tries + 1
    BY <1>0, <1>9 DEF OpRecords
  <2>3. CallerOf(o)' = CallerOf(o)
    BY <1>9, <2>1, <2>2 DEF CallerOf
  <2> QED
    BY <1>6, <2>3
<1> QED
  BY <1>7, <1>8, <1>9 DEF CallMoves

\* What the change of one profile means to a call.
LEMMA OneUnseen ==
    ASSUME Watching, Watching', Callers = Ops, NEW n \in Names, MovesOne(n), NEW o \in Callers
    PROVE  /\ \E on, tries, u, v :
                 /\ caller[o] = [on |-> on, tries |-> tries, unseen |-> u]
                 /\ caller'[o] = [on |-> on, tries |-> tries, unseen |-> v]
           /\ caller'[o].unseen \ {n} = caller[o].unseen \ {n}
           /\ ~caller[o].on => caller'[o].unseen = {}
           /\ caller[o].unseen \subseteq ready /\ caller'[o].unseen \subseteq ready'
           /\ n \in ready /\ n \in ready' /\ n \in caller'[o].unseen
                 => \A p \in Callers : n \in caller'[p].unseen <=> n \in caller[p].unseen
<1>1. \A p \in Ops : caller[p] = CallerOf(p) /\ caller'[p] = CallerOf(p)'
  BY DEF Watching
<1>2. Choosing(o)' = Choosing(o)
  BY DEF MovesOne
<1>3. \A p \in Ops : /\ CallerOf(p).unseen = IF Choosing(p) THEN Available \ SeenAvailable(p) ELSE {}
                     /\ CallerOf(p)'.unseen = IF Choosing(p)' THEN Available' \ SeenAvailable(p)' ELSE {}
  BY DEF CallerOf, Away
<1>4. \A p \in Ops, m \in Names :
         /\ m \in CallerOf(p).unseen <=> Choosing(p) /\ m \in Available /\ Delayed(m) /\ m \in op[p].missed
         /\ m \in CallerOf(p)'.unseen
               <=> Choosing(p)' /\ m \in Available' /\ Delayed(m)' /\ m \in op'[p].missed
  BY <1>3 DEF SeenAvailable, Delayed
<1>5. \A p \in Ops : CallerOf(p).unseen \subseteq Names /\ CallerOf(p)'.unseen \subseteq Names
  BY <1>3 DEF Available
<1>6. \A m \in Names \ {n} : (m \in Available' <=> m \in Available) /\ (Delayed(m)' <=> Delayed(m))
  BY DEF MovesOne, Available, Delayed
<1>7. CallerOf(o)'.unseen \ {n} = CallerOf(o).unseen \ {n}
  <2>1. \A m \in Names \ {n} : Choosing(o) => (m \in op'[o].missed <=> m \in op[o].missed)
    BY DEF MovesOne
  <2>2. \A m \in Names \ {n} : m \in CallerOf(o)'.unseen <=> m \in CallerOf(o).unseen
    BY <1>2, <1>4, <1>6, <2>1
  <2> QED
    BY <1>5, <2>2
<1>8. \E on, tries, u, v : /\ CallerOf(o) = [on |-> on, tries |-> tries, unseen |-> u]
                           /\ CallerOf(o)' = [on |-> on, tries |-> tries, unseen |-> v]
  BY <1>2 DEF MovesOne, CallerOf, Away
<1>9. ASSUME n \in ready, n \in ready', n \in caller'[o].unseen, NEW p \in Callers
      PROVE  n \in caller'[p].unseen <=> n \in caller[p].unseen
  <2>1. n \in Available /\ n \in Available' /\ Delayed(n)'
    BY <1>1, <1>4, <1>9 DEF Watching
  <2>2. Delayed(n) /\ (Choosing(p) => op'[p].missed = op[p].missed) /\ Choosing(p)' = Choosing(p)
    BY <2>1 DEF MovesOne
  <2> QED
    BY <1>1, <1>4, <2>1, <2>2
<1>11. ~CallerOf(o).on => CallerOf(o)'.unseen = {}
  BY <1>2, <1>3 DEF CallerOf
<1>12. CallerOf(o).unseen \subseteq ready /\ CallerOf(o)'.unseen \subseteq ready'
  BY <1>3 DEF Watching
<1> QED
  BY <1>1, <1>7, <1>8, <1>9, <1>11, <1>12

\* A call is the number of its tries and what it has not seen.
LEMMA CallerIs ==
    ASSUME Watching, Watching', Callers = Ops, NEW n \in Names, MovesOne(n), NEW o \in Callers
    PROVE  /\ \A set : caller'[o].unseen = set => caller'[o] = [caller[o] EXCEPT !.unseen = set]
           /\ caller'[o].unseen = caller[o].unseen => caller'[o] = caller[o]
<1>1. PICK on, tries, u, v : /\ caller[o] = [on |-> on, tries |-> tries, unseen |-> u]
                            /\ caller'[o] = [on |-> on, tries |-> tries, unseen |-> v]
  BY OneUnseen
<1> QED
  BY <1>1

\* One profile changes.
LEMMA MoveFollows ==
    ASSUME Names \subseteq Places, Callers = Ops, CoreInv, RotationInv, Watching, Watching',
           NEW n \in Names, MovesOne(n), cursor' = cursor,
           passed' = OnlyReady(passed, [k \in Places |-> 0]),
           overlooked' = OnlyReady(overlooked, [c \in Callers |-> 0])
    PROVE  [RotationNext]_rotationVars
<1>0. n \in Places /\ routed' = routed
  BY DEF Watching
<1>1. \A m \in Names \ {n} : /\ m \in profiles' <=> m \in profiles
                             /\ m \in ready' <=> m \in ready
  BY DEF MovesOne, Watching, Registered, Available
<1>2. ready \subseteq profiles /\ ready' \subseteq profiles' /\ profiles \subseteq Names
      /\ profiles' \subseteq Names
  BY DEF Watching, Available, Registered, IsAvailable
<1>3. n \in profiles' /\ n \notin profiles => n \in ready'
  BY DEF MovesOne, Watching, Registered, Available
<1>4. caller = [o \in Callers |-> caller[o]] /\ caller' = [o \in Callers |-> caller'[o]]
  BY DEF Watching
<1>5. ASSUME \A o \in Callers : caller'[o].unseen = caller[o].unseen \ {n}
      PROVE  NoticedByAll(n)
  <2>1. \A o \in Callers : caller'[o] = [caller[o] EXCEPT !.unseen = @ \ {n}]
    BY <1>5, CallerIs
  <2> QED
    BY <1>4, <2>1 DEF NoticedByAll
<1>6. CASE n \in ready' /\ n \notin ready
  <2>1. profiles' = profiles \cup {n} /\ ready' = ready \cup {n}
    BY <1>1, <1>2, <1>6
  <2>2. passed' = passed /\ overlooked' = overlooked
    BY <2>1, CountsRest
  <2> DEFINE slow == {o \in Callers : n \in caller'[o].unseen}
  <2>3. slow \in SUBSET {o \in Callers : caller[o].on}
    BY OneUnseen
  <2>4. ASSUME NEW o \in Callers
        PROVE  caller'[o] = IF o \in slow THEN [caller[o] EXCEPT !.unseen = @ \cup {n}] ELSE caller[o]
    <3>1. caller'[o].unseen \ {n} = caller[o].unseen \ {n} /\ caller[o].unseen \subseteq ready
      BY OneUnseen
    <3>2. CASE o \in slow
      <4>1. caller'[o].unseen = caller[o].unseen \cup {n}
        BY <3>1, <3>2
      <4> QED
        BY <3>2, <4>1, CallerIs
    <3>3. CASE o \notin slow
      <4>1. caller'[o].unseen = caller[o].unseen
        BY <1>6, <3>1, <3>3
      <4> QED
        BY <3>3, <4>1, CallerIs
    <3> QED
      BY <3>2, <3>3
  <2>5. caller' = [o \in Callers |->
                IF o \in slow THEN [caller[o] EXCEPT !.unseen = @ \cup {n}] ELSE caller[o]]
    BY <1>4, <2>4
  <2>6. BecomesReady(n)
    BY <1>0, <1>6, <2>1, <2>2, <2>3, <2>5 DEF BecomesReady
  <2> QED
    BY <1>0, <2>6 DEF RotationNext
<1>7. CASE n \notin ready' /\ n \in ready /\ n \in profiles'
  <2>1. profiles' = profiles /\ ready' = ready \ {n}
    BY <1>1, <1>2, <1>7
  <2>2. Forgotten(n)
    BY <1>0, <2>1, CountsRest
  <2>4. ASSUME NEW o \in Callers PROVE caller'[o].unseen = caller[o].unseen \ {n}
    BY <1>7, OneUnseen
  <2>3. NoticedByAll(n)
    BY <1>5, <2>4
  <2> QED
    BY <1>0, <1>7, <2>1, <2>2, <2>3 DEF RotationNext, BecomesUnready
<1>8. CASE n \in profiles /\ n \notin profiles'
  <2>1. profiles' = profiles \ {n} /\ ready' = ready \ {n}
    BY <1>1, <1>2, <1>8
  <2>2. Forgotten(n)
    BY <1>0, <2>1, CountsRest
  <2>4. ASSUME NEW o \in Callers PROVE caller'[o].unseen = caller[o].unseen \ {n}
    BY <1>2, <1>8, OneUnseen
  <2>3. NoticedByAll(n)
    BY <1>5, <2>4
  <2> QED
    BY <1>0, <1>8, <2>1, <2>2, <2>3 DEF RotationNext, Unregistered
<1>9. CASE (n \in ready' <=> n \in ready) /\ (n \in profiles' <=> n \in profiles)
  <2>1. profiles' = profiles /\ ready' = ready
    BY <1>1, <1>2, <1>9
  <2>2. passed' = passed /\ overlooked' = overlooked
    BY <2>1, CountsRest
  <2>3. CASE n \in ready /\ \A o \in Callers : n \notin caller'[o].unseen
    <3>2. ASSUME NEW o \in Callers PROVE caller'[o].unseen = caller[o].unseen \ {n}
      BY <2>3, OneUnseen
    <3>1. NoticedByAll(n)
      BY <1>5, <3>2
    <3> QED
      BY <1>0, <2>1, <2>2, <2>3, <3>1 DEF RotationNext, BecomesSeen
  <2>4. CASE n \notin ready \/ \E o \in Callers : n \in caller'[o].unseen
    <3>1. \A o \in Callers : n \in caller'[o].unseen <=> n \in caller[o].unseen
      BY <1>9, <2>1, <2>4, OneUnseen
    <3>2. ASSUME NEW o \in Callers PROVE caller'[o] = caller[o]
      <4>1. caller'[o].unseen \ {n} = caller[o].unseen \ {n}
        BY OneUnseen
      <4>2. \A x : x \in caller'[o].unseen <=> x \in caller[o].unseen
        BY <3>1, <4>1
      <4>3. caller'[o].unseen = caller[o].unseen
        BY <4>2
      <4> QED
        BY <4>3, CallerIs
    <3> QED
      BY <1>0, <1>4, <2>1, <2>2, <3>2 DEF rotationVars
  <2> QED
    BY <2>3, <2>4
<1> QED
  BY <1>2, <1>3, <1>6, <1>7, <1>8, <1>9

\* Every step of the profiles is a step of the rotation, or does not concern it.
LEMMA RotationFollows ==
    ASSUME Names \subseteq Places, Callers = Ops, Retries = MaxRetries, CoreInv, RotationInv,
           Watching, CountedNext
    PROVE  [RotationNext]_rotationVars /\ Watching'
<1>0. Watching'
  BY DEF CountedNext, Watching
<1>1. CASE \E o \in Ops : /\ SelectsSome(o)
                          /\ passed' = Passes(o, cursor') /\ overlooked' = Misses(o, cursor')
  BY <1>0, <1>1, SelectionFollows
<1>2. CASE /\ \A o \in Ops : ~SelectsSome(o)
           /\ passed' = OnlyReady(passed, [k \in Places |-> 0])
           /\ overlooked' = OnlyReady(overlooked, [c \in Callers |-> 0])
  <2>0. UNCHANGED registry => UNCHANGED <<passed, overlooked>>
    BY <1>0, <1>2, SameRegistry, CountsRest
  <2>1. ASSUME NEW n \in Names, MovesOne(n), cursor' = cursor
        PROVE  [RotationNext]_rotationVars
    BY <1>0, <1>2, <2>1, MoveFollows
  <2>2. ASSUME NEW o \in Ops, OpStep(o)
        PROVE  [RotationNext]_rotationVars
    <3>1. CASE RecordsHealth(o) \/ FinalizesWatch(o)
      BY <2>1, <3>1, BookingMoves
    <3>2. CASE ~RecordsHealth(o) /\ ~FinalizesWatch(o)
      <4>1. UNCHANGED <<registry, cursor>> /\ CallMoves(o)
        BY <1>2, <2>2, <3>2, SelectingMoves
      <4> QED
        BY <1>0, <2>0, <4>1, CallFollows
    <3> QED
      BY <3>1, <3>2
  <2>3. ASSUME UNCHANGED <<registry, cursor, op>>
        PROVE  [RotationNext]_rotationVars
    <3>1. profiles' = profiles /\ ready' = ready /\ routed' = routed
      BY <1>0, <2>3, SameRegistry DEF Watching
    <3>2. caller' = caller
      BY <1>0, <2>3 DEF Watching, CallerOf, Choosing, Available, SeenAvailable
    <3> QED
      BY <2>0, <2>3, <3>1, <3>2 DEF rotationVars
  <2>4. ASSUME NEW a \in Admins, AdminStep(a)
        PROVE  [RotationNext]_rotationVars
    <3>1. UNCHANGED <<op, cursor>>
      BY <2>4, AdminShape
    <3> QED
      BY <2>1, <2>3, <2>4, <3>1, AdminMovesOne
  <2>5. ASSUME NEW n \in Names, Enable(n) \/ Disable(n) \/ ResetHealth(n) \/ CooldownEnds(n)
        PROVE  [RotationNext]_rotationVars
    BY <2>1, <2>5, SwitchMovesOne
  <2>6. ASSUME NEW n \in Names, StrayWorks(n)
        PROVE  [RotationNext]_rotationVars
    BY <2>3, <2>6 DEF StrayWorks
  <2>7. Next
    BY DEF CountedNext
  <2> QED
    <3>1. CASE \E o \in Ops : OpStep(o)
      BY <1>0, <2>2, <3>1
    <3>2. CASE \E a \in Admins : AdminStep(a)
      BY <1>0, <2>4, <3>2
    <3>3. CASE \E n \in Names :
                 StrayWorks(n) \/ Enable(n) \/ Disable(n) \/ ResetHealth(n) \/ CooldownEnds(n)
      BY <1>0, <2>5, <2>6, <3>3
    <3> QED
      BY <2>7, <3>1, <3>2, <3>3 DEF Next
<1> QED
  BY <1>0, <1>1, <1>2 DEF CountedNext

\* The automatic selections of ProfileLifecycle are those of RoundRobin: amid all
\* runs, removals, creations, crashes, changes of health and old clocks, an available
\* profile is passed over at most once in a round by each other one, and overlooked
\* by a caller in one call at most.
THEOREM ProfilesTakeTurns ==
    ASSUME Names \subseteq Places, Callers = Ops, Retries = MaxRetries
    PROVE  CountedSpec => RotationSpec /\ []PassedAtMostOnce /\ []OverlookedFewTimes
<1>1. CountedSpec => []CoreInv
  <2>1. [CountedNext]_<<vars, rotationVars>> => [Next]_vars
    BY DEF CountedNext, vars
  <2>2. LifecycleInv => CoreInv
    BY DEF LifecycleInv
  <2> QED
    BY <2>1, <2>2, LifecycleInvariance, PTL DEF CountedSpec, Spec
<1>2. Init /\ RotationInit => RotationInv /\ Watching
  <2>1. ASSUME Init, RotationInit PROVE Watching
    <3>1. Registered = {} /\ Available = {}
      BY <2>1 DEF Init, Registered, Available, IsAvailable, NoProfile
    <3>2. \A o \in Ops : CallerOf(o) = Away
      BY <2>1 DEF Init, CallerOf, Choosing, IdleOp
    <3> QED
      BY <2>1, <3>1, <3>2 DEF Init, RotationInit, Watching
  <2> QED
    BY <2>1, InitRotation
<1>3. CoreInv /\ RotationInv /\ Watching /\ [CountedNext]_<<vars, rotationVars>>
        => RotationInv' /\ Watching' /\ [RotationNext]_rotationVars
  <2>1. CASE CoreInv /\ RotationInv /\ Watching /\ CountedNext
    BY <2>1, RotationFollows, RotationStep
  <2>2. CASE RotationInv /\ Watching /\ UNCHANGED <<vars, rotationVars>>
    <3>1. UNCHANGED rotationVars
      BY <2>2
    <3>2. Watching'
      BY <2>2 DEF Watching, vars, rotationVars, Registered, Available, CallerOf, Choosing,
         SeenAvailable
    <3> QED
      BY <2>2, <3>1, <3>2, RotationStep
  <2> QED
    BY <2>1, <2>2
<1>4. RotationInv => PassedAtMostOnce /\ OverlookedFewTimes
  BY RotationAssumption DEF RotationInv, PassedAtMostOnce, OverlookedFewTimes
<1> QED
  BY <1>1, <1>2, <1>3, <1>4, PTL DEF CountedSpec, RotationSpec

(***************************************************************************)
(* What the two ways to kill a tree of processes leave alive, for any      *)
(* number of processes.                                                    *)
(***************************************************************************)
\* TreeInv is inductive: the processes only move between the parts it names.
LEMMA TreeStep == TreeInv /\ [TreeNext]_treeVars => TreeInv'
<1> SUFFICES ASSUME TreeInv, [TreeNext]_treeVars
             PROVE  TreeInv'
  OBVIOUS
<1> USE TreeAssumption DEF TreeInv, TreeTypeOK, KillerPCs, Living, Counts
<1>1. CASE ListsPids
  BY <1>1 DEF ListsPids
<1>2. ASSUME NEW p \in Tree, Visits(p) PROVE TreeInv'
  BY <1>2 DEF Visits
<1>3. CASE EndsVisits
  BY <1>3 DEF EndsVisits
<1>4. CASE FindsDead
  BY <1>4 DEF FindsDead
<1>5. CASE FindsAlive
  BY <1>5 DEF FindsAlive
<1>6. CASE AsksToEnd
  BY <1>6 DEF AsksToEnd
<1>7. CASE KillsKnown
  BY <1>7 DEF KillsKnown
<1>8. CASE KillsOnce
  BY <1>8 DEF KillsOnce
<1>9. CASE GraceEnds
  BY <1>9 DEF GraceEnds
<1>10. CASE GivesUp
  BY <1>10 DEF GivesUp
<1>11. ASSUME NEW p \in Tree, Exits(p) PROVE TreeInv'
  BY <1>11 DEF Exits
<1>12. ASSUME NEW p \in Tree, LeavesGroup(p) PROVE TreeInv'
  BY <1>12 DEF LeavesGroup
<1>13. ASSUME NEW p \in Tree, NEW q \in Tree, Forks(p, q) PROVE TreeInv'
  BY <1>13 DEF Forks
<1>14. CASE UNCHANGED treeVars
  BY <1>14 DEF treeVars
<1>15. QED
  BY <1>1, <1>2, <1>3, <1>4, <1>5, <1>6, <1>7, <1>8, <1>9, <1>10, <1>11, <1>12, <1>13, <1>14
     DEF TreeNext, KillerStep

\* TreeInv holds in every state.
THEOREM TreeInvariance == TreeSpec => []TreeInv
<1>1. TreeInit => TreeInv
  BY TreeAssumption DEF TreeInit, TreeInv, TreeTypeOK, KillerPCs, Living, Counts
<1>2. QED
  BY <1>1, TreeStep, PTL DEF TreeSpec

\* A verdict TRUE misses only processes born after the last listing began.
THEOREM VerdictsMissLateOnly == TreeSpec => []VerdictMissesLateOnly
<1>1. TreeInv => VerdictMissesLateOnly
  BY DEF TreeInv, VerdictMissesLateOnly, Counts
<1>2. QED
  BY <1>1, TreeInvariance, PTL

\* So does a launcher that returns, since the last listing before SIGKILL.
THEOREM LaunchersLeaveLateOnly == TreeSpec => []LauncherLeavesLateOnly
<1>1. TreeInv => LauncherLeavesLateOnly
  BY DEF TreeInv, LauncherLeavesLateOnly
<1>2. QED
  BY <1>1, TreeInvariance, PTL

(***************************************************************************)
(* The parts beside each other.                                            *)
(***************************************************************************)
\* While one part moves the others rest: the composition behaves as each part may.
THEOREM PartsBehave ==
    PartsSpec => Spec /\ StartSpec /\ PagingSpec /\ StoreSpec /\ RotationSpec /\ SyncSpec /\ TreeSpec
<1>1. PartsInit => Init /\ StartInit /\ PagingInit /\ StoreInit /\ RotationInit /\ SyncInit /\ TreeInit
  BY DEF PartsInit
<1>2. [PartsNext]_allVars =>
        /\ [Next]_vars /\ [StartNext]_startVars /\ [PagingNext]_pagingVars /\ [StoreNext]_storeVars
        /\ [RotationNext]_rotationVars /\ [SyncNext]_syncVars /\ [TreeNext]_treeVars
  BY DEF PartsNext, allVars
<1>3. QED
  BY <1>1, <1>2, PTL DEF PartsSpec, Spec, StartSpec, PagingSpec, StoreSpec, RotationSpec, SyncSpec, TreeSpec

\* So every part keeps its inductive invariant beside the others.
THEOREM PartsInvariance == PartsSpec => []PartsInv
<1>1. LifecycleInv /\ StartInv /\ StoreInv /\ RotationInv /\ TreeInv /\ PagingInv /\ SyncInv => PartsInv
  BY DEF PartsInv
<1>2. QED
  BY <1>1, PartsBehave, LifecycleInvariance, StartInvariance, PagingInvariance, StoreInvariance,
     RotationInvariance, SyncInvariance, TreeInvariance, PTL
=============================================================================
