----------------------------- MODULE RoundRobin -----------------------------
(***************************************************************************)
(* The automatic selection of select_profile: the profiles in the order of *)
(* their names, the cursor of routing.json, a registry that changes all    *)
(* the time, and callers that go by a clock they read before they waited   *)
(* for the lock of the cursor.  What is at stake is that the rotation is   *)
(* fair: who is available is not passed over again and again.              *)
(***************************************************************************)
EXTENDS Naturals

CONSTANTS
    RotationSize,   \* how many names there are, numbered in sorting order
    Callers,        \* processes that call select_profile, each again and again
    Retries         \* how often one call may select: max_retries

ASSUME RotationAssumption == RotationSize \in Nat /\ Retries \in Nat

VARIABLES
    profiles,       \* the names that are registered
    ready,          \* those of them that are available
    routed,         \* the cursor, 0 for none
    caller,         \* per caller: inside a call, its tries, and the names that became
                    \* available after it read the clock, which it takes for unavailable
    passed,         \* per name that is ready: how often each other one was selected in
                    \* the present round of its wait
    overlooked      \* per name that is ready: how often each caller has overlooked it
                    \* since it was selected or became ready; each time begins a round

rotationVars == <<profiles, ready, routed, caller, passed, overlooked>>

Places == 1 .. RotationSize

Away == [on |-> FALSE, tries |-> 0, unseen |-> {}]

RotationInit ==
    /\ profiles = {}
    /\ ready = {}
    /\ routed = 0
    /\ caller = [c \in Callers |-> Away]
    /\ passed = [m \in Places |-> [n \in Places |-> 0]]
    /\ overlooked = [m \in Places |-> [c \in Callers |-> 0]]

\* The names strictly between two names, in the cyclic order.
Between(c, n) ==
    IF c < n THEN {k \in Places : c < k /\ k < n} ELSE {k \in Places : c < k \/ k < n}

\* Where the search begins: behind the cursor, unless that names no profile any more.
Origin == IF routed \in profiles THEN routed ELSE 0

Seen(c) == ready \ caller[c].unseen

\* Mutant: the search begins with the names before the cursor.
BeforeCursor(n, names) ==
    /\ n \in names
    /\ \A k \in names : n <= k \/ k = routed
    /\ n # routed \/ names = {n}

\* The first of the names after the cursor, in the cyclic order.
IsNext(n, names) == n \in names /\ Between(Origin, n) \cap names = {}

\* The caller c selects n although m comes first.
Overlooks(c, m, n) == m \in caller[c].unseen \cap Between(Origin, n)

\* The selection of n passes everyone else who is ready.  For whom it overlooks a new
\* round begins, and for everyone once the cursor is lost.
Passes(c, n) ==
    [m \in Places |->
        IF m = n \/ m \notin ready THEN [k \in Places |-> 0]
        ELSE [k \in Places |->
                (IF k = n THEN 1 ELSE 0)
                + (IF routed \in profiles /\ ~Overlooks(c, m, n) THEN passed[m][k] ELSE 0)]]

Misses(c, n) ==
    [m \in Places |->
        IF m = n \/ m \notin ready THEN [d \in Callers |-> 0]
        ELSE [d \in Callers |->
                overlooked[m][d] + (IF d = c /\ Overlooks(c, m, n) THEN 1 ELSE 0)]]

\* select_profile reads the clock.
Arrives(c) ==
    /\ ~caller[c].on
    /\ caller' = [caller EXCEPT ![c] = [on |-> TRUE, tries |-> 0, unseen |-> {}]]
    /\ UNCHANGED <<profiles, ready, routed, passed, overlooked>>

\* Mutant: a call tries until its selection is recorded.
TriesOn(c, n) ==
    /\ caller[c].on
    /\ IsNext(n, Seen(c))
    /\ routed' = n
    /\ passed' = Passes(c, n)
    /\ overlooked' = Misses(c, n)
    /\ UNCHANGED <<profiles, ready, caller>>

SelectsTurn(c, n) ==
    /\ caller[c].on /\ caller[c].tries < Retries
    /\ IsNext(n, Seen(c))
    /\ routed' = n
    /\ caller' = [caller EXCEPT ![c].tries = @ + 1]
    /\ passed' = Passes(c, n)
    /\ overlooked' = Misses(c, n)
    /\ UNCHANGED <<profiles, ready>>

\* The call returns, raises or dies.
Departs(c) ==
    /\ caller[c].on
    /\ caller' = [caller EXCEPT ![c] = Away]
    /\ UNCHANGED <<profiles, ready, routed, passed, overlooked>>

\* Nobody overlooks n any more.
NoticedByAll(n) == caller' = [c \in Callers |-> [caller[c] EXCEPT !.unseen = @ \ {n}]]

Forgotten(n) ==
    /\ passed' = [passed EXCEPT ![n] = [k \in Places |-> 0]]
    /\ overlooked' = [overlooked EXCEPT ![n] = [c \in Callers |-> 0]]

\* A new profile is available at once; an old one after its cooldown, which callers
\* that have read the clock do not notice, when it is enabled or its health is reset.
BecomesReady(n) ==
    /\ n \notin ready
    /\ profiles' = profiles \cup {n}
    /\ ready' = ready \cup {n}
    /\ \E late \in SUBSET {c \in Callers : caller[c].on} :
          caller' = [c \in Callers |->
                IF c \in late THEN [caller[c] EXCEPT !.unseen = @ \cup {n}] ELSE caller[c]]
    /\ UNCHANGED <<routed, passed, overlooked>>

\* Its health is reset, or a run succeeds: it is available by any clock.
BecomesSeen(n) ==
    /\ n \in ready
    /\ NoticedByAll(n)
    /\ UNCHANGED <<profiles, ready, routed, passed, overlooked>>

BecomesUnready(n) ==
    /\ n \in ready
    /\ ready' = ready \ {n}
    /\ NoticedByAll(n)
    /\ Forgotten(n)
    /\ UNCHANGED <<profiles, routed>>

Unregistered(n) ==
    /\ n \in profiles
    /\ profiles' = profiles \ {n}
    /\ ready' = ready \ {n}
    /\ NoticedByAll(n)
    /\ Forgotten(n)
    /\ UNCHANGED routed

RotationNext ==
    \/ \E c \in Callers : Arrives(c) \/ Departs(c) \/ \E n \in Places : SelectsTurn(c, n)
    \/ \E n \in Places :
          BecomesReady(n) \/ BecomesSeen(n) \/ BecomesUnready(n) \/ Unregistered(n)

RotationSpec == RotationInit /\ [][RotationNext]_rotationVars

(***************************************************************************)
(* Properties.                                                             *)
(***************************************************************************)
\* In one round of the wait of an available profile each other one is selected at
\* most once, whatever the others do: become available or exhausted, are added,
\* disabled or removed.  A round ends early only when a caller with an old clock
\* overlooks the profile, or the profile that the cursor names is removed.
PassedAtMostOnce == \A m, n \in Places : passed[m][n] <= 1

\* A profile that has become available is overlooked by a caller only in the tries of
\* the call that had read the clock before: rounds do not begin again without end.
OverlookedFewTimes == \A m \in Places, c \in Callers : overlooked[m][c] <= Retries

\* Every variable stays in its domain; what is ahead of a waiting profile in the
\* cyclic order has not passed it yet; a call that may overlook a profile again has
\* a try left for every time it has not yet done so.
RotationInv ==
    /\ profiles \subseteq Places
    /\ ready \subseteq profiles
    /\ routed \in Places \cup {0}
    /\ caller \in [Callers -> [on : BOOLEAN, tries : 0 .. Retries, unseen : SUBSET Places]]
    /\ \A c \in Callers : caller[c].unseen \subseteq ready /\ (~caller[c].on => caller[c] = Away)
    /\ passed \in [Places -> [Places -> {0, 1}]]
    /\ overlooked \in [Places -> [Callers -> 0 .. Retries]]
    /\ \A m \in Places :
          /\ m \notin ready => /\ \A n \in Places : passed[m][n] = 0
                               /\ \A c \in Callers : overlooked[m][c] = 0
          /\ \A n \in Between(routed, m) : passed[m][n] = 0
          /\ \A c \in Callers :
                m \in caller[c].unseen => overlooked[m][c] <= caller[c].tries
=============================================================================
