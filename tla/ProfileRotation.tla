-------------------------- MODULE ProfileRotation --------------------------
(***************************************************************************)
(* The rotation of RoundRobin in the life of the profiles: the variables   *)
(* of RoundRobin are added to ProfileLifecycle to watch it.  They follow   *)
(* registry, availability, cursor and the calls of select_profile, count   *)
(* who is passed over and overlooked, and have no influence on any step.   *)
(***************************************************************************)
EXTENDS ProfileLifecycle, RoundRobin

\* The call of select_profile that o is in: with the retry that fails to record its
\* selection the try is over, and what it has not seen is ready but in a cooldown by
\* its clock.
CallerOf(o) ==
    IF Choosing(o)
    THEN [on |-> TRUE,
          tries |-> op[o].tries + (IF op[o].pc = "record" THEN 1 ELSE 0),
          unseen |-> Available \ SeenAvailable(o)]
    ELSE Away

\* What the rotation sees of the profiles.
Watching ==
    /\ profiles = Registered
    /\ ready = Available
    /\ routed = cursor
    /\ caller = [o \in Ops |-> CallerOf(o)]

\* The process o selects the next profile, rather than finding none.
SelectsSome(o) == SeenAvailable(o) # {} /\ SelectsNext(o)

\* Whoever is not available any more counts anew.
OnlyReady(f, none) == [m \in Places |-> IF m \in ready' THEN f[m] ELSE none]

CountedNext ==
    /\ Next
    /\ profiles' = Registered' /\ ready' = Available' /\ routed' = cursor'
    /\ caller' = [o \in Ops |-> CallerOf(o)']
    /\ \/ \E o \in Ops :
            /\ SelectsSome(o)
            /\ passed' = Passes(o, cursor')
            /\ overlooked' = Misses(o, cursor')
       \/ /\ \A o \in Ops : ~SelectsSome(o)
          /\ passed' = OnlyReady(passed, [k \in Places |-> 0])
          /\ overlooked' = OnlyReady(overlooked, [c \in Callers |-> 0])

CountedSpec == Init /\ RotationInit /\ [][CountedNext]_<<vars, rotationVars>>
=============================================================================
