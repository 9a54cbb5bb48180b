------------------------------- MODULE Images -------------------------------
(***************************************************************************)
(* src/server/image.go: the creators of all pools ensure one image, by the *)
(* pull policy of their pool, while the registry moves its tag and the API *)
(* removes it.  Content is a version: the number the tag had.              *)
(*                                                                         *)
(* pullGroup is singleflight: who calls Do while a pull runs waits for it, *)
(* whatever becomes of its own context, and gets its result.               *)
(***************************************************************************)
EXTENDS Integers

CONSTANTS
    Creator,     \* the goroutines that call ensureImage
    Pool,        \* the pools they create runners for
    PoolOf,      \* ... each for one
    Policy,      \* RunnerConfig.ImagePullPolicy of each pool
    MaxVersion,  \* bound on the versions published
    Faults,      \* whether containerd and the registry may fail
    NoCreator    \* nobody

ASSUME PoolAssumption ==
    /\ PoolOf \in [Creator -> Pool]
    /\ Policy \in [Pool -> {"Always", "Never", "IfNotPresent"}]
ASSUME NoCreatorAssumption == NoCreator \notin Creator
ASSUME BoundsAssumption == MaxVersion \in Nat \ {0} /\ Faults \in BOOLEAN

VARIABLES
    registry, \* the version the tag names
    local,    \* the version containerd has; 0: it has no such image
    stopped,  \* the pools whose context is cancelled
    step,     \* where each call of ensureImage is
    got,      \* the version it has been given
    leader,   \* the creator whose pull runs
    pulled,   \* the version each pulls; 0: the tag is not resolved
    remove    \* where removeImage is

callVars == <<step, got>>
pullVars == <<leader, pulled>>
vars     == <<registry, local, stopped, callVars, pullVars, remove>>

Version == 1 .. MaxVersion

\* Every variable has its type.
TypeOK ==
    /\ registry \in Version /\ local \in Version \cup {0}
    /\ stopped \subseteq Pool
    /\ step \in [Creator -> {"idle", "never", "check", "recheck", "join", "pull",
                             "wait", "done", "failed"}]
    /\ got \in [Creator -> Version \cup {0}]
    /\ leader \in Creator \cup {NoCreator}
    /\ pulled \in [Creator -> Version \cup {0}]
    /\ remove \in {"idle", "found"}

Init ==
    /\ registry = 1 /\ local \in {0, 1}
    /\ stopped = {}
    /\ step = [c \in Creator |-> "idle"]
    /\ got = [c \in Creator |-> 0]
    /\ leader = NoCreator /\ pulled = [c \in Creator |-> 0]
    /\ remove = "idle"

-----------------------------------------------------------------------------
(* ensureImage *)

Ask(c) ==
    /\ step[c] = "idle" /\ PoolOf[c] \notin stopped
    /\ step' = [step EXCEPT ![c] = CASE Policy[PoolOf[c]] = "Always" -> "join"
                                     [] Policy[PoolOf[c]] = "Never" -> "never"
                                     [] OTHER -> "check"]
    /\ got' = [got EXCEPT ![c] = 0]
    /\ UNCHANGED <<registry, local, stopped, pullVars, remove>>

\* A call with a cancelled context, or to a service that is down, is an error.
MayFail(c) == Faults \/ PoolOf[c] \in stopped

\* getLocalImage, for a policy that pulls nothing, and twice before a pull.
FindLocal(c, here, absent) ==
    /\ step[c] = here
    /\ IF local # 0
       THEN /\ step' = [step EXCEPT ![c] = "done"]
            /\ got' = [got EXCEPT ![c] = local]
       ELSE /\ step' = [step EXCEPT ![c] = absent]
            /\ got' = got
    /\ UNCHANGED <<registry, local, stopped, pullVars, remove>>

CheckFails(c) ==
    /\ step[c] \in {"never", "check", "recheck"} /\ MayFail(c)
    /\ step' = [step EXCEPT ![c] = "failed"]
    /\ UNCHANGED <<registry, local, stopped, got, pullVars, remove>>

Never(c)   == FindLocal(c, "never", "failed")
Check(c)   == FindLocal(c, "check", "recheck")
Recheck(c) == FindLocal(c, "recheck", "join")

\* A mutant of Join: every caller pulls.
JoinAlone(c) ==
    /\ step[c] = "join"
    /\ step' = [step EXCEPT ![c] = "pull"]
    /\ leader' = c
    /\ UNCHANGED <<registry, local, stopped, got, pulled, remove>>

\* pullGroup.Do: the first caller pulls, the others wait.
Join(c) ==
    /\ step[c] = "join"
    /\ IF leader = NoCreator
       THEN /\ step' = [step EXCEPT ![c] = "pull"]
            /\ leader' = c
       ELSE /\ step' = [step EXCEPT ![c] = "wait"]
            /\ leader' = leader
    /\ UNCHANGED <<registry, local, stopped, got, pulled, remove>>

\* containerd resolves the tag first, ...
Resolve(c) ==
    /\ step[c] = "pull" /\ pulled[c] = 0
    /\ pulled' = [pulled EXCEPT ![c] = registry]
    /\ UNCHANGED <<registry, local, stopped, callVars, leader, remove>>

\* Do ends for its leader and for all that wait.
Sharing(c) == {c} \cup {d \in Creator : step[d] = "wait"}

Shared(c, outcome, version) ==
    /\ step' = [d \in Creator |-> IF d \in Sharing(c) THEN outcome ELSE step[d]]
    /\ got' = [d \in Creator |-> IF d \in Sharing(c) THEN version ELSE got[d]]
    /\ leader' = NoCreator
    /\ pulled' = [pulled EXCEPT ![c] = 0]

\* ... then the image takes the name.
Pulled(c) ==
    /\ step[c] = "pull" /\ pulled[c] # 0
    /\ local' = pulled[c]
    /\ Shared(c, "done", pulled[c])
    /\ UNCHANGED <<registry, stopped, remove>>

\* A mutant of PullFails: those that wait are not told.
PullFailsAlone(c) ==
    /\ step[c] = "pull" /\ MayFail(c)
    /\ step' = [step EXCEPT ![c] = "failed"]
    /\ leader' = NoCreator
    /\ pulled' = [pulled EXCEPT ![c] = 0]
    /\ UNCHANGED <<registry, local, stopped, got, remove>>

\* The pull runs with the leader's context: its end fails all that wait.
PullFails(c) ==
    /\ step[c] = "pull" /\ MayFail(c)
    /\ Shared(c, "failed", 0)
    /\ UNCHANGED <<registry, local, stopped, remove>>

\* The creator goes on, or ends with the error; it may be another by the next call.
Return(c) ==
    /\ step[c] \in {"done", "failed"}
    /\ step' = [step EXCEPT ![c] = "idle"]
    /\ UNCHANGED <<registry, local, stopped, got, pullVars, remove>>

-----------------------------------------------------------------------------
(* Around it: Pool.Stop, RemoveImage, and the registry *)

Cancel(p) ==
    /\ p \notin stopped
    /\ stopped' = stopped \cup {p}
    /\ UNCHANGED <<registry, local, callVars, pullVars, remove>>

RemoveFinds ==
    /\ remove = "idle" /\ local # 0
    /\ remove' = "found"
    /\ UNCHANGED <<registry, local, stopped, callVars, pullVars>>

\* The name may be gone, or name another version, by now.
RemoveDeletes ==
    /\ remove = "found"
    /\ local' = 0 /\ remove' = "idle"
    /\ UNCHANGED <<registry, stopped, callVars, pullVars>>

\* Delete answers with an error, or the caller has gone.
RemoveFails ==
    /\ remove = "found"
    /\ remove' = "idle"
    /\ UNCHANGED <<registry, local, stopped, callVars, pullVars>>

Publish ==
    /\ registry < MaxVersion
    /\ registry' = registry + 1
    /\ UNCHANGED <<local, stopped, callVars, pullVars, remove>>

CallStep(c) ==
    \/ Never(c) \/ Check(c) \/ Recheck(c) \/ CheckFails(c)
    \/ Join(c) \/ Resolve(c) \/ Pulled(c) \/ PullFails(c)

Around == (\E p \in Pool : Cancel(p)) \/ RemoveFinds \/ RemoveDeletes \/ RemoveFails \/ Publish

Next == (\E c \in Creator : Ask(c) \/ CallStep(c) \/ Return(c)) \/ Around

\* The scheduler runs the creators, and a pull ends in some way.
Spec == Init /\ [][Next]_vars /\ \A c \in Creator : WF_vars(CallStep(c))

-----------------------------------------------------------------------------
(* Properties *)

\* A pull never puts an older version in the place of a newer one: only one runs
\* at a time, so the last to end is the last to have resolved the tag
\* (image.go:71-73).
NoRollback == [][local' # 0 => local' >= local]_vars

\* Who waits waits for a pull that runs, and it is one pull.
WaitsForPull ==
    /\ \A c \in Creator : step[c] = "pull" <=> leader = c
    /\ \A c \in Creator : step[c] = "wait" => leader # NoCreator

\* A call that waits for another creator's pull gets what that pull gets, and
\* every call returns, in whichever pool the pull's context ends.
Ended == {"idle", "done", "failed"}
EnsureEnds == \A c \in Creator : step[c] \notin Ended ~> step[c] \in Ended

=============================================================================
