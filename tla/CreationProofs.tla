---------------------------- MODULE CreationProofs ----------------------------
(***************************************************************************)
(* Images and Creation.  For any number of creators, pools and versions:   *)
(* one pull runs at a time, whoever waits waits for it, and no pull brings *)
(* an older version than the one it replaces.  For any number of           *)
(* identifiers: those of machines are distinct until the counter has come  *)
(* around, and Creation only adds to Images, so what is proved of Images   *)
(* holds of it.                                                            *)
(***************************************************************************)
EXTENDS Creation, TLAPS

\* What has been pulled before the running pull resolved its tag is no newer.
ImagesInv ==
    /\ TypeOK
    /\ WaitsForPull
    /\ local <= registry
    /\ \A c \in Creator :
          pulled[c] # 0 => step[c] = "pull" /\ local <= pulled[c] /\ pulled[c] <= registry

LEMMA InitInv == Init => ImagesInv
<1> SUFFICES ASSUME Init PROVE ImagesInv
  OBVIOUS
<1>1. TypeOK
  BY BoundsAssumption DEF Init, TypeOK, Version
<1> QED BY <1>1, NoCreatorAssumption DEF Init, ImagesInv, WaitsForPull

\* A call before and after its pull: its step is the only one that changes.
LEMMA CallKeepsInv ==
    ASSUME ImagesInv, NEW c \in Creator,
           Ask(c) \/ Never(c) \/ Check(c) \/ Recheck(c) \/ CheckFails(c) \/ Return(c)
    PROVE  ImagesInv'
<1> USE NoCreatorAssumption, PoolAssumption
<1>1. ASSUME Ask(c) PROVE ImagesInv'
  BY <1>1 DEF Ask, ImagesInv, TypeOK, WaitsForPull, Version, pullVars
<1>2. ASSUME NEW here \in {"never", "check", "recheck"},
             NEW absent \in {"failed", "recheck", "join"},
             FindLocal(c, here, absent)
      PROVE  ImagesInv'
  BY <1>2 DEF FindLocal, ImagesInv, TypeOK, WaitsForPull, Version, pullVars
<1>3. ASSUME CheckFails(c) PROVE ImagesInv'
  BY <1>3 DEF CheckFails, ImagesInv, TypeOK, WaitsForPull, Version, pullVars
<1>4. ASSUME Return(c) PROVE ImagesInv'
  BY <1>4 DEF Return, ImagesInv, TypeOK, WaitsForPull, Version, pullVars
<1> QED BY <1>1, <1>2, <1>3, <1>4 DEF Never, Check, Recheck

\* Who waits has a leader, and ends with it: afterwards nobody pulls or waits.
LEMMA SharedEnds ==
    ASSUME ImagesInv, NEW c \in Creator, step[c] = "pull",
           NEW outcome \in {"done", "failed"}, NEW version \in Version \cup {0},
           Shared(c, outcome, version)
    PROVE  /\ step' \in [Creator -> {"idle", "never", "check", "recheck", "join",
                                     "pull", "wait", "done", "failed"}]
           /\ got' \in [Creator -> Version \cup {0}]
           /\ leader' = NoCreator
           /\ pulled' = [d \in Creator |-> 0]
           /\ \A d \in Creator : step'[d] \notin {"pull", "wait"}
<1>1. \A d \in Creator : d # c => step[d] # "pull"
  BY DEF ImagesInv, WaitsForPull
<1>2. \A d \in Creator : d # c => pulled[d] = 0
  BY <1>1 DEF ImagesInv, TypeOK
<1>3. pulled' = [d \in Creator |-> 0]
  BY <1>2 DEF Shared, ImagesInv, TypeOK
<1> QED BY <1>1, <1>3 DEF Shared, Sharing, ImagesInv, TypeOK

LEMMA PullKeepsInv ==
    ASSUME ImagesInv, NEW c \in Creator,
           Join(c) \/ Resolve(c) \/ Pulled(c) \/ PullFails(c)
    PROVE  ImagesInv'
<1> USE NoCreatorAssumption
<1>1. ASSUME Join(c) PROVE ImagesInv'
  BY <1>1 DEF Join, ImagesInv, TypeOK, WaitsForPull, pullVars
<1>2. ASSUME Resolve(c) PROVE ImagesInv'
  BY <1>2 DEF Resolve, ImagesInv, TypeOK, WaitsForPull, Version, callVars
<1>3. ASSUME Pulled(c) PROVE ImagesInv'
  <2>1. pulled[c] \in Version /\ pulled[c] <= registry
    BY <1>3 DEF Pulled, ImagesInv, TypeOK
  <2>2. /\ leader' = NoCreator /\ pulled' = [d \in Creator |-> 0]
        /\ \A d \in Creator : step'[d] \notin {"pull", "wait"}
        /\ step' \in [Creator -> {"idle", "never", "check", "recheck", "join",
                                  "pull", "wait", "done", "failed"}]
        /\ got' \in [Creator -> Version \cup {0}]
    BY <1>3, <2>1, SharedEnds DEF Pulled
  <2> QED BY <1>3, <2>1, <2>2 DEF Pulled, ImagesInv, TypeOK, WaitsForPull
<1>4. ASSUME PullFails(c) PROVE ImagesInv'
  <2>1. /\ leader' = NoCreator /\ pulled' = [d \in Creator |-> 0]
        /\ \A d \in Creator : step'[d] \notin {"pull", "wait"}
        /\ step' \in [Creator -> {"idle", "never", "check", "recheck", "join",
                                  "pull", "wait", "done", "failed"}]
        /\ got' \in [Creator -> Version \cup {0}]
    BY <1>4, SharedEnds DEF PullFails
  <2> QED BY <1>4, <2>1 DEF PullFails, ImagesInv, TypeOK, WaitsForPull
<1> QED BY <1>1, <1>2, <1>3, <1>4

LEMMA NextInv == ImagesInv /\ [Next]_vars => ImagesInv'
<1> SUFFICES ASSUME ImagesInv, [Next]_vars PROVE ImagesInv'
  OBVIOUS
<1>1. ASSUME NEW p \in Pool, Cancel(p) PROVE ImagesInv'
  BY <1>1 DEF Cancel, ImagesInv, TypeOK, WaitsForPull, callVars, pullVars
<1>2. ASSUME RemoveFinds PROVE ImagesInv'
  BY <1>2 DEF RemoveFinds, ImagesInv, TypeOK, WaitsForPull, callVars, pullVars
<1>3. ASSUME RemoveDeletes PROVE ImagesInv'
  BY <1>3 DEF RemoveDeletes, ImagesInv, TypeOK, WaitsForPull, Version, callVars, pullVars
<1>4. ASSUME RemoveFails PROVE ImagesInv'
  BY <1>4 DEF RemoveFails, ImagesInv, TypeOK, WaitsForPull, callVars, pullVars
<1>5. ASSUME Publish PROVE ImagesInv'
  BY <1>5, BoundsAssumption
  DEF Publish, ImagesInv, TypeOK, WaitsForPull, Version, callVars, pullVars
<1>6. CASE UNCHANGED vars
  BY <1>6 DEF vars, ImagesInv, TypeOK, WaitsForPull, callVars, pullVars
<1> QED BY <1>1, <1>2, <1>3, <1>4, <1>5, <1>6, CallKeepsInv, PullKeepsInv
       DEF Next, CallStep, Around

LEMMA Always == Spec => []ImagesInv
BY InitInv, NextInv, PTL DEF Spec

\* One pull runs at a time and whoever waits waits for it (image.go:71-73).
THEOREM OnePull == Spec => []WaitsForPull
<1>1. ImagesInv => WaitsForPull
  BY DEF ImagesInv
<1> QED BY <1>1, Always, PTL

\* No pull puts an older version in the place of a newer one: a pull resolves its
\* tag after the one before it has ended.
THEOREM VersionsAdvance == Spec => NoRollback
<1>1. ASSUME ImagesInv, [Next]_vars PROVE [local' # 0 => local' >= local]_vars
  <2>1. local \in Nat
    BY <1>1, BoundsAssumption DEF ImagesInv, TypeOK, Version
  <2>2. CASE \E c \in Creator : Pulled(c)
    BY <1>1, <2>1, <2>2, BoundsAssumption DEF Pulled, ImagesInv, TypeOK, Version
  <2>3. CASE ~\E c \in Creator : Pulled(c)
    <3>1. local' = local \/ local' = 0
      BY <1>1, <2>3
      DEF Next, CallStep, Around, Ask, Never, Check, Recheck, FindLocal, CheckFails, Join,
          Resolve, PullFails, Return, Cancel, RemoveFinds, RemoveDeletes, RemoveFails, Publish, vars
    <3> QED BY <2>1, <3>1
  <2> QED BY <2>2, <2>3
<1> QED BY <1>1, Always, PTL DEF Spec, NoRollback

\* Until it has come around the counter has told every identifier in use, and each
\* to one creator.
CidInv ==
    /\ CreationTypeOK
    /\ made <= CIDs - 3 =>
          /\ nextCID = 2 + made
          /\ \A c \in Creator : \A n \in cid[c] : 3 <= n /\ n <= nextCID
          /\ \A c, d \in Creator : \A n \in cid[c] : n \in cid[d] => c = d

LEMMA CreationInitInv == CreationInit => CidInv
<1> SUFFICES ASSUME CreationInit PROVE CidInv
  OBVIOUS
<1>1. CreationTypeOK
  BY CidAssumption DEF CreationInit, CreationTypeOK
<1> QED BY <1>1 DEF CreationInit, CidInv

LEMMA TakeCIDKeepsInv == ASSUME CidInv, NEW c \in Creator, TakeCID(c) PROVE CidInv'
<1>1. nextCID \in 0 .. CIDs - 1 /\ made \in Nat /\ CIDs \in Nat /\ CIDs > 3
  BY CidAssumption DEF CidInv, CreationTypeOK
<1>2. nextCID' \in 0 .. CIDs - 1 /\ made' = made + 1 /\ made' \in 0 .. MaxMade
  BY <1>1, CidAssumption DEF TakeCID
<1>3. /\ cid' \in [Creator -> {{}} \cup {{n} : n \in 0 .. CIDs - 1}]
      /\ cid'[c] = {nextCID'} /\ \A d \in Creator \ {c} : cid'[d] = cid[d]
  BY <1>2 DEF TakeCID, CidInv, CreationTypeOK
<1>4. CreationTypeOK'
  BY <1>2, <1>3 DEF CreationTypeOK
<1>5. ASSUME made' <= CIDs - 3
      PROVE  /\ nextCID' = 2 + made'
             /\ \A d \in Creator : \A n \in cid'[d] : 3 <= n /\ n <= nextCID'
             /\ \A d, e \in Creator : \A n \in cid'[d] : n \in cid'[e] => d = e
  <2>1. made <= CIDs - 3 /\ nextCID = 2 + made /\ nextCID + 1 < CIDs
    BY <1>1, <1>2, <1>5 DEF CidInv
  <2>2. nextCID' = nextCID + 1
    BY <1>1, <2>1 DEF TakeCID
  <2>3. \A d \in Creator : \A n \in cid[d] : n \in Nat /\ 3 <= n /\ n <= nextCID
    BY <2>1 DEF CidInv, CreationTypeOK
  <2>4. \A d \in Creator : \A n \in cid'[d] : 3 <= n /\ n <= nextCID'
    BY <1>1, <1>3, <2>1, <2>2, <2>3
  <2>5. \A d \in Creator : nextCID' \in cid'[d] => d = c
    BY <1>1, <1>3, <2>2, <2>3
  <2>6. \A d, e \in Creator : \A n \in cid'[d] : n \in cid'[e] => d = e
    BY <1>3, <2>1, <2>5 DEF CidInv
  <2> QED BY <1>1, <1>2, <2>1, <2>2, <2>4, <2>6
<1> QED BY <1>4, <1>5 DEF CidInv

LEMMA CreationNextInv ==
    CidInv /\ [CreationNext]_<<vars, creationVars>> => CidInv'
<1> SUFFICES ASSUME CidInv, [CreationNext]_<<vars, creationVars>> PROVE CidInv'
  OBVIOUS
<1>1. ASSUME NEW c \in Creator, Release(c) PROVE CidInv'
  <2>1. /\ cid' \in [Creator -> {{}} \cup {{n} : n \in 0 .. CIDs - 1}]
        /\ cid'[c] = {} /\ \A d \in Creator \ {c} : cid'[d] = cid[d]
    BY <1>1 DEF Release, CidInv, CreationTypeOK
  <2>2. CreationTypeOK'
    BY <1>1, <2>1 DEF Release, CidInv, CreationTypeOK
  <2> QED BY <1>1, <2>1, <2>2 DEF Release, CidInv
<1>2. ASSUME UNCHANGED creationVars PROVE CidInv'
  BY <1>2 DEF creationVars, CidInv, CreationTypeOK
<1> QED BY <1>1, <1>2, TakeCIDKeepsInv DEF CreationNext

\* No two machines have the same CID until the counter has come around, whoever
\* makes them and in whatever order.
THEOREM DistinctCIDs == CreationSpec => []CIDsDistinct
<1>1. CidInv => CIDsDistinct
  BY DEF CidInv, CreationTypeOK, CIDsDistinct
<1> QED BY <1>1, CreationInitInv, CreationNextInv, PTL DEF CreationSpec

\* What Creation adds leaves Images its behaviours: whatever its makers of machines
\* do, a step of Creation is one of Images or leaves its variables alone.
LEMMA CreationIsImages == CreationSpec => Init /\ [][Next]_vars
<1>1. CreationInit => Init
  BY DEF CreationInit
<1>2. [CreationNext]_<<vars, creationVars>> => [Next]_vars
  BY DEF CreationNext, TakeCID, Release, Next
<1> QED BY <1>1, <1>2, PTL DEF CreationSpec

\* One pull runs at a time, and whoever waits waits for it, also while machines are
\* made of what was pulled.
THEOREM OnePullWhileCreating == CreationSpec => []WaitsForPull
<1>1. ImagesInv => WaitsForPull
  BY DEF ImagesInv
<1> QED BY <1>1, CreationIsImages, InitInv, NextInv, PTL

=============================================================================
