------------------------- MODULE RemoteIndexProofs -------------------------
(***************************************************************************)
(* Proofs about RemoteIndex, for any set of artifacts and any number of    *)
(* failures and restarts.  The tag that the next poll sends is that of the *)
(* index in service, except between the two steps in which reload replaces *)
(* them, and no poll is sent there.                                        *)
(***************************************************************************)
EXTENDS RemoteIndex, TLAPS

\* What serves is a verified artifact, whole.
ServedInv == idx # NoIndex => idx \in Artifacts /\ idx.sound

\* v.etag is the tag of v.idx, but for the moment between the two stores.
TagInv == pc # "stored" /\ etag # NoETag => idx # NoIndex /\ idx.etag = etag

\* Where reload stands.
ReloadInv == /\ pc \in {"off", "idle", "sent", "body", "file", "stored"}
             /\ pc = "idle" => idx # NoIndex
             /\ pc = "sent" => sent = etag
             /\ pc \in {"body", "file", "stored"} => resp \in Artifacts
             /\ pc = "stored" => idx = resp

ServeInv == /\ object \in Artifacts \cup {Missing}
            /\ ServedInv /\ TagInv /\ ReloadInv

LEMMA ServeInit == Init => ServeInv
BY DEF Init, ServeInv, ServedInv, TagInv, ReloadInv

\* Whatever the object becomes, the server does not know of it yet.
LEMMA ObjectMoves ==
    ASSUME ServeInv, object' \in Artifacts \cup {Missing}, UNCHANGED <<reloadVars, idx, etag>>
    PROVE  ServeInv'
BY DEF reloadVars, ServeInv, ServedInv, TagInv, ReloadInv

\* reload returns with what it found.
LEMMA ReturnKeeps ==
    ASSUME ServeInv, pc # "stored", EndReload, UNCHANGED <<object, idx, etag>>
    PROVE  ServeInv'
BY DEF ServeInv, ServedInv, TagInv, ReloadInv, EndReload, Rests

\* What LoadIndex accepts is the artifact itself, not a cut copy of it.
LEMMA AcceptedIsWhole ==
    ASSUME NEW a \in Artifacts, NEW complete, Verifies(a, complete)
    PROVE  Copy(a, complete) = a /\ a.sound
BY DEF Verifies, Copy

\* The process starts again with nothing, and so with no index.
LEMMA ServeReset ==
    ASSUME ServeInv, Reset PROVE ServeInv'
BY DEF Reset, EndReload, Rests, ServeInv, ServedInv, TagInv, ReloadInv

LEMMA ServeStep == ServeInv /\ [Next]_vars => ServeInv'
<1> SUFFICES ASSUME ServeInv, [Next]_vars PROVE ServeInv'
  OBVIOUS
<1>1. CASE PutObject
  BY <1>1, ObjectMoves DEF PutObject
<1>2. CASE Poll
  BY <1>2 DEF Poll, budgets, ServeInv, ServedInv, TagInv, ReloadInv
<1>3. CASE Answer
  <2>1. CASE NotModified \/ object = Missing
    BY <1>3, <2>1, ReturnKeeps DEF Answer
  <2>2. CASE ~(NotModified \/ object = Missing)
    BY <1>3, <2>2 DEF Answer, ETagOnAnswer, ServeInv, ServedInv, TagInv, ReloadInv
  <2> QED
    BY <2>1, <2>2
<1>4. CASE Download
  BY <1>4 DEF Download, budgets, ServeInv, ServedInv, TagInv, ReloadInv
<1>5. CASE DownloadCut
  BY <1>5 DEF DownloadCut, ServeInv, ServedInv, TagInv, ReloadInv
<1>6. CASE Verify
  <2>1. CASE Verifies(resp, whole)
    <3>1. resp \in Artifacts
      BY <1>6 DEF Verify, ServeInv, ReloadInv
    <3>2. /\ pc' = "stored" /\ idx' = resp /\ resp.sound
          /\ UNCHANGED <<object, sent, resp, etag>>
      BY <1>6, <2>1, <3>1, AcceptedIsWhole DEF Verify
    <3> QED
      BY <3>1, <3>2, NilAssumption DEF ServeInv, ServedInv, TagInv, ReloadInv
  <2>2. CASE ~Verifies(resp, whole)
    BY <1>6, <2>2, ReturnKeeps DEF Verify
  <2> QED
    BY <2>1, <2>2
<1>7. CASE StoreETag
  <2>1. /\ idx \in Artifacts /\ idx # NoIndex /\ idx.sound
        /\ etag' = idx.etag /\ pc' = "idle"
        /\ UNCHANGED <<object, idx>>
    BY <1>7, NilAssumption
    DEF StoreETag, ETagOnSwap, EndReload, Rests, ServeInv, ServedInv, ReloadInv
  <2> QED
    BY <2>1 DEF ServeInv, ServedInv, TagInv, ReloadInv
<1>8. CASE ReloadFails
  BY <1>8, ReturnKeeps DEF ReloadFails
<1>9. CASE Stop
  BY <1>9, ServeReset DEF Stop
<1>10. CASE UNCHANGED vars
  BY <1>10 DEF vars, reloadVars, ServeInv, ServedInv, TagInv, ReloadInv
<1> QED
  BY <1>1, <1>2, <1>3, <1>4, <1>5, <1>6, <1>7, <1>8, <1>9, <1>10 DEF Next, Reload

LEMMA ServeAlways == Spec => []ServeInv
<1>1. Init => ServeInv
  BY ServeInit
<1>2. ServeInv /\ [Next]_vars => ServeInv'
  BY ServeStep
<1> QED
  BY <1>1, <1>2, PTL DEF Spec

\* Fail-fast and fail-static: whatever is at the URL and however its copies
\* are cut, a running server has an index, and it is a verified one.
THEOREM AlwaysServesVerified == Spec => []ServesVerified
<1>1. ServeInv => ServesVerified
  BY DEF ServeInv, ServedInv, ReloadInv, ServesVerified
<1> QED
  BY <1>1, ServeAlways, PTL

\* A tag that is the object's is that of an index that is the object.
LEMMA TagTellsObject == ServeInv => NotModifiedIsSound
<1> SUFFICES ASSUME ServeInv, pc = "sent", NotModified PROVE idx = object
  BY DEF NotModifiedIsSound
<1>1. object \in Artifacts /\ object.etag = etag /\ etag # NoETag
  BY DEF NotModified, ServeInv, ReloadInv
<1>2. idx \in Artifacts /\ idx.etag = etag
  BY <1>1 DEF ServeInv, ServedInv, TagInv
<1> QED
  BY <1>1, <1>2, ETagAssumption

\* A 304 is never answered to a server whose index is not the object: neither
\* a failed download or verification nor a swap leaves a tag that hides the
\* artifact the server has yet to adopt.
THEOREM NotModifiedAlwaysSound == Spec => []NotModifiedIsSound
<1>1. ServeInv => NotModifiedIsSound
  BY TagTellsObject
<1> QED
  BY <1>1, ServeAlways, PTL

-----------------------------------------------------------------------------
(* Types: what is between the parts of reload is of its own kind.          *)

LEMMA RemoteTypeInit == Init => TypeOK
<1> SUFFICES ASSUME Init PROVE TypeOK
  OBVIOUS
<1>1. /\ object \in Artifacts \cup {Missing} /\ pc = "off" /\ idx = NoIndex
      /\ sent = NoETag /\ resp = Missing /\ whole = FALSE /\ etag = NoETag
  BY DEF Init
<1>2. faults \in 0 .. MaxFaults /\ stops \in 0 .. MaxStops
  BY BoundAssumption DEF Init
<1> QED
  BY <1>1, <1>2 DEF TypeOK

LEMMA EndReloadTyped ==
    ASSUME EndReload
    PROVE  /\ pc' \in {"off", "idle"} /\ sent' = NoETag
           /\ resp' = Missing /\ whole' = FALSE
BY DEF EndReload, Rests

LEMMA RemoteTypeStep == ServeInv /\ TypeOK /\ [Next]_vars => TypeOK'
<1> SUFFICES ASSUME ServeInv, TypeOK, [Next]_vars PROVE TypeOK'
  OBVIOUS
<1> USE BoundAssumption DEF TypeOK
<1>1. CASE PutObject
  BY <1>1 DEF PutObject, reloadVars, budgets
<1>2. CASE Poll
  BY <1>2 DEF Poll, budgets
<1>3. CASE Answer
  <2>1. CASE NotModified \/ object = Missing
    BY <1>3, <2>1, EndReloadTyped DEF Answer, budgets
  <2>2. CASE ~(NotModified \/ object = Missing)
    BY <1>3, <2>2 DEF Answer, ETagOnAnswer, budgets
  <2> QED
    BY <2>1, <2>2
<1>4. CASE Download
  BY <1>4 DEF Download, budgets
<1>5. CASE DownloadCut
  BY <1>5 DEF DownloadCut
<1>6. CASE Verify
  <2>1. CASE Verifies(resp, whole)
    <3>1. resp \in Artifacts
      BY <1>6 DEF Verify, ServeInv, ReloadInv
    <3>2. /\ pc' = "stored" /\ idx' = resp
          /\ UNCHANGED <<object, sent, resp, whole, etag, faults, stops>>
      BY <1>6, <2>1, <3>1, AcceptedIsWhole DEF Verify, budgets
    <3> QED
      BY <3>1, <3>2
  <2>2. CASE ~Verifies(resp, whole)
    BY <1>6, <2>2, EndReloadTyped DEF Verify, budgets
  <2> QED
    BY <2>1, <2>2
<1>7. CASE StoreETag
  <2>1. resp \in Artifacts
    BY <1>7 DEF StoreETag, ServeInv, ReloadInv
  <2> QED
    BY <1>7, <2>1, EndReloadTyped DEF StoreETag, ETagOnSwap, budgets
<1>8. CASE ReloadFails
  BY <1>8, EndReloadTyped DEF ReloadFails
<1>9. CASE Stop
  BY <1>9, EndReloadTyped DEF Stop, Reset
<1>10. CASE UNCHANGED vars
  BY <1>10 DEF vars, reloadVars, budgets
<1> QED
  BY <1>1, <1>2, <1>3, <1>4, <1>5, <1>6, <1>7, <1>8, <1>9, <1>10 DEF Next, Reload

\* The types: what is loaded is an artifact as it was published, never a copy
\* that was cut, and a tag is never one that no artifact has.
THEOREM RemoteTypeCorrect == Spec => []TypeOK
<1>1. ServeInv /\ TypeOK /\ [Next]_vars => TypeOK'
  BY RemoteTypeStep
<1> QED
  BY RemoteTypeInit, ServeAlways, <1>1, PTL DEF Spec
=============================================================================
