---------------------------- MODULE RemoteIndex ----------------------------
(***************************************************************************)
(* coupon.RemoteValidator: an instance of the server that follows the      *)
(* published index by polling its URL with If-None-Match, verifies what it *)
(* downloads and swaps it in behind an atomic pointer.                     *)
(*                                                                         *)
(* An artifact is [codes, sound, etag]: its records, whether they can be   *)
(* trusted, and the ETag the store serves it with, NoETag if it serves     *)
(* none.  The store replaces the object atomically and may do so between   *)
(* any two steps of a reload; it answers from one version of the object,   *)
(* headers and body alike.  The layout of the file is abstracted to what   *)
(* LoadIndex decides: a copy cut short has the wrong size, whatever cut    *)
(* it, and an object above the 64 MiB that are downloaded is not sound.    *)
(***************************************************************************)
EXTENDS Integers

CONSTANTS Artifacts, \* what may be found at the URL
          NoETag,    \* the header is absent, v.etag is ""
          Missing,   \* nothing at the URL
          NoIndex,   \* v.idx is nil
          MaxFaults, \* bound: failed polls
          MaxStops   \* bound: restarts of the server

\* Two artifacts the store tells apart by content have different ETags.
ASSUME ETagAssumption == \A a, b \in Artifacts : a.etag = b.etag /\ a.etag # NoETag => a = b
ASSUME BoundAssumption == MaxFaults \in Nat /\ MaxStops \in Nat
ASSUME NilAssumption == Missing \notin Artifacts /\ NoIndex \notin Artifacts

VARIABLES
    object, \* the artifact at the URL
    pc,     \* reload: "off", "idle", "sent", "body", "file" or "stored"
    sent,   \* If-None-Match of the request in flight
    resp,   \* the artifact of the 200 answer
    whole,  \* the downloaded file is the whole body
    idx,    \* v.idx: what was in the file when it was loaded
    etag,   \* v.etag
    faults, stops

reloadVars == <<pc, sent, resp, whole>>
budgets == <<faults, stops>>
vars == <<object, reloadVars, idx, etag, budgets>>

-----------------------------------------------------------------------------
(* Rules of the code, each preceded by faulty variants.                    *)

\* 304 is answered only to the tag of the object there is.
NotModified == sent # NoETag /\ object # Missing /\ object.etag = sent

\* The copy of an artifact that a download leaves in the temporary file.
Copy(a, complete) == IF complete THEN a ELSE [a EXCEPT !.sound = FALSE]

\* LoadIndex: magic, size, CRC and sortedness.
VerifiesUnsized(a, complete) == a.sound
Verifies(a, complete) == a.sound /\ complete

\* Where reload leaves the server: without an index there is none.
RestsRunning(served) == "idle"
Rests(served) == IF served = NoIndex THEN "off" ELSE "idle"

\* v.etag after the answer has arrived, and after verification has failed.
ETagOnAnswerEarly == object.etag
ETagOnAnswer == etag

\* v.etag after the swap.
ETagOnSwapSticky == IF etag = NoETag THEN resp.etag ELSE etag
ETagOnSwap == resp.etag

-----------------------------------------------------------------------------

Init == /\ object \in Artifacts \cup {Missing}
        /\ pc = "off"
        /\ sent = NoETag /\ resp = Missing /\ whole = FALSE
        /\ idx = NoIndex
        /\ etag = NoETag
        /\ faults = 0 /\ stops = 0

\* The pipeline publishes, or the object disappears.
PutObject == /\ object' \in (Artifacts \cup {Missing}) \ {object}
             /\ UNCHANGED <<reloadVars, idx, etag, budgets>>

\* reload returns, with or without an error; NewRemoteValidator is fail-fast.
EndReload == /\ pc' = Rests(idx')
             /\ sent' = NoETag /\ resp' = Missing /\ whole' = FALSE

\* The process is started, or the ticker fires.
Poll == /\ pc \in {"off", "idle"}
        /\ pc' = "sent"
        /\ sent' = etag
        /\ UNCHANGED <<object, resp, whole, idx, etag, budgets>>

\* The store answers: 304, 404, or 200 with the object.
Answer == /\ pc = "sent"
          /\ IF NotModified \/ object = Missing
             THEN UNCHANGED <<idx, etag>> /\ EndReload
             ELSE /\ pc' = "body"
                  /\ resp' = object
                  /\ etag' = ETagOnAnswer
                  /\ UNCHANGED <<sent, whole, idx>>
          /\ UNCHANGED <<object, budgets>>

\* The body arrives whole.
Download == /\ pc = "body"
            /\ pc' = "file"
            /\ whole' = TRUE
            /\ UNCHANGED <<object, sent, resp, idx, etag, budgets>>

\* The body ends early and nothing says so.
DownloadCut == /\ pc = "body" /\ faults < MaxFaults
               /\ pc' = "file"
               /\ faults' = faults + 1
               /\ UNCHANGED <<object, sent, resp, whole, idx, etag, stops>>

\* LoadIndex, then v.idx.Store.
Verify == /\ pc = "file"
          /\ IF Verifies(resp, whole)
             THEN /\ pc' = "stored" /\ idx' = Copy(resp, whole)
                  /\ UNCHANGED <<sent, resp, whole>>
             ELSE UNCHANGED idx /\ EndReload
          /\ UNCHANGED <<object, etag, budgets>>

StoreETag == /\ pc = "stored"
             /\ etag' = ETagOnSwap
             /\ UNCHANGED <<object, idx, budgets>>
             /\ EndReload

\* A request that fails or times out, a status other than 200 and 304, an
\* error of the disk.
ReloadFails == /\ pc \in {"sent", "body"} /\ faults < MaxFaults
               /\ faults' = faults + 1
               /\ UNCHANGED <<object, idx, etag, stops>>
               /\ EndReload

\* The server stops, and starts again with nothing.
Reset == /\ pc # "off"
         /\ idx' = NoIndex /\ etag' = NoETag
         /\ EndReload
         /\ UNCHANGED object

Stop == /\ stops < MaxStops
        /\ stops' = stops + 1
        /\ Reset
        /\ UNCHANGED faults

Reload == Poll \/ Answer \/ Download \/ Verify \/ StoreETag

Next == PutObject \/ Reload \/ DownloadCut \/ ReloadFails \/ Stop

\* The ticker fires and the client has a timeout; a server that did not
\* start is started again.
Spec == Init /\ [][Next]_vars /\ WF_vars(Reload)

-----------------------------------------------------------------------------

TypeOK == /\ object \in Artifacts \cup {Missing}
          /\ pc \in {"off", "idle", "sent", "body", "file", "stored"}
          /\ sent \in {a.etag : a \in Artifacts} \cup {NoETag}
          /\ resp \in Artifacts \cup {Missing}
          /\ whole \in BOOLEAN
          /\ idx \in Artifacts \cup {NoIndex}
          /\ etag \in {a.etag : a \in Artifacts} \cup {NoETag}
          /\ faults \in 0 .. MaxFaults
          /\ stops \in 0 .. MaxStops

\* "No verified index, no server", and then "yesterday's verified truth beats
\* an unverifiable update" (the comment of RemoteValidator): whatever is at
\* the URL and however its copies are cut, a running server has an index, and
\* it is a verified one.
ServesVerified == /\ pc = "idle" => idx # NoIndex
                  /\ idx # NoIndex => idx.sound

\* "304: current index is still the latest": whenever the store would answer
\* 304 to the request in flight, the served index is the object.
NotModifiedIsSound == pc = "sent" /\ NotModified => idx = object

\* "Picks the new artifact up within one poll interval": a sound artifact
\* that stays at the URL is what is served in the end.
Adopted(a) == <>[](object = a) => <>[](idx = a)
EventuallyAdopts == \A a \in {b \in Artifacts : b.sound} : Adopted(a)
=============================================================================
