--------------------------- MODULE MCRemoteIndex ---------------------------
(* An instance of RemoteIndex: two sound artifacts, a damaged one, and a   *)
(* sound and a damaged one that come without an ETag.                      *)
EXTENDS RemoteIndex

MCArtifacts == {[codes |-> {"A"}, sound |-> TRUE, etag |-> "e1"],
                [codes |-> {"B"}, sound |-> TRUE, etag |-> "e2"],
                [codes |-> {}, sound |-> FALSE, etag |-> "e3"],
                [codes |-> {"C"}, sound |-> TRUE, etag |-> NoETag],
                [codes |-> {}, sound |-> FALSE, etag |-> NoETag]}
=============================================================================
