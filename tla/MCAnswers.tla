------------------------------ MODULE MCAnswers ------------------------------
(***************************************************************************)
(* A TLC instance of two parts that have no variable in common, for what   *)
(* must happen in the end: the subscription manager, with the topics of    *)
(* MCEventSubscriptions, and the cache of the CDN.  `part` says whose      *)
(* behaviour it is, as in MCUploads.                                       *)
(***************************************************************************)
EXTENDS MCEventSubscriptions

CONSTANTS Req, None, Error, MaxVersion

VARIABLES part,
          origin, messages, cached, inflight, pc, on, fetch, val, resp, token, answer, purged,
          raced, leaked

cdn == <<origin, messages, cached, inflight, pc, on, fetch, val, resp, token, answer, purged,
         raced, leaked>>

C == INSTANCE CdnCache WITH queue <- messages, task <- fetch

MCInit == part \in {"events", "cdn"} /\ Init /\ C!Init

EventsNext == part = "events" /\ Next /\ UNCHANGED <<part, cdn>>
CdnNext == part = "cdn" /\ C!Next /\ UNCHANGED <<part, vars>>

MCSpec ==
    /\ MCInit /\ [][EventsNext \/ CdnNext]_<<part, vars, cdn>>
    /\ part = "events" => Fairness
    /\ part = "cdn" => C!Fairness

RequestsAnswered == C!RequestsAnswered
=============================================================================
