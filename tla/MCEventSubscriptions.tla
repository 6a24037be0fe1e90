------------------------ MODULE MCEventSubscriptions ------------------------
(***************************************************************************)
(* TLC instances of EventSubscriptions: two subscribers of the topic of an *)
(* object and one of the topic of its kind; a message goes to the first    *)
(* topic, or to both.                                                      *)
(***************************************************************************)
EXTENDS EventSubscriptions

CONSTANTS s3, update, any

MCTopicOf == [s \in Sub |-> IF s = s3 THEN any ELSE update]
MCKeys == {{update}, {update, any}}
=============================================================================
