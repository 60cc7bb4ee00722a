-------------------------------- MODULE Cache --------------------------------
(***************************************************************************)
(* The Redis cache of rendered media details: two independent keys per     *)
(* media, the JSON body and its ETag.  Both are kept as the rendering they *)
(* come from, since the ETag is a checksum of the body.  Without Redis the *)
(* cache is a no-op (internal/cache/noop.go): every entry stays Nil.       *)
(***************************************************************************)
EXTENDS Backend

VARIABLES
  details,   \* details[m]: the cached body of media m, or Nil
  etags      \* etags[m]: the rendering whose ETag is cached, or Nil

\* The row rendered, and for how long the links in the body are still valid.
\* (Two renderings of a row at one time also differ in the code, by the
\* signature of their links: clients cannot use the difference.)
Rendering == [row : Row, life : Nat]

ASSUME CacheAssumption == Nil \notin Rendering

CacheTypeOK ==
  /\ details \in [Medias -> Rendering \cup {Nil}]
  /\ etags \in [Medias -> Rendering \cup {Nil}]

CacheInit ==
  /\ details = [m \in Medias |-> Nil]
  /\ etags = [m \in Medias |-> Nil]

SetMediaDetails(m, e) == details' = [details EXCEPT ![m] = e]

SetEtagMediaDetails(m, e) == etags' = [etags EXCEPT ![m] = e]

DeleteMediaDetails(m) == details' = [details EXCEPT ![m] = Nil]

DeleteEtagMediaDetails(m) == etags' = [etags EXCEPT ![m] = Nil]
=============================================================================
