------------------------------- MODULE Details -------------------------------
(***************************************************************************)
(* GET /medias/{id}: the HTTP renderer reads the details through the       *)
(* cache and, on a miss, renders the row and fills the cache.              *)
(*                                                                         *)
(* A reader is one request.  It looks up the body and the ETag one after   *)
(* the other, loads the row, and writes body and ETag one after the other; *)
(* nothing orders these steps with the updates and invalidations of other  *)
(* requests and tasks.  Time passes in ticks, which age the links in every *)
(* body and drop the cache entries that expire.                            *)
(*                                                                         *)
(* Operators named X_Y are faulty versions of X, one plausible slip each.  *)
(***************************************************************************)
EXTENDS Cache

CONSTANTS
  Readers,     \* details requests served at the same time
  LinkTTL,     \* DownloadUrlTTL: how long a presigned link is valid, in ticks
  Margin,      \* by how much a cache entry expires before its links
  MaxAge,      \* for how long a client may reuse a response (Cache-Control)
  GetFaults    \* the faults that may happen, of AllGetFaults

AllGetFaults ==
  {"cache_get", "etag_get", "get", "presign", "presign_variant", "cache_set",
   "etag_set"}

ASSUME DetailsAssumption ==
  /\ LinkTTL \in Nat
  /\ Margin \in Nat
  /\ MaxAge \in Nat
  /\ MaxAge <= Margin
  /\ Margin < LinkTTL
  /\ GetFaults \subseteq AllGetFaults

VARIABLE get   \* get[r]: the local state of reader r

IdleReader == [pc |-> "idle", id |-> Nil, media |-> Nil, raw |-> Nil, etag |-> Nil]

ReaderState ==
  [pc    : {"idle", "etag", "row", "render", "fill", "fill_etag", "reply"},
   id    : Medias \cup {Nil},
   media : Row \cup {Nil},         \* the row as GetByID returned it
   raw   : Rendering \cup {Nil},
   etag  : Rendering \cup {Nil}]

DetailsTypeOK == get \in [Readers -> ReaderState]

DetailsInit == get = [r \in Readers |-> IdleReader]

-----------------------------------------------------------------------------
(* RenderGetMedia *)

BeginGet(r, m) ==
  /\ get[r].pc = "idle"
  /\ \E raw \in {details[m]} \cup (IF "cache_get" \in GetFaults THEN {Nil} ELSE {}) :
       get' = [get EXCEPT ![r] = [IdleReader EXCEPT
                 !.pc = "etag", !.id = m, !.raw = raw]]
  /\ UNCHANGED <<db, store, tasks, details, etags>>

\* Both found: the request is answered from the cache.
GetEtag(r) ==
  /\ get[r].pc = "etag"
  /\ \E etag \in {etags[get[r].id]}
                   \cup (IF "etag_get" \in GetFaults THEN {Nil} ELSE {}) :
       get' = IF get[r].raw # Nil /\ etag # Nil
              THEN [get EXCEPT ![r].pc = "reply", ![r].etag = etag]
              ELSE [get EXCEPT ![r].pc = "row", ![r].raw = Nil]
  /\ UNCHANGED <<db, store, tasks, details, etags>>

\* GetMedia: 404 and 500 leave nothing behind.
GetRow(r) ==
  /\ get[r].pc = "row"
  /\ LET found == db[get[r].id] # NoRow /\ db[get[r].id].status = "completed"
     IN \/ /\ found
           /\ get' = [get EXCEPT ![r].pc = "render", ![r].media = db[get[r].id]]
        \/ /\ ~found \/ "get" \in GetFaults
           /\ get' = [get EXCEPT ![r] = IdleReader]
  /\ UNCHANGED <<db, store, tasks, details, etags>>

\* s with some of its elements left out.
Thinned(s) ==
  UNION {{[j \in 1..n |-> s[kept[j]]] :
            kept \in {f \in [1..n -> 1..Len(s)] :
                        \A i, j \in 1..n : i < j => f[i] < f[j]}} :
         n \in 0..Len(s)}

\* The links are signed; a variant whose link cannot be is left out.
Listed(r) ==
  LET all == get[r].media.variants
  IN  IF "presign_variant" \in GetFaults THEN Thinned(all) ELSE {all}

Render(r) ==
  /\ get[r].pc = "render"
  /\ \/ \E variants \in Listed(r) :
          LET body == [row  |-> [get[r].media EXCEPT !.variants = variants],
                       life |-> LinkTTL]
          IN get' = [get EXCEPT ![r].pc = "fill", ![r].media = Nil,
                                ![r].raw = body, ![r].etag = body]
     \/ /\ "presign" \in GetFaults
        /\ get' = [get EXCEPT ![r] = IdleReader]
  /\ UNCHANGED <<db, store, tasks, details, etags>>

\* Failures to fill the cache are only logged.
FillDetails(r) ==
  /\ get[r].pc = "fill"
  /\ \/ SetMediaDetails(get[r].id, get[r].raw)
     \/ "cache_set" \in GetFaults /\ UNCHANGED details
  /\ get' = [get EXCEPT ![r].pc = "fill_etag"]
  /\ UNCHANGED <<db, store, tasks, etags>>

FillEtag(r) ==
  /\ get[r].pc = "fill_etag"
  /\ \/ SetEtagMediaDetails(get[r].id, get[r].etag)
     \/ "etag_set" \in GetFaults /\ UNCHANGED etags
  /\ get' = [get EXCEPT ![r].pc = "reply"]
  /\ UNCHANGED <<db, store, tasks, details>>

\* The handler answers 200 with body and ETag, or 304 when the client sent the
\* ETag: the client then goes on with the body it has.
Respond(r) ==
  /\ get[r].pc = "reply"
  /\ get' = [get EXCEPT ![r] = IdleReader]
  /\ UNCHANGED <<db, store, tasks, details, etags>>

ReaderStep(r) ==
  \/ GetEtag(r) \/ GetRow(r) \/ Render(r)
  \/ FillDetails(r) \/ FillEtag(r) \/ Respond(r)

-----------------------------------------------------------------------------
(* Time *)

\* ValidUntil, given to Redis as the expiry of both keys.
Expired_AtLinkEnd(e) == e.life = 0
Expired_Never(e) == FALSE
Expired(e) == e.life <= Margin

Aged(e) ==
  IF e = Nil THEN Nil ELSE [e EXCEPT !.life = IF @ = 0 THEN 0 ELSE @ - 1]

\* Requests are short: none is still filling the cache when what it rendered
\* expires, or still answering long after what it read has expired.
ReadersKeepUp ==
  \A r \in Readers :
    /\ get[r].raw # Nil => ~Expired(get[r].raw)
    /\ get[r].etag # Nil => ~Expired(get[r].etag)
    /\ get[r].pc \in {"fill", "fill_etag"} => ~Expired(Aged(get[r].raw))

Tick ==
  LET kept(e) == IF e = Nil \/ Expired(Aged(e)) THEN Nil ELSE Aged(e)
  IN  /\ ReadersKeepUp
      /\ details' = [m \in Medias |-> kept(details[m])]
      /\ etags' = [m \in Medias |-> kept(etags[m])]
      /\ get' = [r \in Readers |->
                  [get[r] EXCEPT !.raw = Aged(@), !.etag = Aged(@)]]
      /\ UNCHANGED <<db, store, tasks>>

-----------------------------------------------------------------------------
(* Properties *)

\* No response hands out a link that dies while the client may still reuse the
\* response: neither the body, nor the earlier body a matching ETag confirms,
\* even when concurrent fills left the ETag of one rendering with the body of
\* another.
ServedLinksLive ==
  \A r \in Readers : get[r].pc = "reply" =>
    /\ get[r].raw.life >= MaxAge
    /\ get[r].etag.life >= MaxAge
=============================================================================
