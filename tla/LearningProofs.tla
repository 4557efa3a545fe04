---------------------------- MODULE LearningProofs ----------------------------
(***************************************************************************)
(* Proofs about the three components through which one run reaches         *)
(* another, for any number of runs and jobs: the registry of media, the    *)
(* memory of runs and the life of prompt proposals.  They share no state,  *)
(* and each has an inductive invariant of its own.                         *)
(***************************************************************************)
EXTENDS PromptLifecycle, MemoryPipeline, AssetRegistry, FiniteSetTheorems, SequenceTheorems, TLAPS

-----------------------------------------------------------------------------
(* The registry of media: a medium keeps its key once a run has it, and    *)
(* from that the media of a series are related and an identifier leads to  *)
(* one medium.                                                             *)

Kinds == {"asset-id", "media-fingerprint", "source-ref"}

\* The identifiers x that a record under the key k has at least.
Names(k, x) ==
  /\ k[1] \in Kinds
  /\ k[1] = "asset-id" => x.asset = k[2] /\ x.asset # None
  /\ k[1] = "media-fingerprint" => x.print = k[2] /\ x.print # None
  /\ k[1] = "source-ref" => x.asset = None /\ x.print = None

RecordsNamed == \A k \in OnRecord : Names(k, records[k])

\* No two records share an identifier.
RecordsUnique ==
  \A k, l \in OnRecord : k # l =>
    /\ records[k].asset # None => records[k].asset # records[l].asset
    /\ records[k].print # None => records[k].print # records[l].print

\* What the lookups lead to is a record, as it was when it was read.
FoundNamed(r) ==
  found[r] # Unknown =>
    /\ found[r].key \in OnRecord /\ Names(found[r].key, found[r])
    /\ found[r].key[1] # "source-ref"

\* From the first save on the run is about a medium on record, and goes by identifiers
\* that lead back to it when it resolves them again.
Resolved == Ingested \cup ({"create"} \X {"saved", "context", "store context"})
Named == {<<"create", "context">>, <<"create", "store context">>, <<"ingest", "asset id">>,
          <<"ingest", "fingerprint">>, <<"ingest", "save">>}

AssetRunInv(r) ==
  /\ FoundNamed(r)
  /\ step[r] # At("new") => r \in DOMAIN request.of
  /\ step[r] \in Resolved =>
       /\ medium[r] \in OnRecord
       /\ medium[r][1] = "source-ref" => medium[r] = <<"source-ref", r>>
  /\ step[r] \in Named => Names(medium[r], ids[r])
  /\ step[r] = <<"ingest", "fingerprint">> =>
       /\ medium[r][1] = "asset-id" => found[r].key = medium[r] /\ found[r] # Unknown
       /\ medium[r][1] = "source-ref" => found[r] = Unknown
  /\ step[r] = <<"ingest", "save">> => KeyFor(r) = medium[r]

\* A run that is past its creation has yet to relate its medium to the others, or
\* stopped before it did.
Owes(r, k) == medium[r] = k /\ step[r] \in Ingested \cup {At("dead"), At("refused")}

RelatedOrOwed ==
  \A k, l \in DOMAIN series :
    k # l /\ series[k] = series[l] /\ series[k] # None =>
      {k, l} \in relations \/ \E r \in Requesters : Owes(r, k) \/ Owes(r, l)

Domains ==
  /\ DOMAIN step = Requesters /\ DOMAIN ids = Requesters /\ DOMAIN found = Requesters
  /\ DOMAIN medium = Requesters /\ DOMAIN context = Requesters
  /\ request \in AssetRequests

AInv ==
  /\ Domains
  /\ RecordsNamed
  /\ RecordsUnique
  /\ \A r \in Requesters : AssetRunInv(r)
  /\ RelatedOrOwed
-----------------------------------------------------------------------------
\* Where each step stands.
LEMMA AssetSteps ==
  /\ \A e \in Resolving \cup {"relate"} :
       /\ <<"ingest", e>> \in Resolved /\ <<"ingest", e>> \in Ingested
       /\ <<"create", e>> \notin Ingested
       /\ <<"create", e>> \in Resolved <=> e \in {"saved", "context", "store context"}
       /\ <<"create", e>> \in Named <=> e \in {"context", "store context"}
       /\ <<"ingest", e>> \in Named <=> e \in {"asset id", "fingerprint", "save"}
  /\ \A end \in {"new", "dead", "refused", "done"} :
       /\ At(end) \notin Resolved /\ At(end) \notin Named /\ At(end) \notin Ingested
       /\ \A e \in Resolving \cup {"relate"} : At(end) # <<"ingest", e>> /\ At(end) # <<"create", e>>
       /\ \A other \in {"new", "dead", "refused", "done"} : At(end) = At(other) => end = other
  /\ Resolving = {"asset id", "fingerprint", "save", "saved", "context", "store context"}
BY DEF Resolved, Named, Ingested, Resolving, At

LEMMA InitInv == AssetInit => AInv
<1> SUFFICES ASSUME AssetInit PROVE AInv
  OBVIOUS
<1>1. Domains
  BY DEF AssetInit, Domains
<1>2. OnRecord = {} /\ DOMAIN series = {}
  BY DEF AssetInit, OnRecord
<1>3. ASSUME NEW r \in Requesters PROVE AssetRunInv(r)
  BY DEF AssetInit, AssetRunInv, FoundNamed, At, Resolved, Ingested, Resolving, Named
<1> QED BY <1>1, <1>2, <1>3 DEF AInv, RecordsNamed, RecordsUnique, RelatedOrOwed

\* A step of run r, under which the records on file only become more.
LEMMA AssetMoves ==
  ASSUME AInv, NEW r \in Requesters,
         \A x \in Requesters \ {r} : /\ step'[x] = step[x] /\ ids'[x] = ids[x]
                                     /\ found'[x] = found[x] /\ medium'[x] = medium[x],
         OnRecord \subseteq OnRecord', request' = request, AssetRunInv(r)'
  PROVE  \A x \in Requesters : AssetRunInv(x)'
<1> SUFFICES ASSUME NEW x \in Requesters, x # r PROVE AssetRunInv(x)'
  OBVIOUS
<1>1. /\ step'[x] = step[x] /\ ids'[x] = ids[x] /\ found'[x] = found[x]
      /\ medium'[x] = medium[x] /\ AssetRunInv(x)
  BY DEF AInv
<1>2. KeyFor(x)' = KeyFor(x)
  BY <1>1 DEF KeyFor
<1>3. FoundNamed(x)'
  BY <1>1 DEF AssetRunInv, FoundNamed
<1> QED BY <1>1, <1>2, <1>3 DEF AssetRunInv

\* A step that writes neither the contexts nor the relations, and keeps the medium
\* of a run that is past its creation.
LEMMA OwedStays ==
  ASSUME AInv, UNCHANGED <<series, relations>>,
         \A x \in Requesters : step[x] \in Ingested \cup {At("dead"), At("refused")} =>
           /\ step'[x] \in Ingested \cup {At("dead"), At("refused")}
           /\ medium'[x] = medium[x]
  PROVE  RelatedOrOwed'
BY DEF AInv, RelatedOrOwed, Owes

LEMMA CreateInv ==
  ASSUME AInv, NEW r \in Requesters, Create(r)
  PROVE  AInv'
<1>1. Domains /\ AssetRunInv(r)
  BY DEF AInv
<1>2. /\ step[r] = At("new") /\ r \in DOMAIN request.of
      /\ step' = [step EXCEPT ![r] = <<"create", "asset id">>]
      /\ ids' = [ids EXCEPT ![r] = [asset |-> request.of[r].asset, print |-> request.of[r].print]]
      /\ UNCHANGED <<records, series, relations, found, medium, context, request>>
  BY DEF Create, Tables
<1>3. /\ step'[r] = <<"create", "asset id">>
      /\ \A x \in Requesters \ {r} : step'[x] = step[x] /\ ids'[x] = ids[x]
  BY <1>1, <1>2 DEF Domains
<1>4. AssetRunInv(r)'
  BY <1>1, <1>2, <1>3, AssetSteps DEF AssetRunInv, FoundNamed, OnRecord
<1>5. \A x \in Requesters : AssetRunInv(x)'
  BY <1>2, <1>3, <1>4, AssetMoves DEF OnRecord
<1>6. RelatedOrOwed'
  <2>1. step[r] \notin Ingested \cup {At("dead"), At("refused")}
    BY <1>2, AssetSteps
  <2> QED BY <1>2, <1>3, <2>1, OwedStays
<1> QED BY <1>1, <1>2, <1>5, <1>6 DEF AInv, Domains, RecordsNamed, RecordsUnique, OnRecord

\* What a lookup finds.
LEMMA Match ==
  ASSUME AInv
  PROVE  /\ \A a : \A m \in WithAsset(a) :
              /\ m.key \in OnRecord /\ m = As(m.key) /\ m # Unknown /\ m.asset = a /\ a # None
              /\ Names(m.key, m) /\ m.key[1] # "source-ref"
              /\ \A k \in OnRecord : records[k].asset = a => k = m.key
         /\ \A p : \A m \in WithPrint(p) :
              /\ m.key \in OnRecord /\ m = As(m.key) /\ m # Unknown /\ m.print = p /\ p # None
              /\ Names(m.key, m) /\ m.key[1] # "source-ref"
              /\ \A k \in OnRecord : records[k].print = p => k = m.key
<1>1. ASSUME NEW k \in OnRecord
      PROVE  /\ Names(k, As(k)) /\ As(k).key = k /\ As(k) # Unknown
             /\ As(k).asset = records[k].asset /\ As(k).print = records[k].print
             /\ As(k).asset # None \/ As(k).print # None => k[1] # "source-ref"
  <2>1. Names(k, records[k])
    BY DEF AInv, RecordsNamed
  <2>2. As(k).key = k /\ As(k).asset = records[k].asset /\ As(k).print = records[k].print
    BY DEF As
  <2>3. k # NoMedia
    <3>1. NoMedia[1] = "no medium"
      BY DEF NoMedia
    <3> QED BY <2>1, <3>1 DEF Names, Kinds
  <2> QED BY <2>1, <2>2, <2>3 DEF Names, Unknown
<1>2. ASSUME NEW a, NEW m \in WithAsset(a)
      PROVE  /\ m.key \in OnRecord /\ m = As(m.key) /\ m # Unknown /\ m.asset = a /\ a # None
             /\ Names(m.key, m) /\ m.key[1] # "source-ref"
             /\ \A k \in OnRecord : records[k].asset = a => k = m.key
  <2>1. PICK k \in OnRecord : m = As(k) /\ records[k].asset = a /\ a # None
    BY DEF WithAsset
  <2>2. \A l \in OnRecord : records[l].asset = a => l = k
    BY <2>1 DEF AInv, RecordsUnique
  <2> QED BY <1>1, <2>1, <2>2
<1>3. ASSUME NEW p, NEW m \in WithPrint(p)
      PROVE  /\ m.key \in OnRecord /\ m = As(m.key) /\ m # Unknown /\ m.print = p /\ p # None
             /\ Names(m.key, m) /\ m.key[1] # "source-ref"
             /\ \A k \in OnRecord : records[k].print = p => k = m.key
  <2>1. PICK k \in OnRecord : m = As(k) /\ records[k].print = p /\ p # None
    BY DEF WithPrint
  <2>2. \A l \in OnRecord : records[l].print = p => l = k
    BY <2>1 DEF AInv, RecordsUnique
  <2> QED BY <1>1, <2>1, <2>2
<1> QED BY <1>2, <1>3

\* An identifier on record is found.
LEMMA Finds ==
  ASSUME NEW k \in OnRecord
  PROVE  /\ records[k].asset # None => As(k) \in WithAsset(records[k].asset)
         /\ records[k].print # None => As(k) \in WithPrint(records[k].print)
         /\ WithAsset(None) = {} /\ WithPrint(None) = {}
BY DEF WithAsset, WithPrint

LEMMA LookUpAssetInv ==
  ASSUME AInv, NEW r \in Requesters, NEW phase \in {"create", "ingest"}, LookUpAsset(r, phase)
  PROVE  AInv'
<1>1. Domains /\ AssetRunInv(r)
  BY DEF AInv
<1>2. /\ step[r] = <<phase, "asset id">> /\ step' = [step EXCEPT ![r] = <<phase, "fingerprint">>]
      /\ UNCHANGED <<records, series, relations, ids, medium, context, request>>
  BY DEF LookUpAsset, Go, Tables
<1>3. PICK m : /\ found' = [found EXCEPT ![r] = m]
               /\ m \in WithAsset(ids[r].asset) \/ (m = Unknown /\ WithAsset(ids[r].asset) = {})
  BY DEF LookUpAsset
<1>4. /\ step'[r] = <<phase, "fingerprint">> /\ found'[r] = m
      /\ \A x \in Requesters \ {r} : step'[x] = step[x] /\ found'[x] = found[x]
  BY <1>1, <1>2, <1>3 DEF Domains
<1>5. m \in WithAsset(ids[r].asset) =>
        /\ m.key \in OnRecord /\ m # Unknown /\ Names(m.key, m) /\ m.key[1] # "source-ref"
        /\ \A k \in OnRecord : records[k].asset = ids[r].asset => k = m.key
  BY Match
<1>6. AssetRunInv(r)'
  <2>1. FoundNamed(r)'
    BY <1>2, <1>3, <1>4, <1>5 DEF FoundNamed, OnRecord
  <2>2. r \in DOMAIN request'.of
    BY <1>1, <1>2, AssetSteps DEF AssetRunInv
  <2>3. CASE phase = "create"
    BY <1>4, <2>1, <2>2, <2>3, AssetSteps DEF AssetRunInv
  <2>4. CASE phase = "ingest"
    <3>1. /\ medium[r] \in OnRecord /\ Names(medium[r], ids[r])
          /\ medium[r][1] = "source-ref" => medium[r] = <<"source-ref", r>>
      BY <1>1, <1>2, <2>4, AssetSteps DEF AssetRunInv
    <3>2. medium[r][1] = "asset-id" => m.key = medium[r] /\ m # Unknown
      <4> SUFFICES ASSUME medium[r][1] = "asset-id" PROVE m.key = medium[r] /\ m # Unknown
        OBVIOUS
      <4>1. Names(medium[r], records[medium[r]])
        BY <3>1 DEF AInv, RecordsNamed
      <4>2. records[medium[r]].asset = ids[r].asset /\ ids[r].asset # None
        BY <3>1, <4>1 DEF Names
      <4>3. WithAsset(ids[r].asset) # {}
        BY <3>1, <4>2, Finds
      <4> QED BY <1>3, <1>5, <3>1, <4>2, <4>3
    <3>3. medium[r][1] = "source-ref" => m = Unknown
      BY <1>3, <3>1, Finds DEF Names
    <3>4. /\ step'[r] \in Resolved /\ step'[r] \in Named /\ step'[r] # <<"ingest", "save">>
          /\ medium'[r] = medium[r] /\ ids'[r] = ids[r] /\ OnRecord' = OnRecord
      <4>1. step'[r] = <<"ingest", "fingerprint">>
        BY <1>4, <2>4
      <4>2. step'[r] \in Resolved /\ step'[r] \in Named
        BY <4>1, AssetSteps
      <4>3. step'[r] # <<"ingest", "save">>
        BY <4>1
      <4> QED BY <1>2, <4>2, <4>3 DEF OnRecord
    <3> QED BY <1>4, <2>1, <2>2, <3>1, <3>2, <3>3, <3>4 DEF AssetRunInv
  <2> QED BY <2>3, <2>4
<1>7. \A x \in Requesters : AssetRunInv(x)'
  BY <1>2, <1>4, <1>6, AssetMoves DEF OnRecord
<1>8. RelatedOrOwed'
  <2>1. step[r] \in Ingested => step'[r] \in Ingested
    BY <1>2, <1>4, AssetSteps
  <2>2. step[r] \notin {At("dead"), At("refused")}
    BY <1>2, AssetSteps
  <2> QED BY <1>2, <1>4, <2>1, <2>2, OwedStays
<1> QED BY <1>1, <1>2, <1>3, <1>7, <1>8 DEF AInv, Domains, RecordsNamed, RecordsUnique, OnRecord

LEMMA LookUpPrintInv ==
  ASSUME AInv, NEW r \in Requesters, NEW phase \in {"create", "ingest"}, LookUpPrint(r, phase)
  PROVE  AInv'
<1>1. Domains /\ AssetRunInv(r)
  BY DEF AInv
<1>2. /\ step[r] = <<phase, "fingerprint">>
      /\ UNCHANGED <<records, series, relations, ids, medium, context, request>>
  BY DEF LookUpPrint, Tables
<1>3. PICK to, m : /\ step' = [step EXCEPT ![r] = to] /\ DOMAIN found' = Requesters
                   /\ found'[r] = m /\ \A x \in Requesters \ {r} : found'[x] = found[x]
                   /\ \/ to = At("refused") /\ m = found[r]
                      \/ /\ to = <<phase, "save">>
                         /\ \/ m = found[r] /\ WithPrint(ids[r].print) = {}
                            \/ /\ m = found[r] /\ found[r] # Unknown
                               /\ \E match \in WithPrint(ids[r].print) : found[r].key = match.key
                            \/ m \in WithPrint(ids[r].print) /\ found[r] = Unknown
  BY <1>1 DEF LookUpPrint, Go, Refuse, Domains
<1>4. /\ step'[r] = to /\ found'[r] = m
      /\ \A x \in Requesters \ {r} : step'[x] = step[x] /\ found'[x] = found[x]
  BY <1>1, <1>3 DEF Domains
<1>5. \A match \in WithPrint(ids[r].print) :
        /\ match.key \in OnRecord /\ match # Unknown /\ Names(match.key, match)
        /\ match.key[1] # "source-ref"
        /\ \A k \in OnRecord : records[k].print = ids[r].print => k = match.key
  BY Match
<1>6. AssetRunInv(r)'
  <2>1. FoundNamed(r)'
    <3>1. FoundNamed(r)
      BY <1>1 DEF AssetRunInv
    <3> QED BY <1>2, <1>3, <1>4, <1>5, <3>1 DEF FoundNamed, OnRecord
  <2>2. r \in DOMAIN request'.of
    BY <1>1, <1>2, AssetSteps DEF AssetRunInv
  <2>3. CASE to = At("refused")
    BY <1>4, <2>1, <2>2, <2>3, AssetSteps DEF AssetRunInv
  <2>4. CASE phase = "create" /\ to = <<phase, "save">>
    BY <1>4, <2>1, <2>2, <2>4, AssetSteps DEF AssetRunInv
  <2>5. CASE phase = "ingest" /\ to = <<phase, "save">>
    <3>1. /\ medium[r] \in OnRecord /\ Names(medium[r], ids[r])
          /\ medium[r][1] = "source-ref" => medium[r] = <<"source-ref", r>> /\ found[r] = Unknown
          /\ medium[r][1] = "asset-id" => found[r].key = medium[r] /\ found[r] # Unknown
      BY <1>1, <1>2, <2>5, AssetSteps DEF AssetRunInv
    <3>2. KeyFor(r)' = medium[r]
      <4>1. CASE medium[r][1] = "asset-id"
        <5>1. m = found[r]
          BY <1>3, <2>5, <3>1, <4>1, AssetSteps
        <5> QED BY <1>4, <3>1, <4>1, <5>1 DEF KeyFor
      <4>2. CASE medium[r][1] = "source-ref"
        <5>1. WithPrint(ids[r].print) = {} /\ ids[r].asset = None /\ ids[r].print = None
          BY <3>1, <4>2, Finds DEF Names
        <5>2. m = Unknown
          BY <1>3, <2>5, <3>1, <4>2, <5>1, AssetSteps
        <5> QED BY <1>2, <1>4, <3>1, <4>2, <5>1, <5>2 DEF KeyFor
      <4>3. CASE medium[r][1] = "media-fingerprint"
        <5>1. Names(medium[r], records[medium[r]])
          BY <3>1 DEF AInv, RecordsNamed
        <5>2. records[medium[r]].print = ids[r].print /\ ids[r].print # None
          BY <3>1, <4>3, <5>1 DEF Names
        <5>3. WithPrint(ids[r].print) # {}
          BY <3>1, <5>2, Finds
        <5>4. \A match \in WithPrint(ids[r].print) : match.key = medium[r]
          BY <1>5, <3>1, <5>2
        <5>5. m # Unknown /\ m.key = medium[r]
          BY <1>3, <1>5, <2>5, <5>3, <5>4, AssetSteps
        <5> QED BY <1>4, <5>5 DEF KeyFor
      <4> QED BY <3>1, <4>1, <4>2, <4>3 DEF Names, Kinds
    <3>3. step'[r] = <<"ingest", "save">>
      BY <1>4, <2>5
    <3>4. /\ step'[r] \in Resolved /\ step'[r] \in Named /\ step'[r] # <<"ingest", "fingerprint">>
          /\ medium'[r] = medium[r] /\ ids'[r] = ids[r] /\ OnRecord' = OnRecord
      <4>1. step'[r] \in Resolved /\ step'[r] \in Named
        BY <3>3, AssetSteps
      <4>2. step'[r] # <<"ingest", "fingerprint">>
        BY <3>3
      <4> QED BY <1>2, <4>1, <4>2 DEF OnRecord
    <3> QED BY <2>1, <2>2, <3>1, <3>2, <3>4 DEF AssetRunInv
  <2> QED BY <1>3, <2>3, <2>4, <2>5
<1>7. \A x \in Requesters : AssetRunInv(x)'
  BY <1>2, <1>4, <1>6, AssetMoves DEF OnRecord
<1>8. RelatedOrOwed'
  <2>1. step[r] \in Ingested => step'[r] \in Ingested \cup {At("refused")}
    BY <1>2, <1>3, <1>4, AssetSteps
  <2>2. step[r] \notin {At("dead"), At("refused")}
    BY <1>2, AssetSteps
  <2> QED BY <1>2, <1>4, <2>1, <2>2, OwedStays
<1> QED BY <1>1, <1>2, <1>3, <1>7, <1>8 DEF AInv, Domains, RecordsNamed, RecordsUnique, OnRecord

LEMMA SaveRecordInv ==
  ASSUME AInv, NEW r \in Requesters, NEW phase \in {"create", "ingest"}, SaveRecord(r, phase)
  PROVE  AInv'
<1>1. Domains /\ AssetRunInv(r)
  BY DEF AInv
<1>2. /\ step[r] = <<phase, "save">>
      /\ UNCHANGED <<series, relations, ids, found, context, request>>
  BY DEF SaveRecord
<1>3. CASE /\ step' = [step EXCEPT ![r] = At("refused")]
           /\ UNCHANGED <<records, medium>>
  <2>1. /\ step'[r] = At("refused")
        /\ \A x \in Requesters \ {r} : step'[x] = step[x]
    BY <1>1, <1>3 DEF Domains
  <2>2. AssetRunInv(r)'
    <3>1. FoundNamed(r)' /\ r \in DOMAIN request'.of
      BY <1>1, <1>2, <1>3, AssetSteps DEF AssetRunInv, FoundNamed, OnRecord
    <3> QED BY <2>1, <3>1, AssetSteps DEF AssetRunInv
  <2>3. \A x \in Requesters : AssetRunInv(x)'
    BY <1>2, <1>3, <2>1, <2>2, AssetMoves DEF OnRecord
  <2>4. RelatedOrOwed'
    <3>1. step[r] \notin {At("dead"), At("refused")}
      BY <1>2, AssetSteps
    <3> QED BY <1>2, <1>3, <2>1, <3>1, OwedStays
  <2> QED BY <1>1, <1>2, <1>3, <2>3, <2>4 DEF AInv, Domains, RecordsNamed, RecordsUnique, OnRecord
<1>4. CASE ~(/\ step' = [step EXCEPT ![r] = At("refused")]
             /\ UNCHANGED <<records, medium>>)
  <2> DEFINE k == KeyFor(r)
             new == MergeIdentifiers(found[r], ids[r])
  <2>1. /\ ~Taken(k, new)
        /\ step' = [step EXCEPT ![r] = <<phase, "saved">>]
        /\ records' = [x \in OnRecord \cup {k} |-> IF x = k THEN new ELSE records[x]]
        /\ medium' = [medium EXCEPT ![r] = k]
    BY <1>4 DEF SaveRecord, Refuse, Go
  <2>2. Names(k, new) /\ (k[1] = "source-ref" => k = <<"source-ref", r>>)
    <3>1. CASE found[r] # Unknown
      <4>1. k = found[r].key
        BY <3>1 DEF KeyFor
      <4> QED BY <1>1, <3>1, <4>1 DEF AssetRunInv, FoundNamed, Names, MergeIdentifiers
    <3>2. CASE found[r] = Unknown
      <4>1. new.asset = ids[r].asset /\ new.print = ids[r].print
        BY <3>2 DEF MergeIdentifiers, Unknown
      <4>2. CASE ids[r].asset # None
        <5>1. k = <<"asset-id", ids[r].asset>>
          BY <3>2, <4>2 DEF KeyFor
        <5> QED BY <4>1, <4>2, <5>1 DEF Names, Kinds
      <4>3. CASE ids[r].asset = None /\ ids[r].print # None
        <5>1. k = <<"media-fingerprint", ids[r].print>>
          BY <3>2, <4>3 DEF KeyFor
        <5> QED BY <4>1, <4>3, <5>1 DEF Names, Kinds
      <4>4. CASE ids[r].asset = None /\ ids[r].print = None
        <5>1. k = <<"source-ref", r>>
          BY <3>2, <4>4 DEF KeyFor
        <5> QED BY <4>1, <4>4, <5>1 DEF Names, Kinds
      <4> QED BY <4>2, <4>3, <4>4
    <3> QED BY <3>1, <3>2
  <2>3. phase = "ingest" => k = medium[r]
    BY <1>1, <1>2 DEF AssetRunInv
  <2> HIDE DEF k, new
  <2>4. /\ step'[r] = <<phase, "saved">> /\ medium'[r] = k
        /\ \A x \in Requesters \ {r} : step'[x] = step[x] /\ medium'[x] = medium[x]
    BY <1>1, <2>1 DEF Domains
  <2>5. /\ OnRecord' = OnRecord \cup {k} /\ records'[k] = new
        /\ \A x \in OnRecord \ {k} : records'[x] = records[x]
    BY <2>1 DEF OnRecord
  <2>6. RecordsNamed'
    BY <2>2, <2>5 DEF AInv, RecordsNamed
  <2>7. RecordsUnique'
    BY <2>1, <2>5 DEF AInv, RecordsUnique, Taken
  <2>8. AssetRunInv(r)'
    <3>1. FoundNamed(r)' /\ r \in DOMAIN request'.of
      BY <1>1, <1>2, <2>5, AssetSteps DEF AssetRunInv, FoundNamed
    <3>2. /\ step'[r] \in Resolved /\ step'[r] \notin Named
          /\ step'[r] # <<"ingest", "fingerprint">> /\ step'[r] # <<"ingest", "save">>
      BY <2>4, AssetSteps
    <3> QED BY <2>2, <2>4, <2>5, <3>1, <3>2 DEF AssetRunInv
  <2>9. \A x \in Requesters : AssetRunInv(x)'
    BY <1>2, <2>4, <2>5, <2>8, AssetMoves
  <2>10. RelatedOrOwed'
    <3>1. /\ step[r] \in Ingested \cup {At("dead"), At("refused")} => phase = "ingest"
          /\ phase = "ingest" => step'[r] \in Ingested
      BY <1>2, <2>4, AssetSteps
    <3> QED BY <1>2, <2>3, <2>4, <3>1, OwedStays
  <2>11. Domains'
    BY <1>1, <1>2, <2>1 DEF Domains
  <2> QED BY <2>6, <2>7, <2>9, <2>10, <2>11 DEF AInv
<1> QED BY <1>3, <1>4

LEMMA ReadBackInv ==
  ASSUME AInv, NEW r \in Requesters, NEW phase \in {"create", "ingest"}, ReadBack(r, phase)
  PROVE  AInv'
<1>1. Domains /\ AssetRunInv(r)
  BY DEF AInv
<1>2. /\ step[r] = <<phase, "saved">> /\ step' = [step EXCEPT ![r] = <<phase, "context">>]
      /\ ids' = [ids EXCEPT ![r] = records[medium[r]]]
      /\ found' = [found EXCEPT ![r] = Unknown]
      /\ UNCHANGED <<records, series, relations, medium, context, request>>
  BY DEF ReadBack, Go, Tables
<1>3. /\ step'[r] = <<phase, "context">> /\ ids'[r] = records[medium[r]] /\ found'[r] = Unknown
      /\ \A x \in Requesters \ {r} : step'[x] = step[x] /\ ids'[x] = ids[x] /\ found'[x] = found[x]
  BY <1>1, <1>2 DEF Domains
<1>4. AssetRunInv(r)'
  <2>1. /\ r \in DOMAIN request.of /\ medium[r] \in OnRecord
        /\ medium[r][1] = "source-ref" => medium[r] = <<"source-ref", r>>
    BY <1>1, <1>2, AssetSteps DEF AssetRunInv
  <2>2. Names(medium[r], records[medium[r]])
    BY <2>1 DEF AInv, RecordsNamed
  <2>3. /\ step'[r] # <<"ingest", "fingerprint">> /\ step'[r] # <<"ingest", "save">>
        /\ OnRecord' = OnRecord /\ medium'[r] = medium[r] /\ request' = request
    BY <1>2, <1>3, AssetSteps DEF OnRecord
  <2>4. FoundNamed(r)'
    BY <1>3 DEF FoundNamed
  <2> QED BY <1>3, <2>1, <2>2, <2>3, <2>4 DEF AssetRunInv
<1>5. \A x \in Requesters : AssetRunInv(x)'
  BY <1>2, <1>3, <1>4, AssetMoves DEF OnRecord
<1>6. RelatedOrOwed'
  <2>1. step[r] \in Ingested => step'[r] \in Ingested
    <3>1. CASE phase = "create"
      BY <1>2, <3>1, AssetSteps
    <3>2. CASE phase = "ingest"
      BY <1>3, <3>2, AssetSteps
    <3> QED BY <3>1, <3>2
  <2>2. step[r] \notin {At("dead"), At("refused")}
    BY <1>2, AssetSteps
  <2> QED BY <1>2, <1>3, <2>1, <2>2, OwedStays
<1> QED BY <1>1, <1>2, <1>5, <1>6 DEF AInv, Domains, RecordsNamed, RecordsUnique, OnRecord

\* A step that only goes on, after which the run is asked for no more than before.
LEMMA GoesOn ==
  ASSUME AInv, NEW r \in Requesters, step'[r] # At("new"),
         \A x \in Requesters \ {r} : step'[x] = step[x],
         step[r] # At("new"),
         step'[r] \in Resolved => step[r] \in Resolved,
         step'[r] \in Named => step[r] \in Named,
         step'[r] # <<"ingest", "fingerprint">>, step'[r] # <<"ingest", "save">>,
         UNCHANGED <<records, ids, found, medium, request>>
  PROVE  \A x \in Requesters : AssetRunInv(x)'
<1>1. AssetRunInv(r)
  BY DEF AInv
<1>2. FoundNamed(r)'
  BY <1>1 DEF AssetRunInv, FoundNamed, OnRecord
<1>3. OnRecord' = OnRecord
  BY DEF OnRecord
<1>4. AssetRunInv(r)'
  BY <1>1, <1>2, <1>3 DEF AssetRunInv
<1> QED BY <1>3, <1>4, AssetMoves

LEMMA CarryInv ==
  ASSUME AInv, NEW r \in Requesters,
         ReadContext(r) \/ DeriveContext(r) \/ RequesterDies(r)
  PROVE  AInv'
<1>1. Domains
  BY DEF AInv
<1>2. PICK to : /\ step' = [step EXCEPT ![r] = to]
                /\ \/ step[r] = <<"create", "context">> /\ to = <<"create", "store context">>
                   \/ step[r] = <<"ingest", "context">> /\ to = <<"ingest", "store context">>
                   \/ step[r] \in Created \cup Ingested /\ to = At("dead")
                /\ DOMAIN context' = DOMAIN context
                /\ UNCHANGED <<records, series, relations, ids, found, medium, request>>
  BY DEF ReadContext, DeriveContext, RequesterDies, Under, Go, Tables
<1>3. /\ step'[r] = to /\ \A x \in Requesters \ {r} : step'[x] = step[x]
  BY <1>1, <1>2 DEF Domains
<1>4. /\ to # At("new") /\ step[r] # At("new")
      /\ to \in Resolved => step[r] \in Resolved
      /\ to \in Named => step[r] \in Named
      /\ to # <<"ingest", "fingerprint">> /\ to # <<"ingest", "save">>
      /\ step[r] \in Ingested => to \in Ingested \cup {At("dead")}
      /\ step[r] \notin {At("dead"), At("refused")}
  <2>1. CASE step[r] = <<"create", "context">> /\ to = <<"create", "store context">>
    BY <2>1, AssetSteps
  <2>2. CASE step[r] = <<"ingest", "context">> /\ to = <<"ingest", "store context">>
    BY <2>2, AssetSteps
  <2>3. CASE step[r] \in Created \cup Ingested /\ to = At("dead")
    <3>1. PICK phase \in {"create", "ingest"}, e \in Resolving \cup {"relate"} :
            step[r] = <<phase, e>>
      BY <2>3 DEF Created, Ingested
    <3> QED BY <2>3, <3>1, AssetSteps
  <2> QED BY <1>2, <2>1, <2>2, <2>3
<1>5. \A x \in Requesters : AssetRunInv(x)'
  BY <1>2, <1>3, <1>4, GoesOn
<1>6. RelatedOrOwed'
  BY <1>2, <1>3, <1>4, OwedStays
<1> QED BY <1>1, <1>2, <1>5, <1>6 DEF AInv, Domains, RecordsNamed, RecordsUnique, OnRecord

\* A run that writes a context has its medium yet to relate.
LEMMA WriteContextInv ==
  ASSUME AInv, NEW r \in Requesters, StoreContext(r) \/ IngestContext(r)
  PROVE  AInv'
<1>1. Domains /\ AssetRunInv(r)
  BY DEF AInv
<1>2. PICK to : /\ step' = [step EXCEPT ![r] = to]
                /\ \/ step[r] = <<"create", "store context">> /\ to = <<"ingest", "asset id">>
                   \/ step[r] = <<"ingest", "store context">> /\ to = <<"ingest", "relate">>
                /\ WriteContext(r) \/ UNCHANGED series
                /\ UNCHANGED <<records, relations, ids, found, medium, context, request>>
  BY DEF StoreContext, IngestContext, Go
<1>3. /\ step'[r] = to /\ \A x \in Requesters \ {r} : step'[x] = step[x]
  BY <1>1, <1>2 DEF Domains
<1>4. /\ to # At("new") /\ step[r] # At("new")
      /\ to \in Resolved /\ step[r] \in Resolved
      /\ to \in Named => step[r] \in Named
      /\ to # <<"ingest", "fingerprint">> /\ to # <<"ingest", "save">>
      /\ to \in Ingested
      /\ step[r] \notin {At("dead"), At("refused")}
  <2>1. CASE step[r] = <<"create", "store context">> /\ to = <<"ingest", "asset id">>
    BY <2>1, AssetSteps
  <2>2. CASE step[r] = <<"ingest", "store context">> /\ to = <<"ingest", "relate">>
    BY <2>2, AssetSteps
  <2> QED BY <1>2, <2>1, <2>2
<1>5. \A x \in Requesters : AssetRunInv(x)'
  BY <1>2, <1>3, <1>4, GoesOn
<1>6. RelatedOrOwed'
  <2> SUFFICES ASSUME NEW k \in DOMAIN series', NEW l \in DOMAIN series',
                      k # l, series'[k] = series'[l], series'[k] # None,
                      {k, l} \notin relations
               PROVE  \E x \in Requesters : Owes(x, k)' \/ Owes(x, l)'
    BY <1>2 DEF RelatedOrOwed
  <2>1. CASE k = medium[r] \/ l = medium[r]
    BY <1>2, <1>3, <1>4, <2>1 DEF Owes
  <2>2. CASE k # medium[r] /\ l # medium[r]
    <3>1. /\ k \in DOMAIN series /\ l \in DOMAIN series
          /\ series'[k] = series[k] /\ series'[l] = series[l]
      BY <1>2, <2>2 DEF WriteContext
    <3>2. PICK x \in Requesters : Owes(x, k) \/ Owes(x, l)
      BY <3>1 DEF AInv, RelatedOrOwed
    <3> QED BY <1>2, <1>3, <1>4, <3>2 DEF Owes
  <2> QED BY <2>1, <2>2
<1> QED BY <1>1, <1>2, <1>5, <1>6 DEF AInv, Domains, RecordsNamed, RecordsUnique, OnRecord

LEMMA FinishInv ==
  ASSUME AInv, NEW r \in Requesters, Finish(r)
  PROVE  AInv'
<1>1. Domains /\ AssetRunInv(r)
  BY DEF AInv
<1>2. /\ step' = [step EXCEPT ![r] = At("done")] /\ step[r] = <<"ingest", "relate">>
      /\ relations' = Relate(r)
      /\ UNCHANGED <<records, series, ids, found, medium, context, request>>
  BY DEF Finish
<1>3. /\ step'[r] = At("done") /\ \A x \in Requesters \ {r} : step'[x] = step[x]
  BY <1>1, <1>2 DEF Domains
<1>4. \A x \in Requesters : AssetRunInv(x)'
  BY <1>2, <1>3, AssetSteps, GoesOn
<1>5. RelatedOrOwed'
  <2> SUFFICES ASSUME NEW k \in DOMAIN series, NEW l \in DOMAIN series,
                      k # l, series[k] = series[l], series[k] # None,
                      {k, l} \notin relations'
               PROVE  \E x \in Requesters : Owes(x, k)' \/ Owes(x, l)'
    BY <1>2 DEF RelatedOrOwed
  <2>1. relations \subseteq relations'
    BY <1>2 DEF Relate
  <2>2. medium[r] # k /\ medium[r] # l
    <3>1. ASSUME medium[r] = k PROVE FALSE
      <4>1. {k, l} \in relations'
        BY <1>2, <3>1 DEF Relate, SeriesOf
      <4> QED BY <4>1
    <3>2. ASSUME medium[r] = l PROVE FALSE
      <4>1. {l, k} \in relations'
        BY <1>2, <3>2 DEF Relate, SeriesOf
      <4>2. {l, k} = {k, l}
        OBVIOUS
      <4> QED BY <4>1, <4>2
    <3> QED BY <3>1, <3>2
  <2>3. PICK x \in Requesters : Owes(x, k) \/ Owes(x, l)
    BY <2>1 DEF AInv, RelatedOrOwed
  <2>4. x # r
    BY <2>2, <2>3 DEF Owes
  <2> QED BY <1>2, <1>3, <2>3, <2>4 DEF Owes
<1> QED BY <1>1, <1>2, <1>4, <1>5 DEF AInv, Domains, RecordsNamed, RecordsUnique, OnRecord

LEMMA NextInv == AInv /\ [AssetNext]_assetVars => AInv'
<1> SUFFICES ASSUME AInv, [AssetNext]_assetVars PROVE AInv'
  OBVIOUS
<1>1. CASE UNCHANGED assetVars
  <2>1. \A r \in Requesters : AssetRunInv(r)'
    <3> SUFFICES ASSUME NEW r \in Requesters PROVE AssetRunInv(r)'
      OBVIOUS
    <3>1. AssetRunInv(r)
      BY DEF AInv
    <3> QED BY <1>1, <3>1 DEF assetVars, AssetRunInv, FoundNamed, KeyFor, OnRecord
  <2>2. RelatedOrOwed'
    BY <1>1, OwedStays DEF assetVars
  <2> QED BY <1>1, <2>1, <2>2 DEF assetVars, AInv, Domains, RecordsNamed, RecordsUnique, OnRecord
<1>2. ASSUME NEW r \in Requesters, NEW phase \in {"create", "ingest"},
             LookUpAsset(r, phase) \/ LookUpPrint(r, phase) \/ SaveRecord(r, phase) \/ ReadBack(r, phase)
      PROVE  AInv'
  BY <1>2, LookUpAssetInv, LookUpPrintInv, SaveRecordInv, ReadBackInv
<1>3. ASSUME NEW r \in Requesters,
             \/ Create(r) \/ RequesterDies(r)
             \/ ReadContext(r) \/ StoreContext(r) \/ DeriveContext(r) \/ IngestContext(r) \/ Finish(r)
      PROVE  AInv'
  BY <1>3, CreateInv, CarryInv, WriteContextInv, FinishInv
<1>4. CASE AllAnswered
  BY <1>1, <1>4 DEF AllAnswered
<1> QED BY <1>1, <1>2, <1>3, <1>4 DEF AssetNext

LEMMA InvariantHolds == AssetSpec => []AInv
BY InitInv, NextInv, PTL DEF AssetSpec
-----------------------------------------------------------------------------
\* _upsert_related_asset_contexts relates a run's medium to those it finds: as each run
\* stores its context before it looks, all the media of a series are related once every
\* run is through its ingest, however the runs overlapped.
THEOREM SeriesAreRelated == AssetSpec => []SeriesRelated
<1>1. AInv => SeriesRelated
  <2> SUFFICES ASSUME AInv, \A r \in DOMAIN request.of : step[r] = At("done"),
                      NEW k \in DOMAIN series, NEW l \in DOMAIN series,
                      k # l, series[k] = series[l], series[k] # None
               PROVE  {k, l} \in relations
    BY DEF SeriesRelated
  <2>1. ASSUME NEW r \in Requesters PROVE step[r] \in {At("new"), At("done")}
    BY DEF AInv, AssetRunInv
  <2>2. \A r \in Requesters : ~Owes(r, k) /\ ~Owes(r, l)
    BY <2>1, AssetSteps DEF Owes
  <2> QED BY <2>2 DEF AInv, RelatedOrOwed
<1> QED BY <1>1, InvariantHolds, PTL
-----------------------------------------------------------------------------
\* The identifiers that a run asked for are among those of x.
Covers(x, asked) ==
  /\ asked.asset # None => x.asset = asked.asset
  /\ asked.print # None => x.print = asked.print

\* What a run found is still on record, and what it did not find is not.
IsCurrent(r) ==
  /\ step[r] \in {"create", "ingest"} \X {"fingerprint", "save"} =>
       IF found[r] = Unknown THEN WithAsset(ids[r].asset) = {} ELSE found[r] = As(found[r].key)
  /\ step[r] \in {"create", "ingest"} \X {"save"} /\ found[r] = Unknown =>
       WithPrint(ids[r].print) = {}

Covered(r) ==
  /\ r \in Under => Covers(ids[r], request.of[r])
  /\ Accepted(r) => medium[r] \in OnRecord /\ Covers(records[medium[r]], request.of[r])

\* Runs that do not overlap: one at most is under way, and every record keeps the
\* identifiers of all the runs it was given to.
AssetAloneInv ==
  /\ AInv
  /\ ~request.overlap =>
       /\ \A r, x \in Under : r = x
       /\ \A r \in Requesters : IsCurrent(r) /\ Covered(r)

LEMMA UnderWay ==
  ASSUME NEW r \in Requesters
  PROVE  /\ \A p \in {"create", "ingest"}, e \in Resolving : step[r] = <<p, e>> => r \in Under
         /\ step[r] = <<"ingest", "relate">> => r \in Under
         /\ r \notin Under => step[r] \notin {"create", "ingest"} \X {"fingerprint", "save"}
         /\ \A end \in {"new", "dead", "refused", "done"} : step[r] = At(end) => r \notin Under
<1>1. r \in Under <=> step[r] \in Created \cup Ingested
  BY DEF Under
<1>2. /\ \A p \in {"create", "ingest"}, e \in Resolving : <<p, e>> \in Created \cup Ingested
      /\ <<"ingest", "relate">> \in Created \cup Ingested
  BY DEF Created, Ingested
<1>3. \A end \in {"new", "dead", "refused", "done"} : At(end) \notin Created \cup Ingested
  BY DEF Created, Ingested, Resolving, At
<1>4. {"create", "ingest"} \X {"fingerprint", "save"} \subseteq Created \cup Ingested
  BY DEF Created, Ingested, Resolving
<1> QED BY <1>1, <1>2, <1>3, <1>4

\* A step of the one run under way.
LEMMA AloneMoves ==
  ASSUME AssetAloneInv, AInv', ~request.overlap, request' = request, NEW r \in Requesters,
         Under \subseteq {r},
         \A x \in Requesters \ {r} : step'[x] = step[x] /\ medium'[x] = medium[x],
         IsCurrent(r)', Covered(r)',
         \A x \in Requesters \ {r} :
           Accepted(x) => medium[x] \in OnRecord' /\ Covers(records'[medium[x]], request.of[x])
  PROVE  AssetAloneInv'
<1>1. \A x \in Requesters \ {r} : x \notin Under'
  BY DEF Under
<1>2. \A x, y \in Under' : x = y
  BY <1>1 DEF Under
<1>3. ASSUME NEW x \in Requesters \ {r} PROVE IsCurrent(x)' /\ Covered(x)'
  <2>1. step'[x] \notin {"create", "ingest"} \X {"fingerprint", "save"}
    BY <1>1 DEF Under, Created, Ingested, Resolving
  <2>2. IsCurrent(x)'
    BY <2>1 DEF IsCurrent
  <2>3. Covered(x)'
    BY <1>1, <1>3 DEF Covered, Accepted
  <2> QED BY <2>2, <2>3
<1> QED BY <1>2, <1>3 DEF AssetAloneInv

\* A step that does not touch the records, of a run at work or of a new one.
LEMMA AloneReads ==
  ASSUME AssetAloneInv, AInv', ~request.overlap, request' = request, NEW r \in Requesters,
         Under \subseteq {r},
         \A x \in Requesters \ {r} : step'[x] = step[x],
         UNCHANGED <<records, medium>>,
         IsCurrent(r)', r \in Under' => Covers(ids'[r], request.of[r])
  PROVE  AssetAloneInv'
<1>1. \A x \in Requesters : Covered(x)
  BY DEF AssetAloneInv
<1>2. OnRecord' = OnRecord
  BY DEF OnRecord
<1>3. Covered(r)'
  BY <1>1, <1>2 DEF Covered, Accepted
<1>4. \A x \in Requesters \ {r} :
        Accepted(x) => medium[x] \in OnRecord' /\ Covers(records'[medium[x]], request.of[x])
  BY <1>1, <1>2 DEF Covered
<1> QED BY <1>3, <1>4, AloneMoves

LEMMA AloneStep ==
  ASSUME AssetAloneInv, ~request.overlap, AInv', NEW r \in Requesters,
         \/ Create(r) \/ RequesterDies(r)
         \/ ReadContext(r) \/ StoreContext(r) \/ DeriveContext(r) \/ IngestContext(r) \/ Finish(r)
  PROVE  AssetAloneInv'
<1>1. Domains /\ r \in Requesters
  BY DEF AssetAloneInv, AInv
<1>2. PICK to : /\ step' = [step EXCEPT ![r] = to]
                /\ UNCHANGED <<records, medium, request, found>>
                /\ to \notin {"create", "ingest"} \X {"fingerprint", "save"}
                /\ \/ /\ Under = {}
                      /\ ids' = [ids EXCEPT ![r] = [asset |-> request.of[r].asset,
                                                    print |-> request.of[r].print]]
                   \/ r \in Under /\ ids' = ids
  <2>1. CASE Create(r)
    BY <2>1 DEF Create, Tables
  <2>2. CASE ReadContext(r)
    BY <2>2, UnderWay, AssetSteps DEF ReadContext, Go, Tables
  <2>3. CASE DeriveContext(r)
    BY <2>3, UnderWay, AssetSteps DEF DeriveContext, Go, Tables
  <2>4. CASE RequesterDies(r)
    BY <2>4 DEF RequesterDies, Tables, At
  <2>5. CASE StoreContext(r)
    BY <2>5, UnderWay, AssetSteps DEF StoreContext
  <2>6. CASE IngestContext(r)
    BY <2>6, UnderWay, AssetSteps DEF IngestContext, Go
  <2>7. CASE Finish(r)
    BY <2>7, UnderWay, AssetSteps DEF Finish, At
  <2> QED BY <2>1, <2>2, <2>3, <2>4, <2>5, <2>6, <2>7
<1>3. step'[r] = to /\ \A x \in Requesters \ {r} : step'[x] = step[x]
  BY <1>1, <1>2 DEF Domains
<1>4. IsCurrent(r)'
  <2>1. step'[r] \notin {"create", "ingest"} \X {"save"}
    BY <1>2, <1>3
  <2> QED BY <1>2, <1>3, <2>1 DEF IsCurrent
<1>5. Under \subseteq {r}
  BY <1>2 DEF AssetAloneInv, Under
<1>6. Covers(ids'[r], request.of[r])
  <2>1. CASE r \in Under /\ ids' = ids
    BY <2>1 DEF AssetAloneInv, Covered, Under
  <2>2. CASE ids' = [ids EXCEPT ![r] = [asset |-> request.of[r].asset,
                                        print |-> request.of[r].print]]
    BY <1>1, <2>2 DEF Covers, Domains
  <2> QED BY <1>2, <2>1, <2>2
<1> QED BY <1>2, <1>3, <1>4, <1>5, <1>6, AloneReads

LEMMA AloneLooks ==
  ASSUME AssetAloneInv, ~request.overlap, AInv', NEW r \in Requesters,
         NEW phase \in {"create", "ingest"},
         LookUpAsset(r, phase) \/ LookUpPrint(r, phase) \/ ReadBack(r, phase)
  PROVE  AssetAloneInv'
<1>1. Domains /\ AInv
  BY DEF AssetAloneInv, AInv
<1>2. /\ r \in Under /\ UNCHANGED <<records, medium, request>>
      /\ \A x \in Requesters \ {r} : step'[x] = step[x]
  BY <1>1, UnderWay, AssetSteps DEF LookUpAsset, LookUpPrint, ReadBack, Go, Refuse, Tables, Domains
<1>3. /\ Under \subseteq {r} /\ Covers(ids[r], request.of[r])
      /\ Accepted(r) => medium[r] \in OnRecord /\ Covers(records[medium[r]], request.of[r])
      /\ IsCurrent(r)
  BY <1>2 DEF AssetAloneInv, Covered, Under
<1>4. CASE LookUpAsset(r, phase)
  <2>1. /\ ids' = ids /\ step' = [step EXCEPT ![r] = <<phase, "fingerprint">>]
    BY <1>4 DEF LookUpAsset, Go
  <2>2. PICK m : /\ found' = [found EXCEPT ![r] = m]
                 /\ m \in WithAsset(ids[r].asset) \/ (m = Unknown /\ WithAsset(ids[r].asset) = {})
    BY <1>4 DEF LookUpAsset
  <2>3. step'[r] = <<phase, "fingerprint">> /\ found'[r] = m
    BY <1>1, <2>1, <2>2 DEF Domains
  <2>4. /\ m # Unknown => m = As(m.key)
        /\ m = Unknown => WithAsset(ids[r].asset) = {}
    BY <1>1, <2>2, Match
  <2>5. step'[r] \notin {"create", "ingest"} \X {"save"}
    BY <2>3
  <2>6. IsCurrent(r)'
    BY <1>2, <2>1, <2>3, <2>4, <2>5 DEF IsCurrent, As, WithAsset, OnRecord
  <2> QED BY <1>2, <1>3, <2>1, <2>6, AloneReads
<1>5. CASE LookUpPrint(r, phase)
  <2>1. ids' = ids /\ step[r] = <<phase, "fingerprint">>
    BY <1>5 DEF LookUpPrint
  <2>2. IF found[r] = Unknown THEN WithAsset(ids[r].asset) = {} ELSE found[r] = As(found[r].key)
    BY <1>3, <2>1 DEF IsCurrent
  <2>3. IsCurrent(r)'
    <3>1. CASE step' = [step EXCEPT ![r] = At("refused")]
      <4>1. step'[r] = At("refused")
        BY <1>1, <3>1 DEF Domains
      <4> QED BY <4>1 DEF IsCurrent, At
    <3>2. CASE step' = [step EXCEPT ![r] = <<phase, "save">>]
      <4>1. \/ found'[r] = found[r] /\ (found[r] # Unknown \/ WithPrint(ids[r].print) = {})
            \/ found'[r] \in WithPrint(ids[r].print)
        BY <1>1, <1>5, <3>2, AssetSteps DEF LookUpPrint, Go, Refuse, Domains
      <4>2. found'[r] \in WithPrint(ids[r].print) =>
              found'[r] # Unknown /\ found'[r] = As(found'[r].key)
        BY <1>1, Match
      <4> QED BY <1>2, <2>1, <2>2, <4>1, <4>2 DEF IsCurrent, As, WithAsset, WithPrint, OnRecord
    <3> QED BY <1>5, <3>1, <3>2 DEF LookUpPrint, Go, Refuse
  <2> QED BY <1>2, <1>3, <2>1, <2>3, AloneReads
<1>6. CASE ReadBack(r, phase)
  <2>1. /\ step[r] = <<phase, "saved">> /\ step' = [step EXCEPT ![r] = <<phase, "context">>]
        /\ ids' = [ids EXCEPT ![r] = records[medium[r]]]
    BY <1>6 DEF ReadBack, Go
  <2>2. step'[r] = <<phase, "context">> /\ ids'[r] = records[medium[r]]
    BY <1>1, <2>1 DEF Domains
  <2>3. medium[r] \in OnRecord
    <3>1. step[r] \in Resolved
      BY <2>1, AssetSteps
    <3> QED BY <1>1, <3>1 DEF AInv, AssetRunInv
  <2>4. Accepted(r)
    <3>1. medium[r][1] \in Kinds
      BY <1>1, <2>3 DEF AInv, RecordsNamed, Names
    <3>2. NoMedia[1] = "no medium"
      BY DEF NoMedia
    <3> QED BY <3>1, <3>2 DEF Accepted, Kinds
  <2>5. IsCurrent(r)'
    <3>1. step'[r] \notin {"create", "ingest"} \X {"fingerprint", "save"}
      BY <2>2
    <3>2. step'[r] \notin {"create", "ingest"} \X {"save"}
      BY <2>2
    <3> QED BY <3>1, <3>2 DEF IsCurrent
  <2> QED BY <1>2, <1>3, <2>2, <2>4, <2>5, AloneReads
<1> QED BY <1>4, <1>5, <1>6

\* The record that the run saves still has the identifiers of the runs before.
LEMMA AloneSaves ==
  ASSUME AssetAloneInv, ~request.overlap, AInv', NEW r \in Requesters,
         NEW phase \in {"create", "ingest"}, SaveRecord(r, phase)
  PROVE  AssetAloneInv'
<1>1. Domains /\ AInv /\ FoundNamed(r)
  BY DEF AssetAloneInv, AInv, AssetRunInv
<1>2. /\ step[r] = <<phase, "save">> /\ UNCHANGED <<ids, found, request>>
      /\ r \in Under
  BY UnderWay, AssetSteps DEF SaveRecord
<1>3. /\ Under \subseteq {r} /\ Covers(ids[r], request.of[r])
      /\ IF found[r] = Unknown THEN WithAsset(ids[r].asset) = {} ELSE found[r] = As(found[r].key)
      /\ found[r] = Unknown => WithPrint(ids[r].print) = {}
  <2>1. Under \subseteq {r} /\ Covered(r) /\ IsCurrent(r)
    BY <1>2 DEF AssetAloneInv, Under
  <2>2. /\ step[r] \in {"create", "ingest"} \X {"fingerprint", "save"}
        /\ step[r] \in {"create", "ingest"} \X {"save"}
    BY <1>2
  <2>3. Covers(ids[r], request.of[r])
    BY <1>2, <2>1 DEF Covered
  <2> QED BY <2>1, <2>2, <2>3 DEF IsCurrent
<1>4. CASE step' = [step EXCEPT ![r] = At("refused")] /\ UNCHANGED <<records, medium>>
  <2>1. step'[r] = At("refused") /\ \A x \in Requesters \ {r} : step'[x] = step[x]
    BY <1>1, <1>4 DEF Domains
  <2>2. IsCurrent(r)'
    BY <2>1 DEF IsCurrent, At
  <2> QED BY <1>2, <1>3, <1>4, <2>1, <2>2, AloneReads
<1>5. CASE ~(step' = [step EXCEPT ![r] = At("refused")] /\ UNCHANGED <<records, medium>>)
  <2> DEFINE k == KeyFor(r)
             new == MergeIdentifiers(found[r], ids[r])
  <2>1. /\ ~Contradicts(found[r], ids[r])
        /\ step' = [step EXCEPT ![r] = <<phase, "saved">>]
        /\ records' = [x \in OnRecord \cup {k} |-> IF x = k THEN new ELSE records[x]]
        /\ medium' = [medium EXCEPT ![r] = k]
    BY <1>5 DEF SaveRecord, Refuse, Go
  <2>2. Covers(new, request.of[r])
    BY <1>3, <2>1 DEF Covers, Contradicts, MergeIdentifiers
  <2>3. ASSUME k \in OnRecord, NEW asked, Covers(records[k], asked) PROVE Covers(new, asked)
    <3>1. CASE found[r] # Unknown
      <4>1. k = found[r].key
        BY <3>1 DEF KeyFor
      <4>2. found[r].asset = records[k].asset /\ found[r].print = records[k].print
        BY <1>3, <3>1, <4>1 DEF As
      <4> QED BY <2>3, <4>2 DEF Covers, MergeIdentifiers
    <3>2. CASE found[r] = Unknown
      <4>1. Names(k, records[k])
        BY <1>1, <2>3 DEF AInv, RecordsNamed
      <4>2. ids[r].asset = None /\ ids[r].print = None
        <5>1. ASSUME ids[r].asset # None PROVE FALSE
          <6>1. k = <<"asset-id", ids[r].asset>>
            BY <3>2, <5>1 DEF KeyFor
          <6>2. records[k].asset = ids[r].asset
            BY <4>1, <6>1 DEF Names
          <6> QED BY <1>3, <2>3, <3>2, <5>1, <6>2, Finds
        <5>2. ASSUME ids[r].asset = None, ids[r].print # None PROVE FALSE
          <6>1. k = <<"media-fingerprint", ids[r].print>>
            BY <3>2, <5>2 DEF KeyFor
          <6>2. records[k].print = ids[r].print
            BY <4>1, <6>1 DEF Names
          <6> QED BY <1>3, <2>3, <3>2, <5>2, <6>2, Finds
        <5> QED BY <5>1, <5>2
      <4>3. k = <<"source-ref", r>>
        BY <3>2, <4>2 DEF KeyFor
      <4>4. records[k].asset = None /\ records[k].print = None
        BY <4>1, <4>3 DEF Names
      <4> QED BY <2>3, <4>4 DEF Covers
    <3> QED BY <3>1, <3>2
  <2> HIDE DEF k, new
  <2>4. /\ step'[r] = <<phase, "saved">> /\ medium'[r] = k
        /\ \A x \in Requesters \ {r} : step'[x] = step[x] /\ medium'[x] = medium[x]
        /\ OnRecord' = OnRecord \cup {k} /\ records'[k] = new
        /\ \A x \in OnRecord \ {k} : records'[x] = records[x]
    BY <1>1, <2>1 DEF Domains, OnRecord
  <2>5. IsCurrent(r)'
    <3>1. step'[r] \notin {"create", "ingest"} \X {"fingerprint", "save"}
      BY <2>4
    <3>2. step'[r] \notin {"create", "ingest"} \X {"save"}
      BY <2>4
    <3> QED BY <3>1, <3>2 DEF IsCurrent
  <2>6. Covered(r)'
    BY <1>2, <1>3, <2>2, <2>4 DEF Covered
  <2>7. ASSUME NEW x \in Requesters \ {r}, Accepted(x)
        PROVE  medium[x] \in OnRecord' /\ Covers(records'[medium[x]], request.of[x])
    <3>1. medium[x] \in OnRecord /\ Covers(records[medium[x]], request.of[x])
      BY <2>7 DEF AssetAloneInv, Covered
    <3> QED BY <2>3, <2>4, <3>1
  <2> QED BY <1>2, <1>3, <2>4, <2>5, <2>6, <2>7, AloneMoves
<1> QED BY <1>4, <1>5

LEMMA AloneHolds == AssetSpec => []AssetAloneInv
<1>1. AssetInit => AssetAloneInv
  <2> SUFFICES ASSUME AssetInit PROVE AssetAloneInv
    OBVIOUS
  <2>1. \A r \in Requesters : step[r] = At("new") /\ ~Accepted(r)
    BY DEF AssetInit, Accepted
  <2>2. \A r \in Requesters : r \notin Under
    BY <2>1, UnderWay
  <2>3. \A r \in Requesters : IsCurrent(r) /\ Covered(r)
    BY <2>1, <2>2 DEF IsCurrent, Covered, At
  <2> QED BY <2>2, <2>3, InitInv DEF AssetAloneInv, Under
<1>2. AssetAloneInv /\ [AssetNext]_assetVars => AssetAloneInv'
  <2> SUFFICES ASSUME AssetAloneInv, [AssetNext]_assetVars PROVE AssetAloneInv'
    OBVIOUS
  <2>1. AInv /\ AInv'
    BY NextInv DEF AssetAloneInv
  <2>2. CASE UNCHANGED assetVars
    <3>1. \A r \in Requesters : IsCurrent(r)' = IsCurrent(r) /\ Covered(r)' = Covered(r)
      BY <2>2 DEF assetVars, IsCurrent, Covered, Accepted, As, WithAsset, WithPrint, OnRecord, Under
    <3>2. Under' = Under /\ request' = request
      BY <2>2 DEF assetVars, Under
    <3> QED BY <2>1, <3>1, <3>2 DEF AssetAloneInv
  <2>3. CASE request.overlap /\ AssetNext
    <3>1. request' = request
      BY <2>3 DEF AssetNext, Create, RequesterDies, LookUpAsset, LookUpPrint, SaveRecord, ReadBack,
             ReadContext, StoreContext, DeriveContext, IngestContext, Finish, AllAnswered, assetVars
    <3> QED BY <2>1, <2>3, <3>1 DEF AssetAloneInv
  <2>4. CASE ~request.overlap /\ AssetNext
    <3>1. ASSUME NEW r \in Requesters, NEW phase \in {"create", "ingest"},
                 LookUpAsset(r, phase) \/ LookUpPrint(r, phase) \/ SaveRecord(r, phase) \/ ReadBack(r, phase)
          PROVE  AssetAloneInv'
      BY <2>1, <2>4, <3>1, AloneLooks, AloneSaves
    <3>2. ASSUME NEW r \in Requesters,
                 \/ Create(r) \/ RequesterDies(r)
                 \/ ReadContext(r) \/ StoreContext(r) \/ DeriveContext(r) \/ IngestContext(r) \/ Finish(r)
          PROVE  AssetAloneInv'
      BY <2>1, <2>4, <3>2, AloneStep
    <3>3. CASE AllAnswered
      BY <2>2, <3>3 DEF AllAnswered
    <3> QED BY <2>4, <3>1, <3>2, <3>3 DEF AssetNext
  <2> QED BY <2>2, <2>3, <2>4
<1> QED BY <1>1, <1>2, PTL DEF AssetSpec

\* _resolve_asset_record takes over what a request adds and gives nothing up: runs that
\* share an asset id or a fingerprint are about one medium, if they do not overlap.
THEOREM OneMedium == AssetSpec => []OneMediumPerIdentifier
<1>1. AssetAloneInv => OneMediumPerIdentifier
  <2> SUFFICES ASSUME AssetAloneInv, ~request.overlap,
                      NEW r \in DOMAIN request.of, NEW x \in DOMAIN request.of,
                      Accepted(r), Accepted(x), Share(r, x)
               PROVE  medium[r] = medium[x]
    BY DEF OneMediumPerIdentifier
  <2>1. r \in Requesters /\ x \in Requesters
    BY AssetAssumption DEF AssetAloneInv, AInv, Domains
  <2>2. /\ medium[r] \in OnRecord /\ Covers(records[medium[r]], request.of[r])
        /\ medium[x] \in OnRecord /\ Covers(records[medium[x]], request.of[x])
    BY <2>1 DEF AssetAloneInv, Covered
  <2>3. RecordsUnique
    BY DEF AssetAloneInv, AInv
  <2> QED BY <2>2, <2>3 DEF Share, Covers, RecordsUnique
<1> QED BY <1>1, AloneHolds, PTL

-----------------------------------------------------------------------------
(* The memory of runs that do not overlap: what a batch calls consolidated *)
(* is in the memory store, and a run that ends well leaves its job's       *)
(* batches settled.                                                        *)

----------------------------------------------------------------------------
(* The shape of the state.                                                 *)

GraphStages == {"transcript", "translation"}
Slots == {"semantic", "episodic", "procedural"}
RunSteps == {"new", "transcript", "decided", "finalized", "evaluating", "evaluated",
          "draining", "ended", "aborted", "dead"}
BatchStatuses == {"pending", "consolidated", "failed"}

BatchIds(t) == (GraphStages \X Jobs) \cup ({"evaluation"} \X DOMAIN t.jobs)
Owner(t, b) == IF b[1] = "evaluation" THEN MediumOf[t.jobs[b[2]]] ELSE t.names[b[2]]
Whats(t) == t.ends \cup {Undecided, "artifact", "finalized", "failed"}
Finding(slot) == IF slot = "semantic" THEN "pattern"
                 ELSE IF slot = "episodic" THEN "done" ELSE "proposal"

\* The keys a slot of a batch can have. An evaluation has one for each: evaluations of
\* a medium find the same again.
Keys(t, b, slot) ==
  IF b[1] = "evaluation"
  THEN {<<slot, "evaluation", Owner(t, b), Finding(slot)>>}
  ELSE {<<slot, b[1], Owner(t, b), what>> : what \in Whats(t)}

MemoriesOf(t, b) ==
  UNION {{[slot |-> slot, key |-> key] : key \in Keys(t, b, slot)} : slot \in Slots}

\* The memories of a batch: no two of them have one slot.
Sole(memories) == \A m, n \in ToSet(memories) : m.slot = n.slot => m = n
ListsOf(t, b) == {s \in Seq(MemoriesOf(t, b)) : Sole(s)}

BatchRow(t, b) == [status : BatchStatuses, memories : ListsOf(t, b)]
CopyOf(t, b) == [id : {b}, memories : ListsOf(t, b), left : Seq(MemoriesOf(t, b)), failed : BOOLEAN]
Copies(t) == UNION {CopyOf(t, b) : b \in BatchIds(t)}

MemoryTables ==
  /\ DOMAIN batches \subseteq BatchIds(task)
  /\ \A b \in DOMAIN batches : batches[b] \in BatchRow(task, b)
  /\ DOMAIN entries \subseteq BatchIds(task) \X Slots
  /\ \A m \in DOMAIN entries : entries[m] \in Keys(task, m[1], m[2])

\* Runs start in their order, and work on the batches of their own, each of them once.
InOrder(r) == at[r] # "new" => r \in DOMAIN task.jobs /\ \A x \in Runs : x < r => at[x] # "new"
Owned(t, r, stage, w) ==
  /\ stage \notin Working => w = <<>>
  /\ stage = "evaluating" => Len(w) = 1 /\ w[1].id = <<"evaluation", r>>
  /\ stage = "draining" =>
       \A k \in DOMAIN w : w[k].id \in BatchIds(t) /\ w[k].id[1] \in GraphStages /\ w[k].id[2] = t.jobs[r]
  /\ Len(w) <= 2
  /\ \A i, k \in DOMAIN w : i # k => w[i].id # w[k].id
OwnWork(r) == Owned(task, r, at[r], work[r])

MemoryTypeOK ==
  /\ task \in MemoryWorkloads
  /\ decision \in [Jobs -> task.ends \cup {Undecided}]
  /\ at \in [Runs -> RunSteps]
  /\ work \in [Runs -> Seq(Copies(task))]
  /\ looked \in [Runs -> BOOLEAN]
  /\ MemoryTables

MInv ==
  /\ MemoryTypeOK
  /\ \A r \in Runs : InOrder(r) /\ OwnWork(r)

----------------------------------------------------------------------------
(* What holds when runs do not overlap.                                    *)

\* A run that is under way is the last one that started.
Latest == \A r \in Busy : \A x \in Runs : x > r => at[x] = "new"

\* A batch a run works on is on the table as it was copied.
Agrees(c) ==
  /\ c.id \in DOMAIN batches
  /\ batches[c.id].memories = c.memories
  /\ batches[c.id].status # "consolidated"
CopiesAgree == \A r \in Runs : \A c \in ToSet(work[r]) : Agrees(c)

Pending(j) == {b \in DOMAIN batches : b[1] \in GraphStages /\ b[2] = j /\ batches[b].status = "pending"}

\* What a run has staged is of a stage of the graph.
StagedShape == staged \in [Runs -> SUBSET (GraphStages \X Jobs)]

\* What a run has staged and is pending when it drains is among what it copied.
DrainsPending ==
  \A r \in Runs : at[r] = "draining" =>
    \A b \in Pending(JobOf(r)) \cap staged[r] : \E c \in ToSet(work[r]) : c.id = b
NonePending == \A r \in DOMAIN task.jobs : LastOfJob(r) => Pending(JobOf(r)) \cap staged[r] = {}

\* What is pending of a job has been staged by a run of it that is under way, unless one
\* has died or has abandoned its drain.
NoLoss(j) == \A x \in DOMAIN task.jobs : JobOf(x) = j => at[x] \notin {"dead", "aborted"}
PendingUnderWay ==
  \A j \in Jobs : NoLoss(j) =>
    \A b \in Pending(j) : \E x \in Busy : JobOf(x) = j /\ b \in staged[x]

\* A translation batch tells of the decision that stands, unless a run of the job is
\* between the two or has died.
TellsDecision ==
  \A j \in Jobs :
    /\ <<"translation", j>> \in DOMAIN batches
    /\ \A x \in DOMAIN task.jobs : JobOf(x) = j => at[x] \notin {"decided", "dead"}
    => batches[<<"translation", j>>].memories = TranslationMemories(j, decision[j])

\* The memories of a consolidated batch are stored, and those of a batch a run works on
\* are stored or still to store.
BatchStored(b) ==
  batches[b].status = "consolidated" => \A m \in ToSet(batches[b].memories) : Stored(m.key)
CopyStored(c) ==
  /\ ToSet(c.left) \subseteq ToSet(c.memories)
  /\ ~c.failed => \A m \in ToSet(c.memories) : Stored(m.key) \/ m \in ToSet(c.left)
StoredInv ==
  /\ \A b \in DOMAIN batches : BatchStored(b)
  /\ \A r \in Runs : \A c \in ToSet(work[r]) : CopyStored(c)

MemoryAloneInv ==
  ~task.overlap =>
    /\ Latest /\ CopiesAgree /\ DrainsPending /\ NonePending /\ PendingUnderWay /\ TellsDecision
    /\ Unshared => StoredInv

----------------------------------------------------------------------------
(* Sequences of memories and of copies.                                    *)

\* The elements of a sequence put together of two.
LEMMA Joined ==
  ASSUME NEW S, NEW s \in Seq(S), NEW t \in Seq(S)
  PROVE  /\ s \o t \in Seq(S)
         /\ ToSet(s \o t) = ToSet(s) \cup ToSet(t)
<1>1. s \o t \in Seq(S) /\ Len(s \o t) = Len(s) + Len(t)
  OBVIOUS
<1>2. ASSUME NEW i \in DOMAIN s PROVE s[i] \in ToSet(s \o t)
  <2>1. i \in DOMAIN (s \o t) /\ (s \o t)[i] = s[i]
    BY <1>1
  <2> QED BY <2>1 DEF ToSet
<1>3. ASSUME NEW i \in DOMAIN t PROVE t[i] \in ToSet(s \o t)
  <2>1. /\ Len(s) + i \in DOMAIN (s \o t)
        /\ (s \o t)[Len(s) + i] = t[i]
    BY <1>1
  <2> QED BY <2>1 DEF ToSet
<1>4. ASSUME NEW i \in DOMAIN (s \o t) PROVE (s \o t)[i] \in ToSet(s) \cup ToSet(t)
  <2>1. CASE i <= Len(s)
    <3>1. i \in DOMAIN s /\ (s \o t)[i] = s[i]
      BY <1>1, <2>1
    <3> QED BY <3>1 DEF ToSet
  <2>2. CASE i > Len(s)
    <3>1. i - Len(s) \in DOMAIN t /\ (s \o t)[i] = t[i - Len(s)]
      BY <1>1, <2>2
    <3> QED BY <3>1 DEF ToSet
  <2> QED BY <1>1, <2>1, <2>2
<1>5. ToSet(s) \subseteq ToSet(s \o t)
  BY <1>2 DEF ToSet
<1>6. ToSet(t) \subseteq ToSet(s \o t)
  BY <1>3 DEF ToSet
<1>7. ToSet(s \o t) \subseteq ToSet(s) \cup ToSet(t)
  BY <1>4 DEF ToSet
<1> QED BY <1>1, <1>5, <1>6, <1>7

LEMMA Single ==
  ASSUME NEW S, NEW a \in S
  PROVE  <<a>> \in Seq(S) /\ ToSet(<<a>>) = {a} /\ Len(<<a>>) = 1
BY DEF ToSet

LEMMA NoElements ==
  ASSUME NEW S
  PROVE  <<>> \in Seq(S) /\ ToSet(<<>>) = {} /\ Len(<<>>) = 0
BY DEF ToSet

\* A sequence is its head and its tail.
LEMMA Headed ==
  ASSUME NEW S, NEW s \in Seq(S), s # <<>>
  PROVE  /\ Head(s) \in S /\ Head(s) = s[1] /\ 1 \in DOMAIN s /\ Tail(s) \in Seq(S)
         /\ ToSet(s) = ToSet(Tail(s)) \cup {Head(s)}
         /\ DOMAIN Tail(s) = 1..(Len(s) - 1)
         /\ \A i \in DOMAIN Tail(s) : Tail(s)[i] = s[i + 1]
<1>1. /\ Head(s) \in S /\ Head(s) = s[1] /\ 1 \in DOMAIN s /\ Tail(s) \in Seq(S)
      /\ DOMAIN Tail(s) = 1..(Len(s) - 1) /\ DOMAIN s = 1..Len(s) /\ Len(s) \in Nat
      /\ \A i \in DOMAIN Tail(s) : Tail(s)[i] = s[i + 1]
  OBVIOUS
<1>2. ASSUME NEW i \in DOMAIN s PROVE s[i] \in ToSet(Tail(s)) \cup {Head(s)}
  <2>1. CASE i = 1
    BY <1>1, <2>1
  <2>2. CASE i # 1
    <3>1. i - 1 \in DOMAIN Tail(s) /\ Tail(s)[i - 1] = s[i]
      BY <1>1, <2>2
    <3> QED BY <3>1 DEF ToSet
  <2> QED BY <2>1, <2>2
<1>3. ASSUME NEW i \in DOMAIN Tail(s) PROVE Tail(s)[i] \in ToSet(s)
  <2>1. i + 1 \in DOMAIN s /\ Tail(s)[i] = s[i + 1]
    BY <1>1
  <2> QED BY <2>1 DEF ToSet
<1>4. ToSet(s) \subseteq ToSet(Tail(s)) \cup {Head(s)}
  BY <1>2 DEF ToSet
<1>5. ToSet(Tail(s)) \subseteq ToSet(s)
  BY <1>3 DEF ToSet
<1>6. Head(s) \in ToSet(s)
  BY <1>1 DEF ToSet
<1> QED BY <1>1, <1>4, <1>5, <1>6

LEMMA Least ==
  ASSUME NEW S, S \subseteq {1, 2}, S # {}
  PROVE  Min(S) \in S
<1>1. PICK n \in S : \A m \in S : n <= m
  <2>1. CASE 1 \in S
    BY <2>1
  <2>2. CASE 1 \notin S
    <3>1. S = {2}
      BY <2>2
    <3> QED BY <3>1
  <2> QED BY <2>1, <2>2
<1> QED BY <1>1 DEF Min

----------------------------------------------------------------------------
(* The memories of the batches.                                            *)

LEMMA MemoryFits ==
  ASSUME NEW t, NEW b, NEW m \in MemoriesOf(t, b)
  PROVE  m.slot \in Slots /\ m.key \in Keys(t, b, m.slot) /\ m = [slot |-> m.slot, key |-> m.key]
BY DEF MemoriesOf

LEMMA FitsMemory ==
  ASSUME NEW t, NEW b, NEW slot \in Slots, NEW key \in Keys(t, b, slot)
  PROVE  [slot |-> slot, key |-> key] \in MemoriesOf(t, b)
BY DEF MemoriesOf

\* A memory of a transcript or a translation.
LEMMA GraphMemory ==
  ASSUME NEW stage \in GraphStages, NEW j, NEW slot \in Slots, NEW what \in Whats(task)
  PROVE  Memory(slot, stage, task.names[j], what) \in MemoriesOf(task, <<stage, j>>)
<1>1. <<slot, stage, task.names[j], what>> \in Keys(task, <<stage, j>>, slot)
  BY DEF Keys, Owner, GraphStages
<1> QED BY <1>1, FitsMemory DEF Memory

LEMMA TranscriptFits ==
  ASSUME NEW j
  PROVE  TranscriptMemories(j) \in ListsOf(task, <<"transcript", j>>)
<1> DEFINE a == Memory("semantic", "transcript", task.names[j], "artifact")
           b == Memory("episodic", "transcript", task.names[j], "finalized")
<1>1. a \in MemoriesOf(task, <<"transcript", j>>) /\ b \in MemoriesOf(task, <<"transcript", j>>)
  BY GraphMemory DEF GraphStages, Slots, Whats
<1>2. a.slot = "semantic" /\ b.slot = "episodic"
  BY DEF Memory
<1>3. TranscriptMemories(j) = <<a, b>>
  BY DEF TranscriptMemories
<1> HIDE DEF a, b
<1>4. <<a, b>> \in Seq(MemoriesOf(task, <<"transcript", j>>)) /\ ToSet(<<a, b>>) = {a, b}
  BY <1>1 DEF ToSet
<1>5. Sole(<<a, b>>)
  BY <1>2, <1>4 DEF Sole
<1> QED BY <1>3, <1>4, <1>5 DEF ListsOf

LEMMA TranslationFits ==
  ASSUME NEW j, NEW winner \in task.ends \cup {Undecided}
  PROVE  TranslationMemories(j, winner) \in ListsOf(task, <<"translation", j>>)
<1> DEFINE M == MemoriesOf(task, <<"translation", j>>)
           a == Memory("semantic", "translation", task.names[j], winner)
           b == Memory("episodic", "translation", task.names[j], "finalized")
           c == Memory("procedural", "translation", task.names[j], winner)
           d == Memory("episodic", "translation", task.names[j], "failed")
<1>1. a \in M /\ b \in M /\ c \in M /\ d \in M
  BY GraphMemory DEF GraphStages, Slots, Whats
<1>2. a.slot = "semantic" /\ b.slot = "episodic" /\ c.slot = "procedural"
  BY DEF Memory
<1>3. TranslationMemories(j, winner) = IF winner = NoWinner THEN <<d>> ELSE <<a, b, c>>
  BY DEF TranslationMemories
<1> HIDE DEF M, a, b, c, d
<1>4. <<a, b, c>> \in Seq(M) /\ ToSet(<<a, b, c>>) = {a, b, c}
  BY <1>1 DEF ToSet
<1>5. <<d>> \in Seq(M) /\ ToSet(<<d>>) = {d}
  BY <1>1 DEF ToSet
<1>6. CASE winner = NoWinner
  <2>1. TranslationMemories(j, winner) = <<d>>
    BY <1>3, <1>6
  <2>2. Sole(<<d>>)
    BY <1>5 DEF Sole
  <2> QED BY <2>1, <2>2, <1>5 DEF ListsOf, M
<1>7. CASE winner # NoWinner
  <2>1. TranslationMemories(j, winner) = <<a, b, c>>
    BY <1>3, <1>7
  <2>2. Sole(<<a, b, c>>)
    BY <1>2, <1>4 DEF Sole
  <2> QED BY <2>1, <2>2, <1>4 DEF ListsOf, M
<1> QED BY <1>6, <1>7

LEMMA EvaluationFits ==
  ASSUME NEW r, NEW patterns \in BOOLEAN, NEW proposals \in BOOLEAN
  PROVE  EvaluationMemories(MediumOf[JobOf(r)], patterns, proposals)
            \in ListsOf(task, <<"evaluation", r>>)
<1> DEFINE M == MemoriesOf(task, <<"evaluation", r>>)
           about == MediumOf[JobOf(r)]
           a == Memory("semantic", "evaluation", about, "pattern")
           b == Memory("episodic", "evaluation", about, "done")
           c == Memory("procedural", "evaluation", about, "proposal")
           first == IF patterns THEN <<a>> ELSE <<>>
           last == IF proposals THEN <<c>> ELSE <<>>
           done == <<b>>
           all == first \o done \o last
<1>1. a \in M /\ b \in M /\ c \in M
  <2>1. \A slot \in Slots : <<slot, "evaluation", about, Finding(slot)>> \in Keys(task, <<"evaluation", r>>, slot)
    BY DEF Keys, Owner, JobOf
  <2>2. \A slot \in Slots : Memory(slot, "evaluation", about, Finding(slot)) \in M
    BY <2>1, FitsMemory DEF Memory
  <2>3. /\ "semantic" \in Slots /\ "episodic" \in Slots /\ "procedural" \in Slots
        /\ Finding("semantic") = "pattern" /\ Finding("episodic") = "done"
        /\ Finding("procedural") = "proposal"
    BY DEF Slots, Finding
  <2> QED BY <2>2, <2>3
<1>2. a.slot = "semantic" /\ b.slot = "episodic" /\ c.slot = "procedural"
  BY DEF Memory
<1>3. EvaluationMemories(about, patterns, proposals) = all
  BY DEF EvaluationMemories
<1> HIDE DEF M, a, b, c
<1>4. first \in Seq(M) /\ ToSet(first) \subseteq {a}
  BY <1>1, Single, NoElements
<1>5. last \in Seq(M) /\ ToSet(last) \subseteq {c}
  BY <1>1, Single, NoElements
<1>6. done \in Seq(M) /\ ToSet(done) = {b}
  BY <1>1, Single
<1> HIDE DEF first, done, last
<1>7. first \o done \in Seq(M) /\ ToSet(first \o done) \subseteq {a, b}
  <2>1. first \o done \in Seq(M) /\ ToSet(first \o done) = ToSet(first) \cup ToSet(done)
    BY <1>4, <1>6, Joined
  <2> QED BY <2>1, <1>4, <1>6
<1>8. all \in Seq(M) /\ ToSet(all) \subseteq {a, b, c}
  <2>1. /\ (first \o done) \o last \in Seq(M)
        /\ ToSet((first \o done) \o last) = ToSet(first \o done) \cup ToSet(last)
    BY <1>7, <1>5, Joined
  <2> QED BY <2>1, <1>5, <1>7
<1> HIDE DEF all
<1>9. Sole(all)
  BY <1>2, <1>8 DEF Sole
<1> QED BY <1>3, <1>8, <1>9 DEF ListsOf, M

----------------------------------------------------------------------------
(* The tables and the runs keep their shape.                               *)

LEMMA CopyFits ==
  ASSUME NEW t, NEW c \in Copies(t)
  PROVE  c.id \in BatchIds(t) /\ c \in CopyOf(t, c.id)
BY DEF Copies, CopyOf

LEMMA FitsCopy ==
  ASSUME NEW t, NEW b \in BatchIds(t), NEW memories \in ListsOf(t, b),
         NEW left \in Seq(MemoriesOf(t, b)), NEW failed \in BOOLEAN
  PROVE  [id |-> b, memories |-> memories, left |-> left, failed |-> failed] \in Copies(t)
BY DEF Copies, CopyOf

\* The first batch with memories to store.
LEMMA CurrentIs ==
  ASSUME MemoryTypeOK, NEW r \in Runs, Len(work[r]) <= 2
  PROVE  /\ work[r] \in Seq(Copies(task)) /\ Current(r) \in 0..Len(work[r])
         /\ Current(r) # 0 => Current(r) \in DOMAIN work[r] /\ work[r][Current(r)].left # <<>>
         /\ Current(r) = 0 => \A k \in DOMAIN work[r] : work[r][k].left = <<>>
<1> DEFINE I == {i \in 1..Len(work[r]) : work[r][i].left # <<>>}
<1>1. work[r] \in Seq(Copies(task)) /\ Len(work[r]) \in Nat /\ DOMAIN work[r] = 1..Len(work[r])
  BY DEF MemoryTypeOK
<1>2. Current(r) = IF I # {} THEN Min(I) ELSE 0
  BY DEF Current, SelectInSeq
<1>3. I \subseteq {1, 2}
  BY <1>1
<1>4. CASE I = {}
  BY <1>1, <1>2, <1>4
<1>5. CASE I # {}
  <2> HIDE DEF I
  <2>1. Current(r) \in I
    BY <1>2, <1>3, <1>5, Least
  <2> QED BY <2>1, <1>1 DEF I
<1> QED BY <1>4, <1>5

LEMMA Saved ==
  ASSUME NEW b, NEW batch, SaveBatch(b, batch)
  PROVE  /\ DOMAIN batches' = DOMAIN batches \cup {b}
         /\ batches'[b] = batch
         /\ \A x \in DOMAIN batches \ {b} : batches'[x] = batches[x]
BY DEF SaveBatch, Upsert

\* The tables after a batch is saved.
LEMMA SaveShapes ==
  ASSUME MemoryTables, task' = task, entries' = entries, NEW b \in BatchIds(task), NEW status \in BatchStatuses,
         NEW memories \in ListsOf(task, b),
         SaveBatch(b, Batch(status, memories))
  PROVE  MemoryTables'
<1> DEFINE batch == Batch(status, memories)
<1>1. batch \in BatchRow(task, b) /\ batch.memories = memories
  BY DEF Batch, BatchRow
<1>2. SaveBatch(b, batch)
  OBVIOUS
<1> HIDE DEF batch
<1>3. /\ DOMAIN batches' = DOMAIN batches \cup {b}
      /\ batches'[b] = batch
      /\ \A x \in DOMAIN batches \ {b} : batches'[x] = batches[x]
  BY <1>2, Saved
<1>4. ASSUME NEW x \in DOMAIN batches'
      PROVE  x \in BatchIds(task) /\ batches'[x] \in BatchRow(task, x)
  <2>1. CASE x = b
    BY <1>1, <1>3, <2>1
  <2>2. CASE x # b
    BY <1>3, <2>2 DEF MemoryTables
  <2> QED BY <2>1, <2>2
<1> QED BY <1>4 DEF MemoryTables

LEMMA EmptyOwned ==
  ASSUME NEW t, NEW r, NEW stage, stage # "evaluating"
  PROVE  Owned(t, r, stage, <<>>)
BY DEF Owned

\* A step of run r that leaves the tables in shape.
LEMMA MemoryMoves ==
  ASSUME MInv, NEW r \in Runs, NEW to \in RunSteps, NEW w \in Seq(Copies(task)), NEW look \in BOOLEAN,
         at' = [at EXCEPT ![r] = to], work' = [work EXCEPT ![r] = w],
         looked' = [looked EXCEPT ![r] = look], task' = task,
         r \in DOMAIN task.jobs, \A x \in Runs : x < r => at[x] # "new", to # "new",
         Owned(task, r, to, w), MemoryTables',
         decision' \in [Jobs -> task.ends \cup {Undecided}]
  PROVE  MInv'
<1>1. /\ task \in MemoryWorkloads /\ at \in [Runs -> RunSteps]
      /\ work \in [Runs -> Seq(Copies(task))] /\ looked \in [Runs -> BOOLEAN]
  BY DEF MInv, MemoryTypeOK
<1>2. at' \in [Runs -> RunSteps] /\ work' \in [Runs -> Seq(Copies(task))] /\ looked' \in [Runs -> BOOLEAN]
  BY <1>1
<1>3. at'[r] = to /\ work'[r] = w /\ \A x \in Runs \ {r} : at'[x] = at[x] /\ work'[x] = work[x]
  BY <1>1
<1>4. MemoryTypeOK'
  BY <1>1, <1>2 DEF MemoryTypeOK
<1>5. ASSUME NEW x \in Runs PROVE InOrder(x)' /\ OwnWork(x)'
  <2>1. CASE x = r
    BY <1>3, <2>1 DEF InOrder, OwnWork
  <2>2. CASE x # r
    <3>1. InOrder(x) /\ OwnWork(x)
      BY DEF MInv
    <3> QED BY <1>3, <2>2, <3>1 DEF InOrder, OwnWork
  <2> QED BY <2>1, <2>2
<1> QED BY <1>4, <1>5 DEF MInv

\* A run that is not new has a job.
LEMMA Started ==
  ASSUME MInv, NEW r \in Runs, at[r] # "new"
  PROVE  /\ r \in DOMAIN task.jobs /\ JobOf(r) \in Jobs /\ JobOf(r) = task.jobs[r]
         /\ \A x \in Runs : x < r => at[x] # "new"
<1>1. InOrder(r) /\ task \in MemoryWorkloads
  BY DEF MInv, MemoryTypeOK
<1> QED BY <1>1, MemoryAssumption DEF InOrder, JobOf

LEMMA WorkOf ==
  ASSUME MInv, NEW r \in Runs
  PROVE  /\ work[r] \in Seq(Copies(task)) /\ looked[r] \in BOOLEAN /\ at[r] \in RunSteps
         /\ Owned(task, r, at[r], work[r]) /\ Len(work[r]) <= 2
         /\ work = [work EXCEPT ![r] = work[r]] /\ looked = [looked EXCEPT ![r] = looked[r]]
         /\ at = [at EXCEPT ![r] = at[r]]
<1>1. OwnWork(r) /\ MemoryTypeOK
  BY DEF MInv
<1>2. Owned(task, r, at[r], work[r])
  BY <1>1 DEF OwnWork
<1>3. Len(work[r]) <= 2
  BY <1>2 DEF Owned
<1> QED BY <1>1, <1>2, <1>3 DEF MemoryTypeOK

----------------------------------------------------------------------------
(* Every action keeps the shape of the state.                              *)

\* A step of the graph: the run moves on and works on no batch.
LEMMA GraphMoves ==
  ASSUME MInv, NEW r \in Runs, at[r] \notin Working, NEW to \in RunSteps \ {"new", "evaluating"},
         at' = [at EXCEPT ![r] = to], UNCHANGED <<work, looked, task>>,
         r \in DOMAIN task.jobs, \A x \in Runs : x < r => at[x] # "new", MemoryTables',
         decision' \in [Jobs -> task.ends \cup {Undecided}]
  PROVE  MInv'
<1>1. work[r] = <<>> /\ work[r] \in Seq(Copies(task)) /\ looked[r] \in BOOLEAN
  BY WorkOf DEF Owned
<1>2. work' = [work EXCEPT ![r] = work[r]] /\ looked' = [looked EXCEPT ![r] = looked[r]]
  BY WorkOf
<1>3. Owned(task, r, to, work[r])
  BY <1>1, EmptyOwned
<1> QED BY <1>1, <1>2, <1>3, MemoryMoves

LEMMA StageTranscriptKeeps ==
  ASSUME MInv, NEW r \in Runs, StageTranscript(r)
  PROVE  MInv'
<1> DEFINE b == <<"transcript", JobOf(r)>>
           memories == TranscriptMemories(JobOf(r))
<1>1. /\ r \in DOMAIN task.jobs /\ \A x \in Runs : x < r => at[x] # "new"
      /\ at[r] = "new" /\ at' = [at EXCEPT ![r] = "transcript"]
      /\ UNCHANGED <<work, looked, task, entries, decision>>
  BY DEF StageTranscript, Move, Rest
<1>2. SaveBatch(b, Batch("pending", memories))
  BY DEF StageTranscript
<1>3. MemoryTypeOK /\ MemoryTables
  BY DEF MInv, MemoryTypeOK
<1>4. b \in BatchIds(task)
  <2>1. JobOf(r) \in Jobs
    BY <1>1, <1>3, MemoryAssumption DEF JobOf, MemoryTypeOK
  <2> QED BY <2>1 DEF BatchIds, GraphStages
<1>5. memories \in ListsOf(task, b)
  BY TranscriptFits
<1> HIDE DEF b, memories
<1>6. MemoryTables'
  BY <1>1, <1>2, <1>3, <1>4, <1>5, SaveShapes DEF BatchStatuses
<1>7. decision' \in [Jobs -> task.ends \cup {Undecided}]
  BY <1>1, <1>3 DEF MemoryTypeOK
<1> QED BY <1>1, <1>6, <1>7, GraphMoves DEF RunSteps, Working

LEMMA DecideKeeps ==
  ASSUME MInv, NEW r \in Runs, NEW winner \in task.ends, Decide(r, winner)
  PROVE  MInv'
<1>1. /\ at[r] = "transcript" /\ at' = [at EXCEPT ![r] = "decided"]
      /\ UNCHANGED <<work, looked, task, entries, batches>>
      /\ decision' = [decision EXCEPT ![JobOf(r)] = winner]
  BY DEF Decide, Move, Rest
<1>2. MemoryTables'
  BY <1>1 DEF MInv, MemoryTypeOK, MemoryTables
<1>3. decision' \in [Jobs -> task.ends \cup {Undecided}]
  BY <1>1 DEF MInv, MemoryTypeOK
<1>4. r \in DOMAIN task.jobs /\ \A x \in Runs : x < r => at[x] # "new"
  BY <1>1, Started
<1> QED BY <1>1, <1>2, <1>3, <1>4, GraphMoves DEF RunSteps, Working

LEMMA SkipTranslationKeeps ==
  ASSUME MInv, NEW r \in Runs, SkipTranslation(r)
  PROVE  MInv'
<1>1. /\ at[r] = "transcript" /\ at' = [at EXCEPT ![r] = "finalized"]
      /\ UNCHANGED <<work, looked, task, entries, batches, decision>>
  BY DEF SkipTranslation, Move, Rest
<1>2. MemoryTables'
  BY <1>1 DEF MInv, MemoryTypeOK, MemoryTables
<1>3. decision' \in [Jobs -> task.ends \cup {Undecided}]
  BY <1>1 DEF MInv, MemoryTypeOK
<1>4. r \in DOMAIN task.jobs /\ \A x \in Runs : x < r => at[x] # "new"
  BY <1>1, Started
<1> QED BY <1>1, <1>2, <1>3, <1>4, GraphMoves DEF RunSteps, Working

LEMMA StageTranslationKeeps ==
  ASSUME MInv, NEW r \in Runs, StageTranslation(r)
  PROVE  MInv'
<1> DEFINE b == <<"translation", JobOf(r)>>
           memories == TranslationMemories(JobOf(r), decision[JobOf(r)])
<1>1. /\ at[r] = "decided" /\ at' = [at EXCEPT ![r] = "finalized"]
      /\ UNCHANGED <<work, looked, task, entries, decision>>
  BY DEF StageTranslation, Move, Rest
<1>2. SaveBatch(b, Batch("pending", memories))
  BY DEF StageTranslation
<1>3. MemoryTypeOK /\ MemoryTables
  BY DEF MInv, MemoryTypeOK
<1>4. r \in DOMAIN task.jobs /\ JobOf(r) \in Jobs /\ \A x \in Runs : x < r => at[x] # "new"
  BY <1>1, Started
<1>5. b \in BatchIds(task)
  BY <1>4 DEF BatchIds, GraphStages
<1>6. decision[JobOf(r)] \in task.ends \cup {Undecided}
  BY <1>3, <1>4 DEF MemoryTypeOK
<1>7. memories \in ListsOf(task, b)
  BY <1>6, TranslationFits
<1> HIDE DEF b, memories
<1>8. MemoryTables'
  BY <1>1, <1>2, <1>3, <1>5, <1>7, SaveShapes DEF BatchStatuses
<1>9. decision' \in [Jobs -> task.ends \cup {Undecided}]
  BY <1>1, <1>3 DEF MemoryTypeOK
<1> QED BY <1>1, <1>4, <1>8, <1>9, GraphMoves DEF RunSteps, Working

\* The batch of an evaluation, and the copy the run works on.
LEMMA StageEvaluationKeeps ==
  ASSUME MInv, NEW r \in Runs, StageEvaluation(r)
  PROVE  MInv'
<1> DEFINE b == <<"evaluation", r>>
           Found(patterns, proposals) == EvaluationMemories(MediumOf[JobOf(r)], patterns, proposals)
           copy(memories) == [id |-> b, memories |-> memories, left |-> memories, failed |-> FALSE]
<1>1. /\ at[r] = "finalized" /\ at' = [at EXCEPT ![r] = "evaluating"]
      /\ UNCHANGED <<looked, task, entries, decision>>
  BY DEF StageEvaluation, Move, Rest
<1>2. PICK patterns, proposals \in BOOLEAN :
        /\ SaveBatch(b, Batch("pending", Found(patterns, proposals)))
        /\ work' = [work EXCEPT ![r] = <<copy(Found(patterns, proposals))>>]
  BY DEF StageEvaluation
<1> DEFINE memories == Found(patterns, proposals)
           c == copy(memories)
<1>3. MemoryTypeOK /\ MemoryTables
  BY DEF MInv, MemoryTypeOK
<1>4. r \in DOMAIN task.jobs /\ \A x \in Runs : x < r => at[x] # "new"
  BY <1>1, Started
<1>5. b \in BatchIds(task)
  BY <1>4 DEF BatchIds
<1>6. memories \in ListsOf(task, b) /\ memories \in Seq(MemoriesOf(task, b))
  BY EvaluationFits DEF ListsOf
<1>7. c.id = b
  OBVIOUS
<1> HIDE DEF memories, Found
<1>8. c \in Copies(task)
  BY <1>5, <1>6, FitsCopy
<1>9. MemoryTables'
  <2>1. SaveBatch(b, Batch("pending", memories))
    BY <1>2 DEF memories
  <2> QED BY <2>1, <1>1, <1>3, <1>5, <1>6, SaveShapes DEF BatchStatuses
<1>10. work' = [work EXCEPT ![r] = <<c>>]
  BY <1>2 DEF memories
<1> HIDE DEF c
<1>11. <<c>> \in Seq(Copies(task)) /\ Owned(task, r, "evaluating", <<c>>)
  BY <1>7, <1>8 DEF Owned, Working
<1>12. decision' \in [Jobs -> task.ends \cup {Undecided}]
  BY <1>1, <1>3 DEF MemoryTypeOK
<1>13. looked[r] \in BOOLEAN /\ looked' = [looked EXCEPT ![r] = looked[r]]
  BY <1>1, WorkOf
<1> QED BY <1>1, <1>4, <1>9, <1>10, <1>11, <1>12, <1>13, MemoryMoves DEF RunSteps

\* What a run drains: the open ones among the batches it has staged, each once.
Left(r, b) == b \in staged[r] /\ Open(b)

LEMMA Drains ==
  ASSUME NEW r
  PROVE  /\ ToDrain(r) \in Seq({<<"transcript", JobOf(r)>>, <<"translation", JobOf(r)>>})
         /\ Len(ToDrain(r)) <= 2
         /\ \A i, k \in DOMAIN ToDrain(r) : i # k => ToDrain(r)[i] # ToDrain(r)[k]
         /\ \A b \in ToSet(ToDrain(r)) : Left(r, b) /\ Open(b)
         /\ \A b \in {<<"transcript", JobOf(r)>>, <<"translation", JobOf(r)>>} :
              Left(r, b) => b \in ToSet(ToDrain(r))
<1> DEFINE a == <<"transcript", JobOf(r)>>
           b == <<"translation", JobOf(r)>>
           first == IF Left(r, a) THEN <<a>> ELSE <<>>
           last == IF Left(r, b) THEN <<b>> ELSE <<>>
<1>1. ToDrain(r) = first \o last
  BY DEF ToDrain, Left
<1>2. a # b
  OBVIOUS
<1> HIDE DEF a, b
<1>3. /\ first \in Seq({a, b}) /\ Len(first) \in {0, 1} /\ ToSet(first) = {x \in {a} : Left(r, x)}
      /\ \A i \in DOMAIN first : first[i] = a
  <2>1. CASE Left(r, a)
    <3>1. first = <<a>> /\ {x \in {a} : Left(r, x)} = {a}
      BY <2>1
    <3>2. <<a>> \in Seq({a, b}) /\ Len(<<a>>) = 1 /\ DOMAIN <<a>> = {1} /\ <<a>>[1] = a
      OBVIOUS
    <3>3. ToSet(<<a>>) = {a}
      BY DEF ToSet
    <3> QED BY <3>1, <3>2, <3>3
  <2>2. CASE ~Left(r, a)
    <3>1. first = <<>> /\ {x \in {a} : Left(r, x)} = {}
      BY <2>2
    <3> QED BY <3>1, NoElements
  <2> QED BY <2>1, <2>2
<1>4. /\ last \in Seq({a, b}) /\ Len(last) \in {0, 1} /\ ToSet(last) = {x \in {b} : Left(r, x)}
      /\ \A i \in DOMAIN last : last[i] = b
  <2>1. CASE Left(r, b)
    <3>1. last = <<b>> /\ {x \in {b} : Left(r, x)} = {b}
      BY <2>1
    <3>2. <<b>> \in Seq({a, b}) /\ Len(<<b>>) = 1 /\ DOMAIN <<b>> = {1} /\ <<b>>[1] = b
      OBVIOUS
    <3>3. ToSet(<<b>>) = {b}
      BY DEF ToSet
    <3> QED BY <3>1, <3>2, <3>3
  <2>2. CASE ~Left(r, b)
    <3>1. last = <<>> /\ {x \in {b} : Left(r, x)} = {}
      BY <2>2
    <3> QED BY <3>1, NoElements
  <2> QED BY <2>1, <2>2
<1> HIDE DEF first, last
<1>5. first \o last \in Seq({a, b}) /\ ToSet(first \o last) = ToSet(first) \cup ToSet(last)
  BY <1>3, <1>4, Joined
<1>6. /\ Len(first \o last) = Len(first) + Len(last)
      /\ \A i \in DOMAIN (first \o last) :
           (first \o last)[i] = IF i <= Len(first) THEN first[i] ELSE last[i - Len(first)]
  BY <1>3, <1>4
<1>7. ASSUME NEW i \in DOMAIN (first \o last), NEW k \in DOMAIN (first \o last), i < k
      PROVE  (first \o last)[i] # (first \o last)[k]
  <2>1. i = 1 /\ k = 2 /\ Len(first) = 1 /\ Len(last) = 1
    BY <1>3, <1>4, <1>5, <1>6, <1>7
  <2>2. (first \o last)[i] = first[1] /\ (first \o last)[k] = last[1]
    BY <1>6, <2>1
  <2>3. 1 \in DOMAIN first /\ 1 \in DOMAIN last
    BY <1>3, <1>4, <2>1
  <2> QED BY <1>2, <1>3, <1>4, <2>2, <2>3
<1>8. \A i, k \in DOMAIN (first \o last) : i # k => (first \o last)[i] # (first \o last)[k]
  <2> SUFFICES ASSUME NEW i \in DOMAIN (first \o last), NEW k \in DOMAIN (first \o last), i # k
               PROVE  (first \o last)[i] # (first \o last)[k]
    OBVIOUS
  <2>1. i \in Nat /\ k \in Nat
    BY <1>5
  <2>2. i < k \/ k < i
    BY <2>1
  <2> QED BY <1>7, <2>2
<1>9. Len(first \o last) <= 2
  BY <1>3, <1>4, <1>6
<1>10. ASSUME NEW x \in {a, b}
       PROVE  x \in ToSet(first \o last) <=> Left(r, x)
  BY <1>2, <1>3, <1>4, <1>5
<1>11. \A x \in ToSet(first \o last) : Left(r, x)
  BY <1>3, <1>4, <1>5
<1> QED BY <1>1, <1>5, <1>8, <1>9, <1>10, <1>11 DEF a, b, Left

LEMMA TablesRest ==
  ASSUME MemoryTables, UNCHANGED <<batches, entries, task>>
  PROVE  MemoryTables'
BY DEF MemoryTables

\* The copies a drain makes.
LEMMA Copied ==
  ASSUME MInv, NEW r \in Runs, JobOf(r) \in Jobs
  PROVE  LET w == [k \in DOMAIN ToDrain(r) |-> Copy(ToDrain(r)[k])]
         IN  /\ w \in Seq(Copies(task)) /\ Len(w) <= 2 /\ DOMAIN w = DOMAIN ToDrain(r)
             /\ \A k \in DOMAIN w :
                  /\ w[k] = Copy(ToDrain(r)[k]) /\ w[k].id = ToDrain(r)[k] /\ Open(w[k].id)
                  /\ w[k].id \in {<<"transcript", JobOf(r)>>, <<"translation", JobOf(r)>>}
<1> DEFINE drained == ToDrain(r)
           w == [k \in DOMAIN drained |-> Copy(drained[k])]
           own == {<<"transcript", JobOf(r)>>, <<"translation", JobOf(r)>>}
<1>1. drained \in Seq(own) /\ Len(drained) <= 2 /\ \A b \in ToSet(drained) : Open(b)
  BY Drains
<1>2. own \subseteq BatchIds(task)
  BY DEF BatchIds, GraphStages
<1> HIDE DEF drained
<1>3. DOMAIN drained = 1..Len(drained) /\ Len(drained) \in Nat
  BY <1>1
<1>4. ASSUME NEW k \in DOMAIN drained
      PROVE  /\ drained[k] \in own /\ Open(drained[k])
             /\ Copy(drained[k]) \in Copies(task) /\ Copy(drained[k]).id = drained[k]
  <2>1. drained[k] \in own /\ Open(drained[k])
    <3>1. drained[k] \in own
      BY <1>1
    <3>2. drained[k] \in ToSet(drained)
      BY DEF ToSet
    <3> QED BY <1>1, <3>1, <3>2
  <2>2. batches[drained[k]] \in BatchRow(task, drained[k])
    BY <2>1 DEF Open, MInv, MemoryTypeOK, MemoryTables
  <2>3. /\ batches[drained[k]].memories \in ListsOf(task, drained[k])
        /\ batches[drained[k]].memories \in Seq(MemoriesOf(task, drained[k]))
    BY <2>2 DEF BatchRow, ListsOf
  <2>4. Copy(drained[k]) \in Copies(task)
    BY <1>2, <2>1, <2>3, FitsCopy DEF Copy
  <2> QED BY <2>1, <2>4 DEF Copy
<1>5. w \in Seq(Copies(task)) /\ Len(w) = Len(drained)
  BY <1>3, <1>4
<1> QED BY <1>1, <1>4, <1>5 DEF drained

LEMMA StartDrainKeeps ==
  ASSUME MInv, NEW r \in Runs, StartDrain(r)
  PROVE  MInv'
<1> DEFINE w == [k \in DOMAIN ToDrain(r) |-> Copy(ToDrain(r)[k])]
<1>1. /\ at[r] \in {"finalized", "evaluated"} /\ at' = [at EXCEPT ![r] = "draining"]
      /\ UNCHANGED <<looked, task, entries, decision, batches>>
      /\ work' = [work EXCEPT ![r] = w]
  BY DEF StartDrain, Move, Rest
<1>2. r \in DOMAIN task.jobs /\ JobOf(r) \in Jobs /\ JobOf(r) = task.jobs[r] /\ \A x \in Runs : x < r => at[x] # "new"
  BY <1>1, Started
<1>3. MemoryTables'
  BY <1>1, TablesRest DEF MInv, MemoryTypeOK
<1>4. /\ w \in Seq(Copies(task)) /\ Len(w) <= 2 /\ DOMAIN w = DOMAIN ToDrain(r)
      /\ \A k \in DOMAIN w :
           /\ w[k].id = ToDrain(r)[k]
           /\ w[k].id \in {<<"transcript", JobOf(r)>>, <<"translation", JobOf(r)>>}
  BY <1>2, Copied
<1>5. \A i, k \in DOMAIN ToDrain(r) : i # k => ToDrain(r)[i] # ToDrain(r)[k]
  BY Drains
<1> HIDE DEF w
<1>6. \A k \in DOMAIN w : w[k].id[1] \in GraphStages /\ w[k].id[2] = task.jobs[r] /\ w[k].id \in BatchIds(task)
  BY <1>2, <1>4 DEF GraphStages, BatchIds
<1>7. Owned(task, r, "draining", w)
  BY <1>4, <1>5, <1>6 DEF Owned, Working
<1>8. decision' \in [Jobs -> task.ends \cup {Undecided}]
  BY <1>1 DEF MInv, MemoryTypeOK
<1>9. looked[r] \in BOOLEAN /\ looked' = [looked EXCEPT ![r] = looked[r]]
  BY <1>1, WorkOf
<1> QED BY <1>1, <1>2, <1>3, <1>4, <1>7, <1>8, <1>9, MemoryMoves DEF RunSteps

\* The copy a run stores from becomes c.
Worked(r, c) == [work[r] EXCEPT ![Current(r)] = c]
CurrentCopy(r) == work[r][Current(r)]
Advanced(r) == [CurrentCopy(r) EXCEPT !.left = Tail(CurrentCopy(r).left)]
GivenUp(r) == [CurrentCopy(r) EXCEPT !.left = <<>>, !.failed = TRUE]

LEMMA CurrentFits ==
  ASSUME MInv, NEW r \in Runs, Storing(r)
  PROVE  /\ Current(r) \in DOMAIN work[r] /\ CurrentCopy(r) \in Copies(task)
         /\ CurrentCopy(r).id \in BatchIds(task) /\ CurrentCopy(r) \in CopyOf(task, CurrentCopy(r).id)
         /\ CurrentCopy(r).left # <<>>
<1>1. Current(r) \in DOMAIN work[r] /\ work[r][Current(r)].left # <<>> /\ work[r] \in Seq(Copies(task))
  BY WorkOf, CurrentIs DEF MInv, Storing
<1>2. CurrentCopy(r) \in Copies(task)
  BY <1>1 DEF CurrentCopy
<1> QED BY <1>1, <1>2, CopyFits DEF CurrentCopy

LEMMA AdvancedFits ==
  ASSUME MInv, NEW r \in Runs, Storing(r)
  PROVE  /\ Advanced(r) \in Copies(task)
         /\ Advanced(r).id = CurrentCopy(r).id /\ Advanced(r).memories = CurrentCopy(r).memories
         /\ Advanced(r).left = Tail(CurrentCopy(r).left) /\ Advanced(r).failed = CurrentCopy(r).failed
<1> DEFINE c == CurrentCopy(r)
           S == MemoriesOf(task, c.id)
<1>1. c \in CopyOf(task, c.id) /\ c.id \in BatchIds(task) /\ c.left # <<>>
  BY CurrentFits
<1>2. Advanced(r) = [c EXCEPT !.left = Tail(c.left)]
  BY DEF Advanced
<1> HIDE DEF c
<1>3. /\ c = [id |-> c.id, memories |-> c.memories, left |-> c.left, failed |-> c.failed]
      /\ c.memories \in ListsOf(task, c.id) /\ c.left \in Seq(S) /\ c.failed \in BOOLEAN
  BY <1>1 DEF CopyOf
<1>4. Advanced(r) = [id |-> c.id, memories |-> c.memories, left |-> Tail(c.left), failed |-> c.failed]
  BY <1>2, <1>3
<1>5. Tail(c.left) \in Seq(S)
  BY <1>1, <1>3
<1>6. Advanced(r) \in Copies(task)
  BY <1>1, <1>3, <1>4, <1>5, FitsCopy
<1> QED BY <1>4, <1>6 DEF c

LEMMA GivenUpFits ==
  ASSUME MInv, NEW r \in Runs, Storing(r)
  PROVE  /\ GivenUp(r) \in Copies(task)
         /\ GivenUp(r).id = CurrentCopy(r).id /\ GivenUp(r).memories = CurrentCopy(r).memories
         /\ GivenUp(r).left = <<>> /\ GivenUp(r).failed = TRUE
<1> DEFINE c == CurrentCopy(r)
           S == MemoriesOf(task, c.id)
<1>1. c \in CopyOf(task, c.id) /\ c.id \in BatchIds(task)
  BY CurrentFits
<1>2. GivenUp(r) = [c EXCEPT !.left = <<>>, !.failed = TRUE]
  BY DEF GivenUp
<1> HIDE DEF c
<1>3. c = [id |-> c.id, memories |-> c.memories, left |-> c.left, failed |-> c.failed] /\ c.memories \in ListsOf(task, c.id)
  BY <1>1 DEF CopyOf
<1>4. GivenUp(r) = [id |-> c.id, memories |-> c.memories, left |-> <<>>, failed |-> TRUE]
  BY <1>2, <1>3
<1>5. <<>> \in Seq(S)
  OBVIOUS
<1>6. GivenUp(r) \in Copies(task)
  BY <1>1, <1>3, <1>4, <1>5, FitsCopy
<1> QED BY <1>4, <1>6 DEF c

LEMMA AdvanceIs ==
  ASSUME MInv, NEW r \in Runs, Storing(r), Advance(r)
  PROVE  work' = [work EXCEPT ![r] = Worked(r, Advanced(r))]
BY DEF Advance, Worked, Advanced, CurrentCopy

LEMMA GiveUpIs ==
  ASSUME MInv, NEW r \in Runs, Storing(r), GiveUp(r)
  PROVE  work' = [work EXCEPT ![r] = Worked(r, GivenUp(r))]
<1>1. Current(r) \in DOMAIN work[r] /\ DOMAIN work = Runs
  BY CurrentFits DEF MInv, MemoryTypeOK
<1> QED BY <1>1 DEF GiveUp, Worked, GivenUp, CurrentCopy

\* What stays of a run's work when the copy it stores from changes.
LEMMA WorkedFits ==
  ASSUME MInv, NEW r \in Runs, Storing(r), NEW c \in Copies(task), c.id = CurrentCopy(r).id
  PROVE  /\ Worked(r, c) \in Seq(Copies(task)) /\ DOMAIN Worked(r, c) = DOMAIN work[r]
         /\ Worked(r, c)[Current(r)] = c
         /\ \A k \in DOMAIN work[r] \ {Current(r)} : Worked(r, c)[k] = work[r][k]
         /\ Owned(task, r, at[r], Worked(r, c))
<1> DEFINE w == Worked(r, c)
<1>1. work[r] \in Seq(Copies(task)) /\ Owned(task, r, at[r], work[r]) /\ Current(r) \in DOMAIN work[r]
  BY WorkOf, CurrentFits
<1>2. /\ w \in Seq(Copies(task)) /\ DOMAIN w = DOMAIN work[r] /\ Len(w) = Len(work[r])
      /\ w[Current(r)] = c
      /\ \A k \in DOMAIN work[r] \ {Current(r)} : w[k] = work[r][k]
  BY <1>1 DEF Worked
<1>3. \A k \in DOMAIN work[r] : w[k].id = work[r][k].id
  BY <1>2 DEF CurrentCopy
<1>4. at[r] \in Working
  BY DEF Storing
<1> HIDE DEF w
<1>5. Owned(task, r, at[r], w)
  BY <1>1, <1>2, <1>3, <1>4 DEF Owned
<1> QED BY <1>2, <1>5 DEF w

\* A step in which a run stores from its copies.
LEMMA StoringMoves ==
  ASSUME MInv, NEW r \in Runs, Storing(r), NEW w \in Seq(Copies(task)), NEW look \in BOOLEAN,
         Owned(task, r, at[r], w), work' = [work EXCEPT ![r] = w],
         looked' = [looked EXCEPT ![r] = look], UNCHANGED <<decision, at, task>>, MemoryTables'
  PROVE  MInv'
<1>1. at[r] \in Working /\ at[r] # "new"
  BY DEF Storing, Working
<1>2. r \in DOMAIN task.jobs /\ \A x \in Runs : x < r => at[x] # "new"
  BY <1>1, Started
<1>3. at[r] \in RunSteps /\ at' = [at EXCEPT ![r] = at[r]]
  BY WorkOf
<1>4. decision' \in [Jobs -> task.ends \cup {Undecided}]
  BY DEF MInv, MemoryTypeOK
<1> QED BY <1>1, <1>2, <1>3, <1>4, MemoryMoves

LEMMA LookKeeps ==
  ASSUME MInv, NEW r \in Runs, Look(r)
  PROVE  MInv'
<1>1. Storing(r) /\ UNCHANGED <<decision, batches, entries, at, task>>
  BY DEF Look
<1>2. MemoryTables'
  BY <1>1, TablesRest DEF MInv, MemoryTypeOK
<1>3. CASE Stored(NextMemory(r).key)
  <2>1. Advance(r) /\ looked' = looked
    BY <1>3 DEF Look
  <2>2. looked[r] \in BOOLEAN /\ looked' = [looked EXCEPT ![r] = looked[r]]
    BY <2>1, WorkOf
  <2>3. work' = [work EXCEPT ![r] = Worked(r, Advanced(r))]
    BY <1>1, <2>1, AdvanceIs
  <2>4. Worked(r, Advanced(r)) \in Seq(Copies(task)) /\ Owned(task, r, at[r], Worked(r, Advanced(r)))
    BY <1>1, AdvancedFits, WorkedFits
  <2> QED BY <1>1, <1>2, <2>2, <2>3, <2>4, StoringMoves
<1>4. CASE ~Stored(NextMemory(r).key)
  <2>1. looked' = [looked EXCEPT ![r] = TRUE] /\ work' = work
    BY <1>4 DEF Look
  <2>2. /\ work[r] \in Seq(Copies(task)) /\ Owned(task, r, at[r], work[r])
        /\ work' = [work EXCEPT ![r] = work[r]]
    BY <2>1, WorkOf
  <2> QED BY <1>1, <1>2, <2>1, <2>2, StoringMoves
<1> QED BY <1>3, <1>4

\* A run gives up its current batch.
LEMMA GiveUpKeeps ==
  ASSUME MInv, NEW r \in Runs, Storing(r), GiveUp(r), looked' = [looked EXCEPT ![r] = FALSE],
         UNCHANGED <<decision, batches, entries, at, task>>
  PROVE  MInv'
<1>1. MemoryTables'
  BY TablesRest DEF MInv, MemoryTypeOK
<1>2. work' = [work EXCEPT ![r] = Worked(r, GivenUp(r))]
  BY GiveUpIs
<1>3. Worked(r, GivenUp(r)) \in Seq(Copies(task)) /\ Owned(task, r, at[r], Worked(r, GivenUp(r)))
  BY GivenUpFits, WorkedFits
<1> QED BY <1>1, <1>2, <1>3, StoringMoves

\* The next memory belongs to the batch the run stores from.
LEMMA NextFits ==
  ASSUME MInv, NEW r \in Runs, Storing(r)
  PROVE  /\ NextMemory(r) \in MemoriesOf(task, CurrentCopy(r).id)
         /\ NextMemory(r) = Head(CurrentCopy(r).left)
         /\ NextMemory(r).slot \in Slots
         /\ NextMemory(r).key \in Keys(task, CurrentCopy(r).id, NextMemory(r).slot)
<1>1. CurrentCopy(r) \in CopyOf(task, CurrentCopy(r).id) /\ CurrentCopy(r).left # <<>>
  BY CurrentFits
<1>2. NextMemory(r) = Head(CurrentCopy(r).left)
  BY DEF NextMemory, CurrentCopy
<1>3. CurrentCopy(r).left \in Seq(MemoriesOf(task, CurrentCopy(r).id))
  BY <1>1 DEF CopyOf
<1>4. NextMemory(r) \in MemoriesOf(task, CurrentCopy(r).id)
  BY <1>1, <1>2, <1>3
<1> QED BY <1>2, <1>4, MemoryFits

\* What becomes of the table of memories when one is put there.
LEMMA PutStores ==
  ASSUME MInv, NEW b \in BatchIds(task), NEW slot \in Slots, NEW key \in Keys(task, b, slot),
         entries' = Upsert(entries, <<b, slot>>, key), UNCHANGED <<batches, task>>
  PROVE  /\ MemoryTables'
         /\ DOMAIN entries' = DOMAIN entries \cup {<<b, slot>>} /\ entries'[<<b, slot>>] = key
         /\ \A m \in DOMAIN entries \ {<<b, slot>>} : entries'[m] = entries[m]
<1> DEFINE k == <<b, slot>>
<1>1. k \in BatchIds(task) \X Slots /\ k[1] = b /\ k[2] = slot /\ entries' = Upsert(entries, k, key)
  OBVIOUS
<1> HIDE DEF k
<1>2. /\ DOMAIN entries' = DOMAIN entries \cup {k} /\ entries'[k] = key
      /\ \A m \in DOMAIN entries \ {k} : entries'[m] = entries[m]
  BY <1>1 DEF Upsert
<1>3. ASSUME NEW m \in DOMAIN entries'
      PROVE  m \in BatchIds(task) \X Slots /\ entries'[m] \in Keys(task, m[1], m[2])
  <2>1. CASE m = k
    BY <1>1, <1>2, <2>1
  <2>2. CASE m # k
    BY <1>2, <2>2 DEF MInv, MemoryTypeOK, MemoryTables
  <2> QED BY <2>1, <2>2
<1>4. MemoryTables'
  BY <1>3 DEF MInv, MemoryTypeOK, MemoryTables
<1> QED BY <1>2, <1>4 DEF k

LEMMA PutNextKeeps ==
  ASSUME MInv, NEW r \in Runs, PutNext(r)
  PROVE  MInv'
<1> DEFINE m == <<CurrentCopy(r).id, NextMemory(r).slot>>
           key == NextMemory(r).key
<1>1. /\ Storing(r) /\ looked' = [looked EXCEPT ![r] = FALSE]
      /\ UNCHANGED <<decision, batches, at, task>>
      /\ Put(r, m, key)
  BY DEF PutNext, CurrentCopy
<1>2. CASE UNCHANGED entries /\ GiveUp(r)
  BY <1>1, <1>2, GiveUpKeeps
<1>3. CASE entries' = Upsert(entries, m, key) /\ Advance(r)
  <2>1. CurrentCopy(r).id \in BatchIds(task)
    BY <1>1, CurrentFits
  <2>2. NextMemory(r).slot \in Slots /\ key \in Keys(task, CurrentCopy(r).id, NextMemory(r).slot)
    BY <1>1, NextFits
  <2>3. MemoryTables'
    BY <1>1, <1>3, <2>1, <2>2, PutStores
  <2>4. work' = [work EXCEPT ![r] = Worked(r, Advanced(r))]
    BY <1>1, <1>3, AdvanceIs
  <2>5. Worked(r, Advanced(r)) \in Seq(Copies(task)) /\ Owned(task, r, at[r], Worked(r, Advanced(r)))
    BY <1>1, AdvancedFits, WorkedFits
  <2> QED BY <1>1, <2>3, <2>4, <2>5, StoringMoves
<1> QED BY <1>1, <1>2, <1>3 DEF Put

LEMMA PutFailsKeeps ==
  ASSUME MInv, NEW r \in Runs, PutFails(r)
  PROVE  MInv'
BY GiveUpKeeps DEF PutFails

\* The outcome of a batch is saved with the memories that were copied.
LEMMA OutcomeShapes ==
  ASSUME MInv, NEW c \in Copies(task), NEW status \in BatchStatuses, UNCHANGED <<entries, task>>,
         SaveBatch(c.id, Batch(status, c.memories))
  PROVE  MemoryTables'
<1>1. c.id \in BatchIds(task) /\ c.memories \in ListsOf(task, c.id)
  BY CopyFits DEF CopyOf
<1> QED BY <1>1, SaveShapes DEF MInv, MemoryTypeOK

LEMMA OutcomeIs ==
  ASSUME NEW t, NEW c \in Copies(t)
  PROVE  Outcome(c) \in BatchStatuses
BY DEF Outcome, BatchStatuses

LEMMA SaveOutcomeKeeps ==
  ASSUME MInv, NEW r \in Runs, SaveOutcome(r)
  PROVE  MInv'
<1> DEFINE c == Head(work[r])
           w == Tail(work[r])
<1>1. /\ at[r] = "draining" /\ work[r] # <<>> /\ work' = [work EXCEPT ![r] = w]
      /\ UNCHANGED <<decision, at, entries, looked, task>>
  BY DEF SaveOutcome, Rest
<1>2. PICK result \in {Outcome(c), "failed"} : SaveBatch(c.id, Batch(result, c.memories))
  BY DEF SaveOutcome
<1>3. work[r] \in Seq(Copies(task)) /\ Owned(task, r, "draining", work[r])
  BY <1>1, WorkOf
<1>4. /\ c \in Copies(task) /\ w \in Seq(Copies(task)) /\ DOMAIN w = 1..(Len(work[r]) - 1)
      /\ \A i \in DOMAIN w : w[i] = work[r][i + 1]
  BY <1>1, <1>3, Headed
<1> HIDE DEF c, w
<1>5. result \in BatchStatuses
  BY <1>4, OutcomeIs DEF BatchStatuses
<1>6. MemoryTables'
  BY <1>1, <1>2, <1>4, <1>5, OutcomeShapes
<1>7. Owned(task, r, "draining", w)
  <2>1. \A i \in DOMAIN w : i + 1 \in DOMAIN work[r]
    BY <1>3, <1>4
  <2>2. Len(w) <= 2
    BY <1>3, <1>4 DEF Owned
  <2>3. \A i, k \in DOMAIN w : i # k => i + 1 # k + 1
    BY <1>4
  <2> QED BY <1>3, <1>4, <2>1, <2>2, <2>3 DEF Owned, Working
<1>8. r \in DOMAIN task.jobs /\ \A x \in Runs : x < r => at[x] # "new"
  BY <1>1, Started
<1>9. /\ at' = [at EXCEPT ![r] = "draining"] /\ looked[r] \in BOOLEAN
      /\ looked' = [looked EXCEPT ![r] = looked[r]]
  BY <1>1, WorkOf
<1>10. decision' \in [Jobs -> task.ends \cup {Undecided}]
  BY <1>1 DEF MInv, MemoryTypeOK
<1> QED BY <1>1, <1>4, <1>6, <1>7, <1>8, <1>9, <1>10, MemoryMoves DEF RunSteps

\* The run has saved or given up what it worked on, or has died.
LEMMA WorkEnds ==
  ASSUME MInv, NEW r \in Runs, at[r] # "new", NEW to \in RunSteps \ {"new", "evaluating"}, NEW look \in BOOLEAN,
         at' = [at EXCEPT ![r] = to], work' = [work EXCEPT ![r] = <<>>],
         looked' = [looked EXCEPT ![r] = look], UNCHANGED <<task, decision>>, MemoryTables'
  PROVE  MInv'
<1>1. r \in DOMAIN task.jobs /\ \A x \in Runs : x < r => at[x] # "new"
  BY Started
<1>2. <<>> \in Seq(Copies(task)) /\ Owned(task, r, to, <<>>)
  BY EmptyOwned
<1>3. decision' \in [Jobs -> task.ends \cup {Undecided}]
  BY DEF MInv, MemoryTypeOK
<1> QED BY <1>1, <1>2, <1>3, MemoryMoves

LEMMA AbandonDrainKeeps ==
  ASSUME MInv, NEW r \in Runs, AbandonDrain(r)
  PROVE  MInv'
<1>1. /\ at[r] = "draining" /\ at' = [at EXCEPT ![r] = "aborted"] /\ work' = [work EXCEPT ![r] = <<>>]
      /\ UNCHANGED <<decision, batches, entries, looked, task>>
  BY DEF AbandonDrain, Move, Rest
<1>2. looked[r] \in BOOLEAN /\ looked' = [looked EXCEPT ![r] = looked[r]]
  BY <1>1, WorkOf
<1>3. MemoryTables'
  BY <1>1, TablesRest DEF MInv, MemoryTypeOK
<1> QED BY <1>1, <1>2, <1>3, WorkEnds DEF RunSteps

LEMMA EndDrainKeeps ==
  ASSUME MInv, NEW r \in Runs, EndDrain(r)
  PROVE  MInv'
<1>1. /\ at[r] = "draining" /\ at' = [at EXCEPT ![r] = "ended"] /\ work[r] = <<>>
      /\ UNCHANGED <<decision, batches, work, entries, looked, task>>
  BY DEF EndDrain, Move, Rest
<1>2. /\ looked[r] \in BOOLEAN /\ looked' = [looked EXCEPT ![r] = looked[r]]
      /\ work' = [work EXCEPT ![r] = <<>>]
  BY <1>1, WorkOf
<1>3. MemoryTables'
  BY <1>1, TablesRest DEF MInv, MemoryTypeOK
<1> QED BY <1>1, <1>2, <1>3, WorkEnds DEF RunSteps

LEMMA EndEvaluationKeeps ==
  ASSUME MInv, NEW r \in Runs, EndEvaluation(r)
  PROVE  MInv'
<1> DEFINE c == work[r][1]
<1>1. /\ at[r] = "evaluating" /\ at' = [at EXCEPT ![r] = "evaluated"] /\ work' = [work EXCEPT ![r] = <<>>]
      /\ UNCHANGED <<decision, entries, looked, task>>
      /\ \/ SaveBatch(c.id, Batch("consolidated", c.memories))
         \/ UNCHANGED batches
  BY DEF EndEvaluation, Move, Rest
<1>2. looked[r] \in BOOLEAN /\ looked' = [looked EXCEPT ![r] = looked[r]]
  BY <1>1, WorkOf
<1>3. c \in Copies(task)
  <2>1. work[r] \in Seq(Copies(task)) /\ Len(work[r]) = 1
    BY <1>1, WorkOf DEF Owned
  <2> QED BY <2>1
<1> HIDE DEF c
<1>4. MemoryTables'
  <2>1. CASE SaveBatch(c.id, Batch("consolidated", c.memories))
    BY <1>1, <1>3, <2>1, OutcomeShapes DEF BatchStatuses
  <2>2. CASE UNCHANGED batches
    BY <1>1, <2>2, TablesRest DEF MInv, MemoryTypeOK
  <2> QED BY <1>1, <2>1, <2>2
<1> QED BY <1>1, <1>2, <1>4, WorkEnds DEF RunSteps

LEMMA RunDiesKeeps ==
  ASSUME MInv, NEW r \in Runs, RunDies(r)
  PROVE  MInv'
<1>1. /\ at[r] # "new" /\ at' = [at EXCEPT ![r] = "dead"] /\ work' = [work EXCEPT ![r] = <<>>]
      /\ looked' = [looked EXCEPT ![r] = FALSE] /\ UNCHANGED <<decision, batches, entries, task>>
  BY DEF RunDies, Busy
<1>2. MemoryTables'
  BY <1>1, TablesRest DEF MInv, MemoryTypeOK
<1> QED BY <1>1, <1>2, WorkEnds DEF RunSteps

LEMMA NothingChanges ==
  ASSUME MInv, UNCHANGED memoryVars
  PROVE  MInv'
<1>1. MemoryTables'
  BY TablesRest DEF MInv, MemoryTypeOK, memoryVars
<1>2. MemoryTypeOK'
  BY <1>1 DEF MInv, MemoryTypeOK, memoryVars
<1>3. \A r \in Runs : InOrder(r)' /\ OwnWork(r)'
  BY DEF MInv, InOrder, OwnWork, memoryVars
<1> QED BY <1>2, <1>3 DEF MInv

LEMMA InitShape == MemoryInit => MInv
<1> SUFFICES ASSUME MemoryInit PROVE MInv
  OBVIOUS
<1>1. MemoryTypeOK
  BY DEF MemoryInit, MemoryTypeOK, MemoryTables, RunSteps
<1>2. \A r \in Runs : work[r] = <<>> /\ at[r] = "new"
  BY DEF MemoryInit
<1>3. \A r \in Runs : InOrder(r) /\ OwnWork(r)
  BY <1>2, EmptyOwned DEF InOrder, OwnWork
<1> QED BY <1>1, <1>3 DEF MInv

\* A step of the pipeline is a step of one of its runs, or nothing is left to do.
RunStep(r) ==
  \/ StageTranscript(r) \/ StageTranslation(r) \/ SkipTranslation(r)
  \/ \E winner \in task.ends : Decide(r, winner)
  \/ StageEvaluation(r) \/ EndEvaluation(r)
  \/ StartDrain(r) \/ Look(r) \/ PutNext(r) \/ PutFails(r)
  \/ SaveOutcome(r) \/ AbandonDrain(r) \/ EndDrain(r)
  \/ RunDies(r)

LEMMA StepOf ==
  ASSUME [MemoryNext]_memoryVars
  PROVE  (\E r \in Runs : RunStep(r)) \/ UNCHANGED memoryVars
BY DEF MemoryNext, RunStep, AllOver

LEMMA StepShape ==
  ASSUME MInv, [MemoryNext]_memoryVars
  PROVE  MInv'
<1>1. ASSUME NEW r \in Runs, RunStep(r) PROVE MInv'
  BY <1>1, StageTranscriptKeeps, StageTranslationKeeps, SkipTranslationKeeps, DecideKeeps,
     StageEvaluationKeeps, EndEvaluationKeeps, StartDrainKeeps, LookKeeps, PutNextKeeps,
     PutFailsKeeps, SaveOutcomeKeeps, AbandonDrainKeeps, EndDrainKeeps, RunDiesKeeps DEF RunStep
<1> QED BY <1>1, StepOf, NothingChanges

----------------------------------------------------------------------------
(* Runs that do not overlap.                                               *)

LEMMA OwnWorkIs ==
  ASSUME MInv, NEW x \in Runs, x \notin Busy
  PROVE  work[x] = <<>>
<1>1. at[x] \notin Working
  BY DEF Busy, Working
<1> QED BY <1>1, WorkOf DEF Owned

\* What a step of a run leaves alone.
LEMMA StepIs ==
  ASSUME MInv, NEW r \in Runs, RunStep(r)
  PROVE  /\ task' = task /\ at'[r] # "new"
         /\ \A x \in Runs \ {r} : at'[x] = at[x] /\ work'[x] = work[x]
         /\ (at[r] = "new" /\ StageTranscript(r)) \/ r \in Busy
<1>1. DOMAIN at = Runs /\ DOMAIN work = Runs
  BY DEF MInv, MemoryTypeOK
<1>2. CASE StageTranscript(r) \/ StageTranslation(r) \/ SkipTranslation(r) \/ \E winner \in task.ends : Decide(r, winner)
  BY <1>1, <1>2 DEF StageTranscript, StageTranslation, SkipTranslation, Decide, Move, Rest, Busy
<1>3. CASE StageEvaluation(r) \/ EndEvaluation(r) \/ StartDrain(r)
  BY <1>1, <1>3 DEF StageEvaluation, EndEvaluation, StartDrain, Move, Rest, Busy
<1>4. CASE Look(r) \/ PutNext(r) \/ PutFails(r)
  BY <1>1, <1>4 DEF Look, PutNext, PutFails, Put, Advance, GiveUp, Storing, Working, Busy
<1>5. CASE SaveOutcome(r) \/ AbandonDrain(r) \/ EndDrain(r) \/ RunDies(r)
  BY <1>1, <1>5 DEF SaveOutcome, AbandonDrain, EndDrain, RunDies, Move, Rest, Busy
<1> QED BY <1>2, <1>3, <1>4, <1>5 DEF RunStep

\* The run that takes a step is the only one under way, and the last that started.
LEMMA Lone ==
  ASSUME MInv, ~task.overlap, Latest, NEW r \in Runs, RunStep(r)
  PROVE  /\ \A x \in Runs : x > r => at[x] = "new"
         /\ \A x \in Runs \ {r} : x \notin Busy /\ work[x] = <<>>
<1>1. Runs \subseteq Nat /\ IsFiniteSet(Runs)
  BY RunsAssumption
<1>2. CASE r \in Busy
  <2>1. \A x \in Runs : x > r => at[x] = "new"
    BY <1>2 DEF Latest
  <2>2. ASSUME NEW x \in Runs, x # r, x \in Busy PROVE FALSE
    <3>1. x > r \/ r > x
      BY <1>1, <2>2
    <3>2. at[x] # "new" /\ at[r] # "new"
      BY <1>2, <2>2 DEF Busy
    <3> QED BY <2>1, <2>2, <3>1, <3>2 DEF Latest
  <2> QED BY <2>1, <2>2, OwnWorkIs DEF Busy
<1>3. CASE at[r] = "new" /\ StageTranscript(r)
  <2>1. task.live = 1
    BY MemoryAssumption DEF MInv, MemoryTypeOK
  <2>2. Busy = {}
    <3>1. IsFiniteSet(Busy)
      BY <1>1, FS_Subset DEF Busy
    <3>2. Cardinality(Busy) < 1 /\ Cardinality(Busy) \in Nat
      BY <1>3, <2>1, <3>1, FS_CardinalityType DEF StageTranscript
    <3> QED BY <3>1, <3>2, FS_EmptySet
  <2>3. ASSUME NEW x \in Runs, x > r PROVE at[x] = "new"
    <3>1. at[x] # "new" => at[r] # "new"
      BY <2>3, <1>1, Started
    <3> QED BY <1>3, <3>1
  <2> QED BY <2>2, <2>3, OwnWorkIs
<1> QED BY <1>2, <1>3, StepIs

LEMMA LatestStep ==
  ASSUME MInv, ~task.overlap, Latest, NEW r \in Runs, RunStep(r)
  PROVE  Latest'
<1> SUFFICES ASSUME NEW y \in Runs, y \in Busy', NEW x \in Runs, x > y PROVE at'[x] = "new"
  BY DEF Latest, Busy
<1>1. y = r
  <2>1. CASE y # r
    <3>1. y \in Busy
      BY <2>1, StepIs DEF Busy
    <3> QED BY <2>1, <3>1, Lone
  <2> QED BY <2>1
<1>2. x # r /\ at[x] = "new"
  <2>1. x # r
    BY <1>1, RunsAssumption
  <2> QED BY <1>1, <2>1, Lone
<1> QED BY <1>2, StepIs

\* While a run stores memories, its batches stay what they are.
Stores(r) == Look(r) \/ PutNext(r) \/ PutFails(r)

LEMMA StoringIs ==
  ASSUME MInv, NEW r \in Runs, Stores(r)
  PROVE  /\ UNCHANGED <<batches, decision, at, task>> /\ Storing(r)
         /\ DOMAIN work'[r] = DOMAIN work[r]
         /\ \A k \in DOMAIN work[r] :
              work'[r][k].id = work[r][k].id /\ work'[r][k].memories = work[r][k].memories
<1>1. UNCHANGED <<batches, decision, at, task>> /\ Storing(r)
  BY DEF Stores, Look, PutNext, PutFails
<1>2. UNCHANGED work \/ Advance(r) \/ GiveUp(r)
  BY DEF Stores, Look, PutNext, PutFails, Put
<1>3. DOMAIN work = Runs
  BY DEF MInv, MemoryTypeOK
<1>4. ASSUME NEW c \in Copies(task), c.id = CurrentCopy(r).id, c.memories = CurrentCopy(r).memories,
             work' = [work EXCEPT ![r] = Worked(r, c)]
      PROVE  /\ DOMAIN work'[r] = DOMAIN work[r]
             /\ \A k \in DOMAIN work[r] :
                  work'[r][k].id = work[r][k].id /\ work'[r][k].memories = work[r][k].memories
  <2>1. work'[r] = Worked(r, c)
    BY <1>3, <1>4
  <2>2. /\ DOMAIN Worked(r, c) = DOMAIN work[r] /\ Worked(r, c)[Current(r)] = c
        /\ \A k \in DOMAIN work[r] \ {Current(r)} : Worked(r, c)[k] = work[r][k]
    BY <1>1, <1>4, WorkedFits
  <2> QED BY <1>4, <2>1, <2>2 DEF CurrentCopy
<1>5. CASE Advance(r)
  BY <1>1, <1>4, <1>5, AdvanceIs, AdvancedFits
<1>6. CASE GiveUp(r)
  BY <1>1, <1>4, <1>6, GiveUpIs, GivenUpFits
<1> QED BY <1>1, <1>2, <1>5, <1>6

\* A run that saves a batch saves one of its own.
LEMMA SavesOwn ==
  ASSUME MInv, NEW r \in Runs, RunStep(r), NEW b, b[1] \in GraphStages, b[2] # JobOf(r)
  PROVE  /\ b \in DOMAIN batches' <=> b \in DOMAIN batches
         /\ b \in DOMAIN batches => batches'[b] = batches[b]
<1>1. ASSUME NEW own, NEW batch, SaveBatch(own, batch), own[1] \in GraphStages => own[2] = JobOf(r)
      PROVE  /\ b \in DOMAIN batches' <=> b \in DOMAIN batches
             /\ b \in DOMAIN batches => batches'[b] = batches[b]
  <2>1. own # b
    BY <1>1
  <2>2. /\ DOMAIN batches' = DOMAIN batches \cup {own}
        /\ \A x \in DOMAIN batches \ {own} : batches'[x] = batches[x]
    BY <1>1, Saved
  <2> QED BY <2>1, <2>2
<1>2. CASE StageTranscript(r)
  BY <1>1, <1>2 DEF StageTranscript
<1>3. CASE StageTranslation(r)
  BY <1>1, <1>3 DEF StageTranslation
<1>4. CASE StageEvaluation(r)
  <2>1. PICK batch : SaveBatch(<<"evaluation", r>>, batch)
    BY <1>4 DEF StageEvaluation
  <2>2. <<"evaluation", r>>[1] \notin GraphStages
    BY DEF GraphStages
  <2> QED BY <1>1, <2>1, <2>2
<1>5. CASE EndEvaluation(r)
  <2>1. work[r][1].id = <<"evaluation", r>>
    BY <1>5, WorkOf DEF Owned, EndEvaluation, Move
  <2>2. work[r][1].id[1] \notin GraphStages
    BY <2>1 DEF GraphStages
  <2>3. UNCHANGED batches \/ \E batch : SaveBatch(work[r][1].id, batch)
    BY <1>5 DEF EndEvaluation
  <2> QED BY <1>1, <2>2, <2>3
<1>6. CASE SaveOutcome(r)
  <2>1. at[r] = "draining" /\ work[r] # <<>>
    BY <1>6 DEF SaveOutcome
  <2>2. Head(work[r]) = work[r][1] /\ 1 \in DOMAIN work[r]
    BY <2>1, WorkOf
  <2>3. Head(work[r]).id[2] = JobOf(r)
    BY <2>1, <2>2, WorkOf DEF Owned, JobOf
  <2>4. PICK batch : SaveBatch(Head(work[r]).id, batch)
    BY <1>6 DEF SaveOutcome
  <2> QED BY <1>1, <2>3, <2>4
<1>7. CASE UNCHANGED batches
  BY <1>7
<1>8. UNCHANGED batches \/ StageTranscript(r) \/ StageTranslation(r) \/ StageEvaluation(r)
      \/ EndEvaluation(r) \/ SaveOutcome(r)
  BY StoringIs DEF RunStep, Stores, SkipTranslation, Decide, StartDrain, AbandonDrain, EndDrain, RunDies
<1> QED BY <1>2, <1>3, <1>4, <1>5, <1>6, <1>7, <1>8

\* A run that stops working on batches, or does not yet.
Idle(r) ==
  \/ StageTranscript(r) \/ StageTranslation(r) \/ SkipTranslation(r)
  \/ \E winner \in task.ends : Decide(r, winner)
  \/ AbandonDrain(r) \/ EndDrain(r) \/ EndEvaluation(r) \/ RunDies(r)

LEMMA IdleIs ==
  ASSUME MInv, NEW r \in Runs, Idle(r)
  PROVE  work'[r] = <<>> /\ at'[r] # "draining"
<1>1. DOMAIN work = Runs /\ DOMAIN at = Runs
  BY DEF MInv, MemoryTypeOK
<1>2. at[r] \notin Working => work[r] = <<>>
  BY WorkOf DEF Owned
<1>3. CASE StageTranscript(r) \/ StageTranslation(r) \/ SkipTranslation(r) \/ \E winner \in task.ends : Decide(r, winner)
  BY <1>1, <1>2, <1>3 DEF StageTranscript, StageTranslation, SkipTranslation, Decide, Move, Working
<1>4. CASE AbandonDrain(r) \/ EndDrain(r) \/ EndEvaluation(r) \/ RunDies(r)
  BY <1>1, <1>4 DEF AbandonDrain, EndDrain, EndEvaluation, RunDies, Move
<1> QED BY <1>3, <1>4 DEF Idle

LEMMA KindsOfStep ==
  ASSUME NEW r, RunStep(r)
  PROVE  Idle(r) \/ StageEvaluation(r) \/ StartDrain(r) \/ Stores(r) \/ SaveOutcome(r)
BY DEF RunStep, Idle, Stores

\* A saved outcome: the head of the run's work is off its list, its memories stay.
LEMMA OutcomeSaved ==
  ASSUME MInv, NEW r \in Runs, SaveOutcome(r)
  PROVE  LET c == Head(work[r])
         IN  /\ c \in ToSet(work[r]) /\ c \in Copies(task) /\ at[r] = "draining" /\ Current(r) = 0
             /\ \E result \in {Outcome(c), "failed"} : SaveBatch(c.id, Batch(result, c.memories))
             /\ work'[r] = Tail(work[r]) /\ UNCHANGED <<decision, at, entries, task>>
             /\ ToSet(work[r]) = ToSet(work'[r]) \cup {c}
             /\ \A d \in ToSet(work'[r]) : d.id # c.id
<1> DEFINE c == Head(work[r])
           w == Tail(work[r])
<1>1. DOMAIN work = Runs
  BY DEF MInv, MemoryTypeOK
<1>2. /\ at[r] = "draining" /\ Current(r) = 0 /\ work[r] # <<>> /\ work' = [work EXCEPT ![r] = w]
      /\ UNCHANGED <<decision, at, entries, task>>
      /\ \E result \in {Outcome(c), "failed"} : SaveBatch(c.id, Batch(result, c.memories))
  BY DEF SaveOutcome, Rest
<1>3. work'[r] = w
  BY <1>1, <1>2
<1>4. work[r] \in Seq(Copies(task)) /\ Owned(task, r, "draining", work[r])
  BY <1>2, WorkOf
<1>5. /\ c \in Copies(task) /\ c = work[r][1] /\ 1 \in DOMAIN work[r]
      /\ ToSet(work[r]) = ToSet(w) \cup {c} /\ DOMAIN w = 1..(Len(work[r]) - 1)
      /\ \A i \in DOMAIN w : w[i] = work[r][i + 1]
  BY <1>2, <1>4, Headed
<1> HIDE DEF c, w
<1>6. ASSUME NEW d \in ToSet(w) PROVE d.id # c.id
  <2>1. PICK i \in DOMAIN w : d = w[i]
    BY <1>6 DEF ToSet
  <2>2. i + 1 \in DOMAIN work[r] /\ i + 1 # 1 /\ d = work[r][i + 1]
    BY <1>4, <1>5, <2>1
  <2> QED BY <1>4, <1>5, <2>2 DEF Owned
<1> QED BY <1>2, <1>3, <1>5, <1>6 DEF c, w

----------------------------------------------------------------------------
(* The copies of a run agree with the table.                               *)

LEMMA CopiesAgreeStep ==
  ASSUME MInv, ~task.overlap, Latest, CopiesAgree, NEW r \in Runs, RunStep(r)
  PROVE  CopiesAgree'
<1>1. \A x \in Runs \ {r} : work'[x] = <<>>
  BY Lone, StepIs
<1>2. ToSet(<<>>) = {}
  BY DEF ToSet
<1> SUFFICES ASSUME NEW d \in ToSet(work'[r]) PROVE Agrees(d)'
  BY <1>1, <1>2 DEF CopiesAgree
<1>3. CASE Idle(r)
  BY <1>2, <1>3, IdleIs
<1>4. CASE StageEvaluation(r)
  <2> DEFINE b == <<"evaluation", r>>
             c(memories) == [id |-> b, memories |-> memories, left |-> memories, failed |-> FALSE]
  <2>1. PICK memories : /\ SaveBatch(b, Batch("pending", memories))
                        /\ work' = [work EXCEPT ![r] = <<c(memories)>>]
    BY <1>4 DEF StageEvaluation
  <2>2. DOMAIN work = Runs
    BY DEF MInv, MemoryTypeOK
  <2> DEFINE copy == c(memories)
  <2>3. copy.id = b /\ copy.memories = memories
    OBVIOUS
  <2> HIDE DEF c, copy
  <2>4. d = copy
    <3>1. ToSet(<<copy>>) = {copy}
      BY DEF ToSet
    <3> QED BY <2>1, <2>2, <3>1 DEF copy
  <2>5. b \in DOMAIN batches' /\ batches'[b] = Batch("pending", memories)
    BY <2>1, Saved
  <2> QED BY <2>3, <2>4, <2>5 DEF Agrees, Batch
<1>5. CASE StartDrain(r)
  <2> DEFINE w == [k \in DOMAIN ToDrain(r) |-> Copy(ToDrain(r)[k])]
  <2>1. work' = [work EXCEPT ![r] = w] /\ UNCHANGED <<batches, task>> /\ at[r] # "new"
    BY <1>5 DEF StartDrain, Rest, Move
  <2>2. work'[r] = w
    BY <2>1 DEF MInv, MemoryTypeOK
  <2>3. JobOf(r) \in Jobs
    BY <2>1, Started
  <2>4. \A k \in DOMAIN w : w[k] = Copy(ToDrain(r)[k]) /\ w[k].id = ToDrain(r)[k] /\ Open(w[k].id)
    BY <2>3, Copied
  <2> HIDE DEF w
  <2>5. PICK k \in DOMAIN w : d = w[k]
    BY <2>2 DEF ToSet
  <2>6. d.memories = batches[d.id].memories /\ Open(d.id)
    BY <2>4, <2>5 DEF Copy
  <2> QED BY <2>1, <2>6 DEF Agrees, Open
<1>6. CASE Stores(r)
  <2>1. /\ UNCHANGED <<batches, decision, at, task>> /\ DOMAIN work'[r] = DOMAIN work[r]
        /\ \A k \in DOMAIN work[r] :
             work'[r][k].id = work[r][k].id /\ work'[r][k].memories = work[r][k].memories
    BY <1>6, StoringIs
  <2>2. PICK k \in DOMAIN work[r] : d = work'[r][k]
    BY <2>1 DEF ToSet
  <2>3. Agrees(work[r][k])
    <3>1. work[r][k] \in ToSet(work[r])
      BY DEF ToSet
    <3> QED BY <3>1 DEF CopiesAgree
  <2> QED BY <2>1, <2>2, <2>3 DEF Agrees
<1>7. CASE SaveOutcome(r)
  <2> DEFINE c == Head(work[r])
  <2>1. /\ \E batch : SaveBatch(c.id, batch)
        /\ d \in ToSet(work[r]) /\ d.id # c.id
    BY <1>7, OutcomeSaved
  <2> HIDE DEF c
  <2>2. DOMAIN batches \subseteq DOMAIN batches' /\ \A x \in DOMAIN batches \ {c.id} : batches'[x] = batches[x]
    BY <2>1, Saved
  <2>3. Agrees(d)
    BY <2>1 DEF CopiesAgree
  <2> QED BY <2>1, <2>2, <2>3 DEF Agrees
<1> QED BY <1>3, <1>4, <1>5, <1>6, <1>7, KindsOfStep

----------------------------------------------------------------------------
(* What is pending when a run drains, and when it ends.                    *)

\* What a step does to what the runs have staged.
LEMMA StagedIs ==
  ASSUME MInv, StagedShape, NEW r \in Runs, RunStep(r)
  PROVE  /\ StagedShape'
         /\ \A x \in Runs \ {r} : staged'[x] = staged[x]
         /\ ~RunDies(r) => staged[r] \subseteq staged'[r]
<1>1. staged \in [Runs -> SUBSET (GraphStages \X Jobs)]
  BY DEF StagedShape
<1>2. ASSUME NEW stage \in GraphStages, JobOf(r) \in Jobs, Stages(r, <<stage, JobOf(r)>>)
      PROVE  StagedShape' /\ (\A x \in Runs \ {r} : staged'[x] = staged[x]) /\ staged[r] \subseteq staged'[r]
  <2> DEFINE b == <<stage, JobOf(r)>>
  <2>1. b \in GraphStages \X Jobs /\ staged' = [staged EXCEPT ![r] = staged[r] \cup {b}]
    BY <1>2 DEF Stages
  <2> HIDE DEF b
  <2> QED BY <1>1, <2>1 DEF StagedShape
<1>3. CASE StageTranscript(r)
  <2>1. JobOf(r) \in Jobs
    BY <1>3, MemoryAssumption DEF StageTranscript, MInv, MemoryTypeOK, JobOf
  <2> QED BY <1>2, <1>3, <2>1 DEF StageTranscript, GraphStages
<1>4. CASE StageTranslation(r)
  <2>1. JobOf(r) \in Jobs
    BY <1>4, Started DEF StageTranslation, Move
  <2> QED BY <1>2, <1>4, <2>1 DEF StageTranslation, GraphStages
<1>5. CASE RunDies(r)
  <2>1. staged' = [staged EXCEPT ![r] = {}]
    BY <1>5 DEF RunDies
  <2> QED BY <1>1, <1>5, <2>1 DEF StagedShape
<1>6. CASE staged' = staged
  BY <1>1, <1>6 DEF StagedShape
<1>7. StageTranscript(r) \/ StageTranslation(r) \/ RunDies(r) \/ staged' = staged
  BY DEF RunStep, SkipTranslation, Decide, StageEvaluation, EndEvaluation, StartDrain, Look, PutNext, PutFails,
     SaveOutcome, AbandonDrain, EndDrain
<1> QED BY <1>3, <1>4, <1>5, <1>6, <1>7

LEMMA DrainsPendingStep ==
  ASSUME MInv, ~task.overlap, Latest, DrainsPending, NEW r \in Runs, RunStep(r)
  PROVE  DrainsPending'
<1>1. task' = task /\ \A x \in Runs \ {r} : at'[x] # "draining"
  <2>1. \A x \in Runs \ {r} : at[x] # "draining"
    BY Lone DEF Busy
  <2> QED BY <2>1, StepIs
<1> SUFFICES ASSUME at'[r] = "draining", NEW b \in Pending(JobOf(r))', b \in staged'[r]
             PROVE  \E c \in ToSet(work'[r]) : c.id = b
  BY <1>1 DEF DrainsPending, JobOf
<1>2. /\ b \in DOMAIN batches' /\ b[1] \in GraphStages /\ b[2] = JobOf(r)
      /\ batches'[b].status = "pending"
  BY <1>1 DEF Pending, JobOf
<1>3. CASE Idle(r)
  BY <1>3, IdleIs
<1>4. CASE StageEvaluation(r)
  BY <1>4 DEF StageEvaluation, Move, MInv, MemoryTypeOK
<1>5. CASE StartDrain(r)
  <2> DEFINE w == [k \in DOMAIN ToDrain(r) |-> Copy(ToDrain(r)[k])]
  <2>1. work' = [work EXCEPT ![r] = w] /\ UNCHANGED <<batches, task>> /\ at[r] # "new"
    BY <1>5 DEF StartDrain, Rest, Move
  <2>2. work'[r] = w
    BY <2>1 DEF MInv, MemoryTypeOK
  <2>3. JobOf(r) \in Jobs
    BY <2>1, Started
  <2>4. DOMAIN w = DOMAIN ToDrain(r) /\ \A k \in DOMAIN w : w[k].id = ToDrain(r)[k]
    BY <2>3, Copied
  <2> HIDE DEF w
  <2>5. b \in {<<"transcript", JobOf(r)>>, <<"translation", JobOf(r)>>} /\ Left(r, b)
    <3>1. b \in BatchIds(task) /\ Open(b)
      BY <1>2, <2>1 DEF Open, MInv, MemoryTypeOK, MemoryTables
    <3>2. b \in GraphStages \X Jobs
      BY <1>2, <3>1 DEF BatchIds, GraphStages
    <3>3. staged' = staged
      BY <1>5 DEF StartDrain
    <3> QED BY <1>2, <3>1, <3>2, <3>3 DEF GraphStages, Left
  <2>6. b \in ToSet(ToDrain(r))
    BY <2>5, Drains
  <2>7. PICK k \in DOMAIN ToDrain(r) : b = ToDrain(r)[k]
    BY <2>6 DEF ToSet
  <2>8. w[k] \in ToSet(w) /\ w[k].id = b
    BY <2>4, <2>7 DEF ToSet
  <2> QED BY <2>2, <2>8
<1>6. CASE Stores(r)
  <2>1. /\ UNCHANGED <<batches, decision, at, task>> /\ DOMAIN work'[r] = DOMAIN work[r]
        /\ \A k \in DOMAIN work[r] : work'[r][k].id = work[r][k].id
    BY <1>6, StoringIs
  <2>2. at[r] = "draining" /\ b \in Pending(JobOf(r)) /\ b \in staged[r]
    <3>1. staged' = staged
      BY <1>6 DEF Stores, Look, PutNext, PutFails
    <3> QED BY <1>2, <2>1, <3>1 DEF Pending
  <2>3. PICK k \in DOMAIN work[r] : work[r][k].id = b
    BY <2>2 DEF DrainsPending, ToSet
  <2>4. work'[r][k] \in ToSet(work'[r]) /\ work'[r][k].id = b
    BY <2>1, <2>3 DEF ToSet
  <2> QED BY <2>4
<1>7. CASE SaveOutcome(r)
  <2> DEFINE c == Head(work[r])
  <2>1. /\ at[r] = "draining" /\ \E result \in {Outcome(c), "failed"} : SaveBatch(c.id, Batch(result, c.memories))
        /\ ToSet(work[r]) = ToSet(work'[r]) \cup {c}
    BY <1>7, OutcomeSaved
  <2>2. PICK result \in {Outcome(c), "failed"} : SaveBatch(c.id, Batch(result, c.memories))
    BY <2>1
  <2>3. result # "pending"
    BY DEF Outcome
  <2> HIDE DEF c
  <2>4. /\ DOMAIN batches' = DOMAIN batches \cup {c.id} /\ batches'[c.id] = Batch(result, c.memories)
        /\ \A x \in DOMAIN batches \ {c.id} : batches'[x] = batches[x]
    BY <2>2, Saved
  <2>5. b # c.id
    BY <1>2, <2>3, <2>4 DEF Batch
  <2>6. b \in Pending(JobOf(r)) /\ b \in staged[r]
    <3>1. staged' = staged
      BY <1>7 DEF SaveOutcome
    <3> QED BY <1>2, <2>4, <2>5, <3>1 DEF Pending
  <2>7. PICK d \in ToSet(work[r]) : d.id = b
    BY <2>1, <2>6 DEF DrainsPending
  <2> QED BY <2>1, <2>5, <2>7
<1> QED BY <1>3, <1>4, <1>5, <1>6, <1>7, KindsOfStep

LEMMA EndsIs ==
  ASSUME MInv, NEW r \in Runs, RunStep(r), at'[r] = "ended"
  PROVE  EndDrain(r)
<1>1. DOMAIN at = Runs
  BY DEF MInv, MemoryTypeOK
<1>2. ~(StageTranscript(r) \/ StageTranslation(r) \/ SkipTranslation(r) \/ \E winner \in task.ends : Decide(r, winner))
  BY <1>1 DEF StageTranscript, StageTranslation, SkipTranslation, Decide, Move
<1>3. ~(AbandonDrain(r) \/ EndEvaluation(r) \/ RunDies(r) \/ StageEvaluation(r) \/ StartDrain(r))
  BY <1>1 DEF AbandonDrain, EndEvaluation, RunDies, StageEvaluation, StartDrain, Move
<1>4. ~Stores(r)
  BY StoringIs DEF Storing, Working
<1>5. ~SaveOutcome(r)
  BY OutcomeSaved
<1> QED BY <1>2, <1>3, <1>4, <1>5 DEF RunStep, Stores

LEMMA NonePendingStep ==
  ASSUME MInv, StagedShape, ~task.overlap, Latest, DrainsPending, NonePending, NEW r \in Runs, RunStep(r)
  PROVE  NonePending'
<1>1. task' = task /\ DOMAIN task.jobs \subseteq Runs /\ at'[r] # "new" /\ Runs \subseteq Nat
  BY StepIs, MemoryAssumption, RunsAssumption DEF MInv, MemoryTypeOK
<1> SUFFICES ASSUME NEW y \in DOMAIN task.jobs, LastOfJob(y)' PROVE (Pending(JobOf(y)) \cap staged[y])' = {}
  BY <1>1 DEF NonePending
<1>2. at'[y] = "ended" /\ \A x \in DOMAIN task.jobs : JobOf(x) = JobOf(y) /\ x > y => at'[x] = "new"
  BY <1>1 DEF LastOfJob, LaterRuns, JobOf
<1>3. CASE y = r
  <2>1. EndDrain(r)
    BY <1>2, <1>3, EndsIs
  <2>2. at[r] = "draining" /\ work[r] = <<>> /\ UNCHANGED <<batches, staged, task>>
    BY <2>1 DEF EndDrain, Move, Rest
  <2>3. ToSet(work[r]) = {}
    BY <2>2 DEF ToSet
  <2>4. Pending(JobOf(r)) \cap staged[r] = {}
    BY <2>2, <2>3 DEF DrainsPending
  <2> QED BY <1>3, <2>2, <2>4 DEF Pending, JobOf
<1>4. CASE y # r
  <2>1. y \in Runs /\ at[y] = "ended"
    BY <1>1, <1>2, <1>4, StepIs
  <2>2. r \in DOMAIN task.jobs
    <3>1. StageTranscript(r) => r \in DOMAIN task.jobs
      BY DEF StageTranscript
    <3>2. r \in Busy => r \in DOMAIN task.jobs
      BY Started DEF Busy
    <3> QED BY <3>1, <3>2, StepIs
  <2>3. JobOf(y) # JobOf(r)
    <3>1. ~(r > y /\ JobOf(r) = JobOf(y))
      BY <1>1, <1>2, <2>2
    <3>2. ~(y > r)
      BY <2>1, Lone
    <3>3. y > r \/ r > y
      <4>1. y \in Nat /\ r \in Nat
        BY <2>1, RunsAssumption
      <4> QED BY <1>4, <4>1
    <3> QED BY <3>1, <3>2, <3>3
  <2>4. \A x \in LaterRuns(y) : at[x] = "new"
    <3> SUFFICES ASSUME NEW x \in DOMAIN task.jobs, JobOf(x) = JobOf(y), x > y PROVE at[x] = "new"
      BY DEF LaterRuns
    <3>1. x # r /\ x \in Runs
      BY <1>1, <2>3
    <3> QED BY <1>2, <3>1, StepIs
  <2>5. Pending(JobOf(y)) \cap staged[y] = {}
    BY <2>1, <2>4 DEF NonePending, LastOfJob
  <2>6. ASSUME NEW b \in Pending(JobOf(y))', b \in staged'[y] PROVE FALSE
    <3>1. b \in DOMAIN batches' /\ b[1] \in GraphStages /\ b[2] = JobOf(y) /\ batches'[b].status = "pending"
      BY <1>1 DEF Pending, JobOf
    <3>2. b \in DOMAIN batches /\ batches'[b] = batches[b]
      BY <2>3, <3>1, SavesOwn
    <3>3. staged'[y] = staged[y]
      BY <1>4, <2>1, StagedIs
    <3> QED BY <2>5, <2>6, <3>1, <3>2, <3>3 DEF Pending
  <2> QED BY <2>6
<1> QED BY <1>3, <1>4

\* A batch that becomes pending is staged by the run that takes the step.
LEMMA PendingIsStaged ==
  ASSUME MInv, StagedShape, NEW r \in Runs, RunStep(r),
         NEW b \in DOMAIN batches', b[1] \in GraphStages, batches'[b].status = "pending",
         ~(b \in DOMAIN batches /\ batches[b].status = "pending")
  PROVE  b \in staged'[r] /\ at'[r] \in {"transcript", "finalized"}
<1>1. DOMAIN staged = Runs /\ DOMAIN at = Runs
  BY DEF StagedShape, MInv, MemoryTypeOK
<1>2. ASSUME NEW own, NEW batch, SaveBatch(own, batch)
      PROVE  own = b /\ batch.status = "pending"
  <2>1. /\ DOMAIN batches' = DOMAIN batches \cup {own} /\ batches'[own] = batch
        /\ \A x \in DOMAIN batches \ {own} : batches'[x] = batches[x]
    BY <1>2, Saved
  <2> QED BY <2>1
<1>3. CASE StageTranscript(r)
  <2>1. b = <<"transcript", JobOf(r)>>
    BY <1>2, <1>3 DEF StageTranscript
  <2> QED BY <1>1, <1>3, <2>1 DEF StageTranscript, Stages, Move
<1>4. CASE StageTranslation(r)
  <2>1. b = <<"translation", JobOf(r)>>
    BY <1>2, <1>4 DEF StageTranslation
  <2> QED BY <1>1, <1>4, <2>1 DEF StageTranslation, Stages, Move
<1>5. CASE StageEvaluation(r)
  <2>1. b = <<"evaluation", r>>
    BY <1>2, <1>5 DEF StageEvaluation
  <2> QED BY <2>1 DEF GraphStages
<1>6. CASE EndEvaluation(r)
  <2>1. work[r][1].id[1] \notin GraphStages
    <3>1. work[r][1].id = <<"evaluation", r>>
      BY <1>6, WorkOf DEF Owned, EndEvaluation, Move
    <3> QED BY <3>1 DEF GraphStages
  <2>2. UNCHANGED batches \/ \E batch : SaveBatch(work[r][1].id, batch)
    BY <1>6 DEF EndEvaluation
  <2> QED BY <1>2, <2>1, <2>2
<1>7. CASE SaveOutcome(r)
  <2>1. PICK c, result : result \in {Outcome(c), "failed"} /\ SaveBatch(c.id, Batch(result, c.memories))
    BY <1>7 DEF SaveOutcome
  <2>2. Batch(result, c.memories).status = "pending"
    BY <1>2, <2>1
  <2>3. result # "pending"
    BY <2>1 DEF Outcome
  <2> QED BY <2>2, <2>3 DEF Batch
<1>8. UNCHANGED batches \/ StageTranscript(r) \/ StageTranslation(r) \/ StageEvaluation(r)
      \/ EndEvaluation(r) \/ SaveOutcome(r)
  BY StoringIs DEF RunStep, Stores, SkipTranslation, Decide, StartDrain, AbandonDrain, EndDrain, RunDies
<1> QED BY <1>3, <1>4, <1>5, <1>6, <1>7, <1>8

LEMMA PendingUnderWayStep ==
  ASSUME MInv, StagedShape, DrainsPending, PendingUnderWay, NEW r \in Runs, RunStep(r)
  PROVE  PendingUnderWay'
<1>1. /\ task' = task /\ DOMAIN task.jobs \subseteq Runs /\ at'[r] # "new"
      /\ \A x \in Runs \ {r} : at'[x] = at[x] /\ staged'[x] = staged[x]
      /\ at[r] = "new" \/ r \in Busy
  BY StepIs, StagedIs, MemoryAssumption DEF MInv, MemoryTypeOK
<1> SUFFICES ASSUME NEW j \in Jobs, NoLoss(j)', NEW b \in Pending(j)'
             PROVE  \E x \in Runs : x \in Busy' /\ JobOf(x) = j /\ b \in staged'[x]
  BY <1>1 DEF PendingUnderWay, Busy, JobOf
<1>2. \A x \in DOMAIN task.jobs : JobOf(x) = j => at'[x] \notin {"dead", "aborted"}
  BY <1>1 DEF NoLoss, JobOf
<1>3. NoLoss(j)
  <2> SUFFICES ASSUME NEW x \in DOMAIN task.jobs, JobOf(x) = j PROVE at[x] \notin {"dead", "aborted"}
    BY DEF NoLoss
  <2>1. CASE x = r
    BY <1>1, <2>1 DEF Busy
  <2>2. CASE x # r
    BY <1>1, <1>2, <2>2
  <2> QED BY <2>1, <2>2
<1>4. /\ b \in DOMAIN batches' /\ b[1] \in GraphStages /\ b[2] = j
      /\ batches'[b].status = "pending"
  BY DEF Pending
<1>5. CASE b \in Pending(j)
  <2>1. PICK x \in Busy : JobOf(x) = j /\ b \in staged[x]
    BY <1>3, <1>5 DEF PendingUnderWay
  <2>2. CASE x # r
    <3>1. x \in Busy' /\ staged'[x] = staged[x]
      BY <1>1, <2>2 DEF Busy
    <3> QED BY <2>1, <3>1 DEF Busy
  <2>3. CASE x = r
    <3>1. r \in DOMAIN task.jobs
      BY <2>3, Started DEF Busy
    <3>2. at'[r] \notin {"new", "dead", "aborted"}
      BY <1>1, <1>2, <2>1, <2>3, <3>1
    <3>3. at'[r] # "ended"
      <4> SUFFICES ASSUME at'[r] = "ended" PROVE FALSE
        OBVIOUS
      <4>1. EndDrain(r)
        BY EndsIs
      <4>2. at[r] = "draining" /\ ToSet(work[r]) = {}
        BY <4>1 DEF EndDrain, Move, ToSet
      <4> QED BY <1>5, <2>1, <2>3, <4>2 DEF DrainsPending
    <3>4. r \in Busy'
      BY <3>2, <3>3 DEF Busy
    <3>5. staged[r] \subseteq staged'[r]
      <4>1. ~RunDies(r)
        BY <3>2 DEF RunDies, MInv, MemoryTypeOK
      <4> QED BY <4>1, StagedIs
    <3> QED BY <2>1, <2>3, <3>4, <3>5
  <2> QED BY <2>2, <2>3
<1>6. CASE b \notin Pending(j)
  <2>1. ~(b \in DOMAIN batches /\ batches[b].status = "pending")
    BY <1>4, <1>6 DEF Pending
  <2>2. b \in staged'[r] /\ at'[r] \in {"transcript", "finalized"}
    BY <1>4, <2>1, PendingIsStaged
  <2>3. JobOf(r) = j
    <3> SUFFICES ASSUME JobOf(r) # j PROVE FALSE
      OBVIOUS
    <3>1. b \in DOMAIN batches /\ batches'[b] = batches[b]
      BY <1>4, SavesOwn
    <3> QED BY <1>4, <2>1, <3>1
  <2>4. r \in Busy'
    BY <2>2 DEF Busy
  <2> QED BY <2>2, <2>3, <2>4
<1> QED BY <1>5, <1>6

----------------------------------------------------------------------------
(* The translation batch tells of the decision.                            *)

Settling(j) == \A x \in DOMAIN task.jobs : JobOf(x) = j => at[x] \notin {"decided", "dead"}
Tells(j) ==
  <<"translation", j>> \in DOMAIN batches /\ Settling(j) =>
    batches[<<"translation", j>>].memories = TranslationMemories(j, decision[j])

\* A step that touches neither the decision of a job nor its translation batch.
LEMMA TellsFrame ==
  ASSUME NEW j, Tells(j), task' = task, decision'[j] = decision[j], Settling(j)' => Settling(j),
         LET b == <<"translation", j>>
         IN  b \in DOMAIN batches' => b \in DOMAIN batches /\ batches'[b].memories = batches[b].memories
  PROVE  Tells(j)'
<1>1. TranslationMemories(j, decision[j])' = TranslationMemories(j, decision[j])
  BY DEF TranslationMemories, Memory
<1> QED BY <1>1 DEF Tells

LEMMA TellsDecisionStep ==
  ASSUME MInv, ~task.overlap, CopiesAgree, TellsDecision, NEW r \in Runs, RunStep(r)
  PROVE  TellsDecision'
<1>1. task' = task /\ DOMAIN task.jobs \subseteq Runs /\ DOMAIN at = Runs
  BY StepIs, MemoryAssumption DEF MInv, MemoryTypeOK
<1> SUFFICES ASSUME NEW j \in Jobs PROVE Tells(j)'
  BY DEF TellsDecision, Tells, Settling
<1> DEFINE b == <<"translation", j>>
<1>2. Tells(j)
  BY DEF TellsDecision, Tells, Settling
<1>3. CASE j # JobOf(r)
  <2>1. decision'[j] = decision[j]
    <3>1. CASE \E winner \in task.ends : Decide(r, winner)
      BY <1>3, <3>1 DEF Decide, MInv, MemoryTypeOK
    <3>2. CASE ~\E winner \in task.ends : Decide(r, winner)
      <4>1. UNCHANGED decision
        BY <3>2, StoringIs DEF RunStep, Stores, StageTranscript, StageTranslation, SkipTranslation,
             StageEvaluation, EndEvaluation, StartDrain, SaveOutcome, AbandonDrain, EndDrain, RunDies
      <4> QED BY <4>1
    <3> QED BY <3>1, <3>2
  <2>2. Settling(j)' => Settling(j)
    BY <1>1, <1>3, StepIs DEF Settling, JobOf
  <2>3. b \in DOMAIN batches' => b \in DOMAIN batches /\ batches'[b].memories = batches[b].memories
    <3>1. b[1] \in GraphStages /\ b[2] = j
      BY DEF GraphStages
    <3> QED BY <1>3, <3>1, SavesOwn
  <2> QED BY <1>1, <1>2, <2>1, <2>2, <2>3, TellsFrame
<1>4. CASE j = JobOf(r)
  <2>1. r \in DOMAIN task.jobs
    <3>1. StageTranscript(r) => r \in DOMAIN task.jobs
      BY DEF StageTranscript
    <3>2. r \in Busy => r \in DOMAIN task.jobs
      BY Started DEF Busy
    <3> QED BY <3>1, <3>2, StepIs
  <2>2. CASE at'[r] \in {"decided", "dead"}
    <3>1. ~Settling(j)'
      BY <1>1, <1>4, <2>1, <2>2 DEF Settling, JobOf
    <3> QED BY <3>1 DEF Tells
  <2>3. CASE StageTranslation(r)
    <3>1. SaveBatch(b, Batch("pending", TranslationMemories(j, decision[j]))) /\ decision' = decision
      BY <1>4, <2>3 DEF StageTranslation
    <3>2. batches'[b].memories = TranslationMemories(j, decision[j])
      <4>1. batches'[b] = Batch("pending", TranslationMemories(j, decision[j]))
        BY <3>1, Saved
      <4> QED BY <4>1 DEF Batch
    <3>3. TranslationMemories(j, decision[j])' = TranslationMemories(j, decision[j])
      BY <1>1, <3>1 DEF TranslationMemories, Memory
    <3> QED BY <3>2, <3>3 DEF Tells
  <2>4. CASE at'[r] \notin {"decided", "dead"} /\ ~StageTranslation(r)
    <3>1. ~(\E winner \in task.ends : Decide(r, winner)) /\ ~RunDies(r)
      BY <1>1, <2>4 DEF Decide, RunDies, Move
    <3>2. at[r] \notin {"decided", "dead"}
      <4>1. CASE StageTranscript(r) \/ SkipTranslation(r) \/ StageEvaluation(r) \/ EndEvaluation(r) \/ StartDrain(r)
                 \/ AbandonDrain(r) \/ EndDrain(r)
        BY <4>1 DEF StageTranscript, SkipTranslation, StageEvaluation, EndEvaluation, StartDrain, AbandonDrain, EndDrain, Move
      <4>2. CASE Stores(r)
        BY <4>2, StoringIs DEF Storing, Working
      <4>3. CASE SaveOutcome(r)
        BY <4>3, OutcomeSaved
      <4> QED BY <2>4, <3>1, <4>1, <4>2, <4>3 DEF RunStep, Stores
    <3>3. decision' = decision
      BY <2>4, <3>1, StoringIs DEF RunStep, Stores, StageTranscript, SkipTranslation,
           StageEvaluation, EndEvaluation, StartDrain, SaveOutcome, AbandonDrain, EndDrain
    <3>4. Settling(j)' => Settling(j)
      BY <1>1, <3>2, StepIs DEF Settling, JobOf
    <3>5. b \in DOMAIN batches' => b \in DOMAIN batches /\ batches'[b].memories = batches[b].memories
      <4> HIDE DEF b
      <4>1. ASSUME NEW own, NEW batch, SaveBatch(own, batch), own # b
            PROVE  b \in DOMAIN batches' => b \in DOMAIN batches /\ batches'[b].memories = batches[b].memories
        <5>1. /\ DOMAIN batches' = DOMAIN batches \cup {own}
              /\ \A x \in DOMAIN batches \ {own} : batches'[x] = batches[x]
          BY <4>1, Saved
        <5> QED BY <4>1, <5>1
      <4>2. CASE StageTranscript(r)
        BY <4>1, <4>2 DEF StageTranscript, b
      <4>3. CASE StageEvaluation(r)
        BY <4>1, <4>3 DEF StageEvaluation, b
      <4>4. CASE EndEvaluation(r)
        <5>1. work[r][1].id # b
          BY <4>4, WorkOf DEF Owned, EndEvaluation, Move, b
        <5>2. UNCHANGED batches \/ \E batch : SaveBatch(work[r][1].id, batch)
          BY <4>4 DEF EndEvaluation
        <5> QED BY <4>1, <5>1, <5>2
      <4>5. CASE SaveOutcome(r)
        <5> DEFINE c == Head(work[r])
        <5>1. c \in ToSet(work[r]) /\ \E result : SaveBatch(c.id, Batch(result, c.memories))
          BY <4>5, OutcomeSaved
        <5>2. Agrees(c)
          BY <5>1 DEF CopiesAgree
        <5> HIDE DEF c
        <5>3. CASE c.id # b
          BY <4>1, <5>1, <5>3
        <5>4. CASE c.id = b
          <6>1. PICK result : SaveBatch(c.id, Batch(result, c.memories))
            BY <5>1
          <6>2. batches'[c.id] = Batch(result, c.memories)
            BY <6>1, Saved
          <6>3. batches'[b].memories = c.memories
            BY <5>4, <6>2 DEF Batch
          <6> QED BY <5>2, <5>4, <6>3 DEF Agrees
        <5> QED BY <5>3, <5>4
      <4>6. CASE UNCHANGED batches
        BY <4>6
      <4>7. UNCHANGED batches \/ StageTranscript(r) \/ StageEvaluation(r) \/ EndEvaluation(r) \/ SaveOutcome(r)
        BY <2>4, <3>1, StoringIs DEF RunStep, Stores, SkipTranslation, StartDrain, AbandonDrain, EndDrain
      <4> QED BY <4>2, <4>3, <4>4, <4>5, <4>6, <4>7
    <3> QED BY <1>1, <1>2, <3>3, <3>4, <3>5, TellsFrame
  <2> QED BY <2>2, <2>3, <2>4
<1> QED BY <1>3, <1>4

----------------------------------------------------------------------------
(* What is consolidated is stored.                                         *)

\* A memory that is put replaces no key but its own: evaluations of a medium store the
\* same keys, and no other two batches have a key in common.
LEMMA KeyReplaced ==
  ASSUME MInv, Unshared, NEW b \in BatchIds(task), NEW slot \in Slots, NEW key \in Keys(task, b, slot),
         entries' = Upsert(entries, <<b, slot>>, key), UNCHANGED <<batches, task>>,
         NEW a \in BatchIds(task), NEW n \in MemoriesOf(task, a), Stored(n.key)
  PROVE  Stored(n.key)' \/ (a = b /\ n.slot = slot)
<1> DEFINE k == <<b, slot>>
<1>1. k[1] = b /\ k[2] = slot
  OBVIOUS
<1>2. /\ DOMAIN entries' = DOMAIN entries \cup {k} /\ entries'[k] = key
      /\ \A m \in DOMAIN entries \ {k} : entries'[m] = entries[m]
  BY PutStores
<1> HIDE DEF k
<1>3. PICK x \in DOMAIN entries : entries[x] = n.key
  BY DEF Stored
<1>4. CASE x # k
  <2>1. x \in DOMAIN entries' /\ entries'[x] = n.key
    BY <1>2, <1>3, <1>4
  <2> QED BY <2>1 DEF Stored
<1>5. CASE x = k
  <2>1. n.key \in Keys(task, b, slot)
    BY <1>1, <1>3, <1>5 DEF MInv, MemoryTypeOK, MemoryTables
  <2>2. n.key \in Keys(task, a, n.slot)
    BY MemoryFits
  <2>3. n.key[1] = slot /\ n.key[2] = b[1] /\ n.key[3] = Owner(task, b)
    BY <2>1 DEF Keys
  <2>4. n.key[1] = n.slot /\ n.key[2] = a[1] /\ n.key[3] = Owner(task, a)
    BY <2>2 DEF Keys
  <2>5. CASE b[1] = "evaluation"
    <3>1. n.key = key
      BY <2>1, <2>5 DEF Keys
    <3>2. k \in DOMAIN entries' /\ entries'[k] = n.key
      BY <1>2, <3>1
    <3> QED BY <3>2 DEF Stored
  <2>6. CASE b[1] # "evaluation"
    <3>1. a \in GraphStages \X Jobs /\ b \in GraphStages \X Jobs
      BY <2>3, <2>4, <2>6 DEF BatchIds
    <3>2. task.names[a[2]] = task.names[b[2]]
      BY <2>3, <2>4, <2>6 DEF Owner
    <3>3. a[2] = b[2]
      BY <3>1, <3>2 DEF Unshared
    <3>4. a[1] = b[1] /\ n.slot = slot
      BY <2>3, <2>4
    <3>5. a = b
      BY <3>1, <3>3, <3>4
    <3> QED BY <3>4, <3>5
  <2> QED BY <2>5, <2>6
<1> QED BY <1>4, <1>5

\* The batches after one is saved.
LEMMA SavedStored ==
  ASSUME \A x \in DOMAIN batches : BatchStored(x), entries' = entries, NEW b, NEW status, NEW memories,
         SaveBatch(b, Batch(status, memories)),
         status = "consolidated" => \A m \in ToSet(memories) : Stored(m.key)
  PROVE  \A x \in DOMAIN batches' : BatchStored(x)'
<1>1. /\ DOMAIN batches' = DOMAIN batches \cup {b}
      /\ batches'[b] = Batch(status, memories)
      /\ \A x \in DOMAIN batches \ {b} : batches'[x] = batches[x]
  BY Saved
<1>2. \A key : Stored(key)' <=> Stored(key)
  BY DEF Stored
<1> SUFFICES ASSUME NEW x \in DOMAIN batches' PROVE BatchStored(x)'
  OBVIOUS
<1>3. CASE x = b
  <2>1. batches'[x].status = status /\ batches'[x].memories = memories
    BY <1>1, <1>3 DEF Batch
  <2> QED BY <1>2, <2>1 DEF BatchStored
<1>4. CASE x # b
  <2>1. x \in DOMAIN batches /\ batches'[x] = batches[x]
    BY <1>1, <1>4
  <2> QED BY <1>2, <2>1 DEF BatchStored
<1> QED BY <1>3, <1>4

\* A copy of which nothing is left and nothing failed is stored.
LEMMA ThroughStored ==
  ASSUME NEW c, CopyStored(c), c.left = <<>>, ~c.failed
  PROVE  \A m \in ToSet(c.memories) : Stored(m.key)
<1>1. ToSet(c.left) = {}
  BY DEF ToSet
<1> QED BY <1>1 DEF CopyStored

\* A key is stored after the step.
StoredThen(key) == \E m \in DOMAIN entries' : entries'[m] = key

\* A run gets past its next memory, which is stored.
LEMMA AdvanceStored ==
  ASSUME MInv, CopiesAgree, StoredInv, NEW r \in Runs, Storing(r), UNCHANGED <<batches, task>>,
         work' = [work EXCEPT ![r] = Worked(r, Advanced(r))], StoredThen(NextMemory(r).key),
         \A x \in Runs \ {r} : work'[x] = <<>>,
         \A a \in BatchIds(task) : \A n \in MemoriesOf(task, a) : Stored(n.key) =>
           Stored(n.key)' \/ (a = CurrentCopy(r).id /\ n.slot = NextMemory(r).slot)
  PROVE  StoredInv'
<1> DEFINE c == CurrentCopy(r)
           next == NextMemory(r)
<1>1. /\ Current(r) \in DOMAIN work[r] /\ c \in ToSet(work[r]) /\ c \in CopyOf(task, c.id) /\ c.id \in BatchIds(task)
      /\ c.left # <<>>
  BY CurrentFits DEF CurrentCopy, ToSet
<1>2. CopyStored(c) /\ Agrees(c)
  BY <1>1 DEF StoredInv, CopiesAgree
<1>3. /\ c.memories \in ListsOf(task, c.id) /\ c.left \in Seq(MemoriesOf(task, c.id))
      /\ c.memories \in Seq(MemoriesOf(task, c.id)) /\ Sole(c.memories)
  BY <1>1 DEF CopyOf, ListsOf
<1>4. next = Head(c.left)
  BY NextFits
<1>5. ToSet(c.left) = ToSet(Tail(c.left)) \cup {next}
  BY <1>1, <1>3, <1>4, Headed
<1>6. ASSUME NEW x \in DOMAIN batches PROVE BatchStored(x)'
  <2> SUFFICES ASSUME batches[x].status = "consolidated", NEW m \in ToSet(batches[x].memories)
               PROVE  Stored(m.key)'
    BY DEF BatchStored
  <2>1. Stored(m.key)
    BY DEF StoredInv, BatchStored
  <2>2. x \in BatchIds(task) /\ batches[x] \in BatchRow(task, x)
    BY DEF MInv, MemoryTypeOK, MemoryTables
  <2>3. m \in MemoriesOf(task, x)
    <3>1. batches[x].memories \in Seq(MemoriesOf(task, x))
      BY <2>2 DEF BatchRow, ListsOf
    <3> QED BY <3>1 DEF ToSet
  <2>4. x # c.id
    BY <1>2 DEF Agrees
  <2> QED BY <2>1, <2>2, <2>3, <2>4
<1>7. ASSUME NEW d \in ToSet(work[r]), d.id # c.id PROVE CopyStored(d)'
  <2>1. CopyStored(d) /\ d \in Copies(task)
    <3>1. work[r] \in Seq(Copies(task))
      BY WorkOf
    <3> QED BY <3>1 DEF StoredInv, ToSet
  <2>2. d.id \in BatchIds(task) /\ d.memories \in Seq(MemoriesOf(task, d.id))
    BY <2>1, CopyFits DEF CopyOf, ListsOf
  <2>3. \A m \in ToSet(d.memories) : m \in MemoriesOf(task, d.id)
    BY <2>2 DEF ToSet
  <2>4. \A m \in ToSet(d.memories) : Stored(m.key) => Stored(m.key)'
    BY <1>7, <2>2, <2>3
  <2> QED BY <2>1, <2>4 DEF CopyStored
<1>8. ASSUME NEW d, d = Advanced(r) PROVE CopyStored(d)'
  <2>1. /\ d.memories = c.memories /\ d.left = Tail(c.left) /\ d.failed = c.failed
    BY <1>8, AdvancedFits
  <2>2. ToSet(Tail(c.left)) \subseteq ToSet(c.memories) /\ next \in ToSet(c.memories)
    BY <1>2, <1>5 DEF CopyStored
  <2>3. ASSUME NEW m \in ToSet(c.memories), ~c.failed
        PROVE  Stored(m.key)' \/ m \in ToSet(Tail(c.left))
    <3>1. m \in MemoriesOf(task, c.id)
      BY <1>3 DEF ToSet
    <3>2. m.slot = next.slot => m = next
      BY <1>3, <2>2 DEF Sole
    <3>3. Stored(m.key) \/ m \in ToSet(c.left)
      BY <1>2, <2>3 DEF CopyStored
    <3>4. m = next => Stored(m.key)'
      BY DEF StoredThen, Stored
    <3>5. Stored(m.key) => Stored(m.key)' \/ m.slot = next.slot
      BY <1>1, <3>1
    <3>6. m \in ToSet(c.left) => m = next \/ m \in ToSet(Tail(c.left))
      BY <1>5
    <3> QED BY <3>2, <3>3, <3>4, <3>5, <3>6
  <2> HIDE DEF c
  <2>4. \A m \in ToSet(c.memories) : ~c.failed => Stored(m.key)' \/ m \in ToSet(Tail(c.left))
    BY <2>3
  <2> QED BY <2>1, <2>2, <2>4 DEF CopyStored
<1>9. ASSUME NEW d \in ToSet(work'[r]) PROVE CopyStored(d)'
  <2>1. work'[r] = Worked(r, Advanced(r))
    BY DEF MInv, MemoryTypeOK
  <2>2. /\ DOMAIN Worked(r, Advanced(r)) = DOMAIN work[r] /\ Worked(r, Advanced(r))[Current(r)] = Advanced(r)
        /\ \A k \in DOMAIN work[r] \ {Current(r)} : Worked(r, Advanced(r))[k] = work[r][k]
    BY AdvancedFits, WorkedFits
  <2>3. PICK k \in DOMAIN work[r] : d = Worked(r, Advanced(r))[k]
    BY <2>1, <2>2 DEF ToSet
  <2>4. CASE k = Current(r)
    BY <1>8, <2>2, <2>3, <2>4
  <2>5. CASE k # Current(r)
    <3>1. d = work[r][k] /\ d \in ToSet(work[r])
      BY <2>2, <2>3, <2>5 DEF ToSet
    <3>2. d.id # c.id
      BY <1>1, <2>5, <3>1, WorkOf DEF Owned, CurrentCopy
    <3> QED BY <1>7, <3>1, <3>2
  <2> QED BY <2>4, <2>5
<1>10. ToSet(<<>>) = {}
  BY DEF ToSet
<1> QED BY <1>6, <1>9, <1>10 DEF StoredInv

LEMMA SubsetStored ==
  ASSUME StoredInv, NEW r \in Runs, \A x \in Runs \ {r} : work'[x] = <<>>, UNCHANGED entries,
         \A b \in DOMAIN batches' : BatchStored(b)', \A c \in ToSet(work'[r]) : CopyStored(c)
  PROVE  StoredInv'
<1>1. \A c \in ToSet(work'[r]) : CopyStored(c)'
  BY DEF CopyStored, Stored
<1>2. ToSet(<<>>) = {}
  BY DEF ToSet
<1> QED BY <1>1, <1>2 DEF StoredInv

LEMMA StoresStored ==
  ASSUME MInv, Unshared, CopiesAgree, StoredInv, NEW r \in Runs, Stores(r),
         \A x \in Runs \ {r} : work'[x] = <<>>
  PROVE  StoredInv'
<1>1. UNCHANGED <<batches, decision, at, task>> /\ Storing(r)
  BY StoringIs
<1>2. CASE UNCHANGED <<entries, work>>
  <2>1. \A b \in DOMAIN batches' : BatchStored(b)'
    BY <1>1, <1>2 DEF StoredInv, BatchStored, Stored
  <2> QED BY <1>2, <2>1, SubsetStored DEF StoredInv
<1>3. CASE GiveUp(r) /\ UNCHANGED entries
  <2>1. \A b \in DOMAIN batches' : BatchStored(b)'
    BY <1>1, <1>3 DEF StoredInv, BatchStored, Stored
  <2>2. /\ work'[r] = Worked(r, GivenUp(r)) /\ GivenUp(r).left = <<>> /\ GivenUp(r).failed = TRUE
        /\ DOMAIN Worked(r, GivenUp(r)) = DOMAIN work[r] /\ Worked(r, GivenUp(r))[Current(r)] = GivenUp(r)
        /\ \A k \in DOMAIN work[r] \ {Current(r)} : Worked(r, GivenUp(r))[k] = work[r][k]
    BY <1>1, <1>3, GiveUpIs, GivenUpFits, WorkedFits DEF MInv, MemoryTypeOK
  <2>3. ToSet(<<>>) = {}
    BY DEF ToSet
  <2>4. CopyStored(GivenUp(r))
    BY <2>2, <2>3 DEF CopyStored
  <2>5. ASSUME NEW d \in ToSet(work'[r]) PROVE CopyStored(d)
    <3>1. PICK k \in DOMAIN work[r] : d = Worked(r, GivenUp(r))[k]
      BY <2>2 DEF ToSet
    <3>2. work[r][k] \in ToSet(work[r])
      BY DEF ToSet
    <3> QED BY <2>2, <2>4, <3>1, <3>2 DEF StoredInv
  <2> QED BY <1>3, <2>1, <2>5, SubsetStored
<1>4. CASE Advance(r) /\ UNCHANGED entries /\ Stored(NextMemory(r).key)
  <2>1. work' = [work EXCEPT ![r] = Worked(r, Advanced(r))]
    BY <1>1, <1>4, AdvanceIs
  <2>2. \A key : Stored(key) => Stored(key)'
    BY <1>4 DEF Stored
  <2>3. StoredThen(NextMemory(r).key)
    BY <1>4 DEF Stored, StoredThen
  <2> QED BY <1>1, <2>1, <2>2, <2>3, AdvanceStored
<1>5. ASSUME Advance(r),
             entries' = Upsert(entries, <<CurrentCopy(r).id, NextMemory(r).slot>>, NextMemory(r).key)
      PROVE  StoredInv'
  <2> DEFINE b == CurrentCopy(r).id
             slot == NextMemory(r).slot
             key == NextMemory(r).key
  <2>1. work' = [work EXCEPT ![r] = Worked(r, Advanced(r))]
    BY <1>1, <1>5, AdvanceIs
  <2>2. b \in BatchIds(task) /\ slot \in Slots /\ key \in Keys(task, b, slot)
    BY <1>1, CurrentFits, NextFits
  <2>3. entries' = Upsert(entries, <<b, slot>>, key)
    BY <1>5
  <2> HIDE DEF b, slot, key
  <2>4. <<b, slot>> \in DOMAIN entries' /\ entries'[<<b, slot>>] = key
    BY <1>1, <2>2, <2>3, PutStores
  <2>5. StoredThen(key)
    BY <2>4 DEF StoredThen
  <2>6. ASSUME NEW a \in BatchIds(task), NEW n \in MemoriesOf(task, a), Stored(n.key)
        PROVE  Stored(n.key)' \/ (a = b /\ n.slot = slot)
    BY <1>1, <2>2, <2>3, <2>6, KeyReplaced
  <2> QED BY <1>1, <2>1, <2>5, <2>6, AdvanceStored DEF b, slot, key
<1>6. \/ UNCHANGED <<entries, work>>
      \/ GiveUp(r) /\ UNCHANGED entries
      \/ Advance(r) /\ UNCHANGED entries /\ Stored(NextMemory(r).key)
      \/ Advance(r) /\ entries' = Upsert(entries, <<CurrentCopy(r).id, NextMemory(r).slot>>, NextMemory(r).key)
  BY DEF Stores, Look, PutNext, PutFails, Put, CurrentCopy
<1> QED BY <1>2, <1>3, <1>4, <1>5, <1>6

LEMMA StoredStep ==
  ASSUME MInv, ~task.overlap, Unshared, Latest, CopiesAgree, StoredInv, NEW r \in Runs, RunStep(r)
  PROVE  StoredInv'
<1>1. \A x \in Runs \ {r} : work'[x] = <<>>
  BY Lone, StepIs
<1>2. ToSet(<<>>) = {}
  BY DEF ToSet
<1>3. \A x \in DOMAIN batches : BatchStored(x)
  BY DEF StoredInv
<1>4. DOMAIN work = Runs
  BY DEF MInv, MemoryTypeOK
<1>5. CASE Stores(r)
  BY <1>1, <1>5, StoresStored
<1>6. CASE Idle(r)
  <2>1. \A c \in ToSet(work'[r]) : CopyStored(c)
    BY <1>2, <1>6, IdleIs
  <2>2. UNCHANGED entries
    BY <1>6 DEF Idle, StageTranscript, StageTranslation, SkipTranslation, Decide, AbandonDrain, EndDrain,
         EndEvaluation, RunDies, Rest
  <2>3. CASE UNCHANGED batches
    <3>1. \A b \in DOMAIN batches' : BatchStored(b)'
      BY <1>3, <2>2, <2>3 DEF BatchStored, Stored
    <3> QED BY <1>1, <2>1, <2>2, <3>1, SubsetStored
  <2>4. ASSUME NEW b, NEW memories, SaveBatch(b, Batch("pending", memories)) PROVE StoredInv'
    <3>1. \A x \in DOMAIN batches' : BatchStored(x)'
      BY <1>3, <2>2, <2>4, SavedStored
    <3> QED BY <1>1, <2>1, <2>2, <3>1, SubsetStored
  <2>5. CASE EndEvaluation(r) /\ ~UNCHANGED batches
    <3> DEFINE c == work[r][1]
    <3>1. /\ at[r] = "evaluating" /\ Current(r) = 0 /\ ~c.failed
          /\ SaveBatch(c.id, Batch("consolidated", c.memories))
      BY <2>5 DEF EndEvaluation, Move
    <3>2. 1 \in DOMAIN work[r]
      BY <3>1, WorkOf DEF Owned
    <3>3. c.left = <<>> /\ c \in ToSet(work[r])
      BY <3>1, <3>2, WorkOf, CurrentIs DEF MInv, ToSet
    <3> HIDE DEF c
    <3>4. \A m \in ToSet(c.memories) : Stored(m.key)
      BY <3>1, <3>3, ThroughStored DEF StoredInv
    <3>5. \A x \in DOMAIN batches' : BatchStored(x)'
      BY <1>3, <2>2, <3>1, <3>4, SavedStored
    <3> QED BY <1>1, <2>1, <2>2, <3>5, SubsetStored
  <2>6. CASE StageTranscript(r)
    BY <2>4, <2>6 DEF StageTranscript
  <2>7. CASE StageTranslation(r)
    BY <2>4, <2>7 DEF StageTranslation
  <2>8. \/ UNCHANGED batches \/ EndEvaluation(r) \/ StageTranscript(r) \/ StageTranslation(r)
    BY <1>6 DEF Idle, SkipTranslation, Decide, AbandonDrain, EndDrain, RunDies
  <2> QED BY <2>3, <2>5, <2>6, <2>7, <2>8
<1>7. CASE StageEvaluation(r)
  <2> DEFINE b == <<"evaluation", r>>
             c(memories) == [id |-> b, memories |-> memories, left |-> memories, failed |-> FALSE]
  <2>1. UNCHANGED entries
    BY <1>7 DEF StageEvaluation, Rest
  <2>2. PICK memories : /\ SaveBatch(b, Batch("pending", memories))
                        /\ work' = [work EXCEPT ![r] = <<c(memories)>>]
    BY <1>7 DEF StageEvaluation
  <2>3. \A x \in DOMAIN batches' : BatchStored(x)'
    BY <1>3, <2>1, <2>2, SavedStored
  <2> DEFINE copy == c(memories)
  <2>4. copy.left = copy.memories
    OBVIOUS
  <2> HIDE DEF c, copy
  <2>5. CopyStored(copy)
    BY <2>4 DEF CopyStored
  <2>6. ToSet(work'[r]) = {copy}
    <3>1. ToSet(<<copy>>) = {copy}
      BY DEF ToSet
    <3> QED BY <1>4, <2>2, <3>1 DEF copy
  <2> QED BY <1>1, <2>1, <2>3, <2>5, <2>6, SubsetStored
<1>8. CASE StartDrain(r)
  <2> DEFINE w == [k \in DOMAIN ToDrain(r) |-> Copy(ToDrain(r)[k])]
  <2>1. work' = [work EXCEPT ![r] = w] /\ UNCHANGED <<batches, entries>>
    BY <1>8 DEF StartDrain, Rest
  <2>2. work'[r] = w
    BY <1>4, <2>1
  <2>3. \A k \in DOMAIN w : CopyStored(w[k])
    BY DEF CopyStored, Copy
  <2> HIDE DEF w
  <2>4. \A c \in ToSet(work'[r]) : CopyStored(c)
    BY <2>2, <2>3 DEF ToSet
  <2>5. \A b \in DOMAIN batches' : BatchStored(b)'
    BY <1>3, <2>1 DEF BatchStored, Stored
  <2> QED BY <1>1, <2>1, <2>4, <2>5, SubsetStored
<1>9. CASE SaveOutcome(r)
  <2> DEFINE c == Head(work[r])
  <2>1. /\ c \in ToSet(work[r]) /\ Current(r) = 0 /\ UNCHANGED entries
        /\ \E result \in {Outcome(c), "failed"} : SaveBatch(c.id, Batch(result, c.memories))
        /\ ToSet(work[r]) = ToSet(work'[r]) \cup {c}
    BY <1>9, OutcomeSaved
  <2>2. \A d \in ToSet(work[r]) : CopyStored(d)
    BY DEF StoredInv
  <2>3. c.left = <<>>
    <3>1. \A k \in DOMAIN work[r] : work[r][k].left = <<>>
      BY <2>1, WorkOf, CurrentIs DEF MInv
    <3> QED BY <2>1, <3>1 DEF ToSet
  <2> HIDE DEF c
  <2>4. PICK result \in {Outcome(c), "failed"} : SaveBatch(c.id, Batch(result, c.memories))
    BY <2>1
  <2>5. result = "consolidated" => \A m \in ToSet(c.memories) : Stored(m.key)
    <3>1. result = "consolidated" => ~c.failed
      BY <2>4 DEF Outcome
    <3> QED BY <2>1, <2>2, <2>3, <3>1, ThroughStored
  <2>6. \A x \in DOMAIN batches' : BatchStored(x)'
    BY <1>3, <2>1, <2>4, <2>5, SavedStored
  <2>7. \A d \in ToSet(work'[r]) : CopyStored(d)
    BY <2>1, <2>2
  <2> QED BY <1>1, <2>1, <2>6, <2>7, SubsetStored
<1> QED BY <1>5, <1>6, <1>7, <1>8, <1>9, KindsOfStep

----------------------------------------------------------------------------
(* The theorems.                                                           *)

MemoryPInv == MInv /\ StagedShape /\ MemoryAloneInv

LEMMA PInvInit == MemoryInit => MemoryPInv
<1> SUFFICES ASSUME MemoryInit PROVE MemoryPInv
  OBVIOUS
<1>1. MInv
  BY InitShape
<1>2. /\ DOMAIN batches = {} /\ \A r \in Runs : at[r] = "new" /\ work[r] = <<>>
      /\ DOMAIN task.jobs \subseteq Runs
  BY MemoryAssumption DEF MemoryInit
<1>3. ToSet(<<>>) = {}
  BY DEF ToSet
<1>4. Latest /\ DrainsPending /\ NonePending /\ PendingUnderWay
  BY <1>2 DEF Latest, Busy, DrainsPending, NonePending, LastOfJob, PendingUnderWay, Pending
<1>5. CopiesAgree /\ TellsDecision /\ StoredInv
  BY <1>2, <1>3 DEF CopiesAgree, TellsDecision, StoredInv
<1>6. StagedShape
  BY DEF MemoryInit, StagedShape
<1> QED BY <1>1, <1>4, <1>5, <1>6 DEF MemoryPInv, MemoryAloneInv

LEMMA PInvStep == MemoryPInv /\ [MemoryNext]_memoryVars => MemoryPInv'
<1> SUFFICES ASSUME MemoryPInv, [MemoryNext]_memoryVars PROVE MemoryPInv'
  OBVIOUS
<1>1. MInv /\ MInv' /\ StagedShape /\ MemoryAloneInv
  BY StepShape DEF MemoryPInv
<1>2. ASSUME NEW r \in Runs, RunStep(r) PROVE StagedShape' /\ MemoryAloneInv'
  <2>1. task' = task
    BY <1>1, <1>2, StepIs
  <2>2. Unshared' <=> Unshared
    BY <2>1 DEF Unshared
  <2> SUFFICES ASSUME ~task.overlap
               PROVE  /\ Latest' /\ CopiesAgree' /\ DrainsPending' /\ NonePending' /\ PendingUnderWay'
                      /\ TellsDecision'
                      /\ Unshared => StoredInv'
    <3>1. StagedShape'
      BY <1>1, <1>2, StagedIs
    <3> QED BY <2>1, <2>2, <3>1 DEF MemoryAloneInv
  <2>3. /\ Latest /\ CopiesAgree /\ DrainsPending /\ NonePending /\ PendingUnderWay /\ TellsDecision
        /\ Unshared => StoredInv
    BY <1>1 DEF MemoryAloneInv
  <2>4. Latest' /\ CopiesAgree'
    BY <1>1, <1>2, <2>3, LatestStep, CopiesAgreeStep
  <2>5. DrainsPending' /\ NonePending' /\ PendingUnderWay'
    BY <1>1, <1>2, <2>3, DrainsPendingStep, NonePendingStep, PendingUnderWayStep
  <2>6. TellsDecision'
    BY <1>1, <1>2, <2>3, TellsDecisionStep
  <2>7. Unshared => StoredInv'
    BY <1>1, <1>2, <2>3, StoredStep
  <2> QED BY <2>4, <2>5, <2>6, <2>7
<1>3. CASE UNCHANGED memoryVars
  <2>1. /\ batches' = batches /\ entries' = entries /\ at' = at /\ work' = work /\ task' = task
        /\ decision' = decision /\ staged' = staged
    BY <1>3 DEF memoryVars
  <2>2. Latest => Latest'
    BY <2>1 DEF Latest, Busy
  <2>3. CopiesAgree => CopiesAgree'
    BY <2>1 DEF CopiesAgree, Agrees
  <2>4. DrainsPending => DrainsPending'
    BY <2>1 DEF DrainsPending, Pending, JobOf
  <2>5. NonePending => NonePending'
    <3> SUFFICES ASSUME NonePending, NEW y \in DOMAIN task.jobs, LastOfJob(y)'
                 PROVE  (Pending(JobOf(y)) \cap staged[y])' = {}
      BY <2>1 DEF NonePending
    <3>1. LastOfJob(y)
      BY <2>1 DEF LastOfJob, LaterRuns, JobOf
    <3>2. Pending(JobOf(y))' = Pending(JobOf(y))
      BY <2>1 DEF Pending, JobOf
    <3> QED BY <2>1, <3>1, <3>2 DEF NonePending
  <2>6. TellsDecision => TellsDecision'
    BY <2>1 DEF TellsDecision, TranslationMemories, Memory, JobOf
  <2>7. StoredInv => StoredInv'
    BY <2>1 DEF StoredInv, BatchStored, CopyStored, Stored
  <2>8. Unshared' => Unshared
    BY <2>1 DEF Unshared
  <2>9. StagedShape'
    BY <1>1, <2>1 DEF StagedShape
  <2>10. PendingUnderWay => PendingUnderWay'
    BY <2>1 DEF PendingUnderWay, NoLoss, Pending, Busy, JobOf
  <2> QED BY <1>1, <2>1, <2>2, <2>3, <2>4, <2>5, <2>6, <2>7, <2>8, <2>9, <2>10 DEF MemoryPInv, MemoryAloneInv
<1> QED BY <1>1, <1>2, <1>3, StepOf DEF MemoryPInv

LEMMA MemoryInvariant == MemorySpec => []MemoryPInv
<1> QED BY PInvInit, PInvStep, PTL DEF MemorySpec

\* What a batch calls consolidated is in the memory store: no store of another run replaces
\* its memories, a rerun that stages other ones makes the batch pending again, and a batch
\* of which a memory could not be stored is not saved as consolidated
\* (memory_pipeline.py drain_background_memory).
THEOREM ConsolidatedStored == MemorySpec => []ConsolidatedIsStored
<1>1. MemoryPInv => ConsolidatedIsStored
  <2> SUFFICES ASSUME MemoryPInv, ~task.overlap, Unshared, NEW b \in DOMAIN batches,
                      batches[b].status = "consolidated", NEW k \in DOMAIN batches[b].memories
               PROVE  Stored(batches[b].memories[k].key)
    BY DEF ConsolidatedIsStored, AllStored
  <2>1. BatchStored(b)
    BY DEF MemoryPInv, MemoryAloneInv, StoredInv
  <2>2. batches[b].memories[k] \in ToSet(batches[b].memories)
    BY DEF ToSet
  <2> QED BY <2>1, <2>2 DEF BatchStored
<1> QED BY <1>1, MemoryInvariant, PTL

\* A run that ends has saved an outcome for every batch it has staged itself. While no run
\* of its job has died or abandoned its drain, nothing of the job is pending when the last
\* of them has ended, and the translation batch tells of the decision that stands: nobody
\* decides without staging it (memory_pipeline.py background_memory_pipeline and
\* drain_background_memory).
THEOREM JobSettled == MemorySpec => []Settled
<1>1. MemoryPInv => Settled
  <2> SUFFICES ASSUME MemoryPInv, ~task.overlap, NEW r \in DOMAIN task.jobs, LastOfJob(r)
               PROVE  LET j == JobOf(r)
                          b == <<"translation", j>>
                      IN  /\ \A own \in DOMAIN batches :
                               own[2] = j /\ own[1] # "evaluation" /\ (own \in staged[r] \/ NoneDied(j))
                                 => batches[own].status # "pending"
                          /\ (NoneDied(j) /\ b \in DOMAIN batches) =>
                               batches[b].memories = TranslationMemories(j, decision[j])
    BY DEF Settled
  <2>1. NonePending /\ PendingUnderWay /\ TellsDecision /\ JobOf(r) \in Jobs
    BY MemoryAssumption DEF MemoryPInv, MInv, MemoryTypeOK, MemoryAloneInv, JobOf
  <2>2. Pending(JobOf(r)) \cap staged[r] = {}
    BY <2>1 DEF NonePending
  <2>3. NoneDied(JobOf(r)) => Pending(JobOf(r)) = {}
    <3> SUFFICES ASSUME NoneDied(JobOf(r)), NEW own \in Pending(JobOf(r)) PROVE FALSE
      OBVIOUS
    <3>1. NoLoss(JobOf(r))
      BY DEF NoneDied, NoLoss
    <3>2. PICK x \in Busy : JobOf(x) = JobOf(r)
      BY <2>1, <3>1 DEF PendingUnderWay
    <3>3. x \in DOMAIN task.jobs /\ at[x] \notin {"new", "ended"}
      BY Started DEF Busy, MemoryPInv
    <3> QED BY <3>2, <3>3 DEF NoneDied
  <2>4. ASSUME NEW own \in DOMAIN batches, own[2] = JobOf(r), own[1] # "evaluation",
               own \in staged[r] \/ NoneDied(JobOf(r))
        PROVE  batches[own].status # "pending"
    <3>1. own \in BatchIds(task)
      BY DEF MemoryPInv, MInv, MemoryTypeOK, MemoryTables
    <3>2. own[1] \in GraphStages
      BY <2>4, <3>1 DEF BatchIds
    <3> QED BY <2>2, <2>3, <2>4, <3>2 DEF Pending
  <2>5. NoneDied(JobOf(r)) => \A x \in DOMAIN task.jobs : JobOf(x) = JobOf(r) => at[x] \notin {"decided", "dead"}
    BY DEF NoneDied
  <2>6. (NoneDied(JobOf(r)) /\ <<"translation", JobOf(r)>> \in DOMAIN batches) =>
          batches[<<"translation", JobOf(r)>>].memories = TranslationMemories(JobOf(r), decision[JobOf(r)])
    BY <2>1, <2>5 DEF TellsDecision
  <2> QED BY <2>4, <2>6
<1> QED BY <1>1, MemoryInvariant, PTL

-----------------------------------------------------------------------------
(* The life of prompt proposals.                                           *)

RowStatuses == {"proposed", "canary", "active"} \cup Retired
Modes == {"control", "canary", "active"}
Rows == [project : Projects, medium : Media \cup {NoMedium}, status : RowStatuses, pair : BOOLEAN]
Links == [scope : {"own", "pair", "other"}, mode : Modes]
Reviews == [run : Runs, project : Projects, verdict : Verdicts, mode : Modes]
Writes == [at : {"blob", "db"}, id : Ids, row : Rows]

\* The phases of a run before it has decided what to write in its evaluation, those of its
\* review, and those in which it has no translation on record.
Early == {"new", "selecting", "translating", "evaluating"}
Reviewed == {"waiting", "learning", "linking"}
Unlinked == {"new", "selecting", "translating"} \cup Reviewed

PromptTypeOK ==
    /\ db \in [Ids -> Rows \cup {NoRow}]
    /\ blob \in [Ids -> Rows \cup {NoRow}]
    /\ links \in [Runs -> Links \cup {NoLink}]
    /\ resolutions \in Seq(Reviews)
    /\ pc \in [Runs -> Early \cup Unlinked \cup {"regenerating", "draining", "ending", "ended"}]
    /\ overlay \in [Runs -> [scope : {"own", "pair"}, mode : Modes, ids : SUBSET Ids]]
    /\ outcome \in [Runs -> {"none", "low", "medium", "elsewhere", "human"}]
    /\ todo \in [Runs -> Seq(Writes)]
    /\ workload \in Workloads

\* A row that may be stored under id i.
Good(i, row) ==
    row # NoRow =>
        /\ (row.medium = NoMedium) <=> (i = Feedback)
        /\ Earned(row) /\ PairEarned(row)

\* Nobody writes the proposal of an evaluation that has not decided yet.
Unevaluated(r) ==
    /\ db[<<"evaluation", r>>] = NoRow
    /\ \A x \in Runs : \A k \in DOMAIN todo[x] : todo[x][k].id # <<"evaluation", r>>

RunInv(r) ==
    /\ pc[r] = "new" => todo[r] = <<>>
    /\ pc[r] # "new" => r \in DOMAIN workload.jobs
    /\ (pc[r] \in Unlinked \/ outcome[r] = "human") => links[r] = NoLink
    /\ pc[r] \in Reviewed => outcome[r] # "human"
    /\ pc[r] \in Early => Unevaluated(r)
    /\ \A k \in DOMAIN todo[r] : Good(todo[r][k].id, todo[r][k].row)

\* What holds however the runs overlap.
Sound ==
    /\ PromptTypeOK
    /\ \A i \in Ids : Good(i, db[i]) /\ Good(i, blob[i])
    /\ \A r \in Runs : RunInv(r)

\* The active proposals that stand in the way of a row: those of its medium and project.
Rivals(i, row) ==
    {j \in Ids \ {i} : /\ db[j] # NoRow /\ db[j].status = "active"
                       /\ db[j].medium = row.medium /\ db[j].project = row.project}

\* A write that brings a retired proposal back proposes anew that of a job.
ComesBackAsNew(w) ==
    (w.id # Feedback /\ w.row.status \notin Retired /\ db[w.id].status \in Retired) =>
        /\ w.id[1] = "mainline"
        /\ IF w.at = "blob" THEN w.row.status = "proposed" ELSE blob[w.id].status = "proposed"

\* The writes of a plan touch different proposals; what becomes active is written last,
\* after its rivals are superseded.
PlanInv(plan) ==
    /\ \A k, l \in DOMAIN plan : plan[k].id = plan[l].id => k = l
    /\ \A k \in DOMAIN plan : plan[k].row.status = "active" => k = Len(plan)
    /\ \A k \in DOMAIN plan : (plan[k].row.status = "active" /\ plan[k].row.medium # NoMedium) =>
          \A j \in Rivals(plan[k].id, plan[k].row) :
             \E m \in DOMAIN plan : plan[m].id = j /\ plan[m].row.status # "active"
    /\ \A k \in DOMAIN plan : ComesBackAsNew(plan[k])

OneActive ==
    \A i \in Ids : (db[i] # NoRow /\ db[i].status = "active" /\ db[i].medium # NoMedium) => Rivals(i, db[i]) = {}

\* What holds when no run reads between another's reading and writing.
Serial ==
    /\ \A r, x \in Runs : (todo[r] # <<>> /\ todo[x] # <<>>) => r = x
    /\ OneActive
    /\ \A r \in Runs : PlanInv(todo[r])

PInv == Sound /\ (~workload.racing => Serial)

-----------------------------------------------------------------------------
(* Evidence only grows.                                                    *)

\* What a step does to the evidence: links are set once, resolutions appended.
EvidenceKept ==
    /\ workload' = workload
    /\ \A x \in Runs : links'[x] = links[x] \/ links[x] = NoLink
    /\ resolutions' = resolutions \/ \E e \in Reviews : resolutions' = Append(resolutions, e)

LEMMA ReviewsStay ==
  ASSUME PromptTypeOK, EvidenceKept
  PROVE  /\ DOMAIN resolutions \subseteq DOMAIN resolutions'
         /\ \A k \in DOMAIN resolutions : resolutions'[k] = resolutions[k]
         /\ resolutions' \in Seq(Reviews)
<1>1. resolutions \in Seq(Reviews)
  BY DEF PromptTypeOK
<1>2. CASE resolutions' = resolutions
  BY <1>1, <1>2
<1>3. ASSUME NEW e \in Reviews, resolutions' = Append(resolutions, e)
      PROVE  /\ DOMAIN resolutions \subseteq DOMAIN resolutions'
             /\ \A k \in DOMAIN resolutions : resolutions'[k] = resolutions[k]
             /\ resolutions' \in Seq(Reviews)
  BY <1>1, <1>3, AppendProperties
<1> QED BY <1>2, <1>3 DEF EvidenceKept

LEMMA SequenceIsFinite ==
  ASSUME NEW s \in Seq(Reviews)
  PROVE  IsFiniteSet(DOMAIN s)
<1>1. DOMAIN s = 1..Len(s) /\ Len(s) \in Nat
  OBVIOUS
<1> QED BY <1>1, FS_Interval

LEMMA ArmsGrow ==
  ASSUME PromptTypeOK, EvidenceKept, NEW modes
  PROVE  /\ Cardinality(Arm(resolutions, modes)) \in Nat
         /\ Cardinality(Arm(resolutions', modes)) \in Nat
         /\ Cardinality(Arm(resolutions, modes)) <= Cardinality(Arm(resolutions', modes))
<1>1. /\ DOMAIN resolutions \subseteq DOMAIN resolutions'
      /\ \A k \in DOMAIN resolutions : resolutions'[k] = resolutions[k]
      /\ resolutions' \in Seq(Reviews)
  BY ReviewsStay
<1>2. Arm(resolutions, modes) \subseteq Arm(resolutions', modes)
  BY <1>1 DEF Arm
<1>3. IsFiniteSet(DOMAIN resolutions')
  BY <1>1, SequenceIsFinite
<1>4. Arm(resolutions', modes) \subseteq DOMAIN resolutions'
  BY DEF Arm
<1>5. IsFiniteSet(Arm(resolutions', modes))
  BY <1>3, <1>4, FS_Subset
<1>6. /\ IsFiniteSet(Arm(resolutions, modes))
      /\ Cardinality(Arm(resolutions, modes)) <= Cardinality(Arm(resolutions', modes))
  BY <1>2, <1>5, FS_Subset
<1> QED BY <1>5, <1>6, FS_CardinalityType

LEMMA ProjectsAreFinite == IsFiniteSet(Projects)
<1> DEFINE f == [j \in Jobs |-> ProjectOf[j]]
<1>1. f \in Surjection(Jobs, Projects)
  BY DEF Surjection, Projects
<1>2. IsFiniteSet(Jobs)
  BY PromptAssumption
<1> HIDE DEF f
<1> QED BY <1>1, <1>2, FS_Surjection

LEMMA ProjectsGrow ==
  ASSUME PromptTypeOK, EvidenceKept
  PROVE  LET before == {resolutions[k].project : k \in InFavour(resolutions)}
             after == {resolutions'[k].project : k \in InFavour(resolutions')}
         IN  /\ Cardinality(before) \in Nat /\ Cardinality(after) \in Nat
             /\ Cardinality(before) <= Cardinality(after)
<1> DEFINE before == {resolutions[k].project : k \in InFavour(resolutions)}
           after == {resolutions'[k].project : k \in InFavour(resolutions')}
<1>1. /\ DOMAIN resolutions \subseteq DOMAIN resolutions'
      /\ \A k \in DOMAIN resolutions : resolutions'[k] = resolutions[k]
      /\ resolutions' \in Seq(Reviews)
  BY ReviewsStay
<1>2. before \subseteq after
  BY <1>1 DEF InFavour
<1>3. IsFiniteSet(after)
  <2>1. IsFiniteSet(Projects)
    BY ProjectsAreFinite
  <2>2. after \subseteq Projects
    <3> SUFFICES ASSUME NEW k \in InFavour(resolutions') PROVE resolutions'[k].project \in Projects
      OBVIOUS
    <3>1. k \in DOMAIN resolutions'
      BY DEF InFavour
    <3>2. resolutions'[k] \in Reviews
      BY <1>1, <3>1
    <3> QED BY <3>2 DEF Reviews
  <2> QED BY <2>1, <2>2, FS_Subset
<1>4. IsFiniteSet(before) /\ Cardinality(before) <= Cardinality(after)
  BY <1>2, <1>3, FS_Subset
<1> QED BY <1>3, <1>4, FS_CardinalityType

LEMMA RunsGrow ==
  ASSUME PromptTypeOK, EvidenceKept, NEW p, NEW m
  PROVE  /\ Tried(p, m) \subseteq Tried(p, m)' /\ Compared(p, m) \subseteq Compared(p, m)'
         /\ Cardinality(Tried(p, m)) \in Nat /\ Cardinality(Tried(p, m)') \in Nat
         /\ Cardinality(Tried(p, m)) <= Cardinality(Tried(p, m)')
         /\ Cardinality(Compared(p, m)) \in Nat /\ Cardinality(Compared(p, m)') \in Nat
         /\ Cardinality(Compared(p, m)) <= Cardinality(Compared(p, m)')
<1>1. OwnLinks(p, m) \subseteq OwnLinks(p, m)'
  BY DEF EvidenceKept, OwnLinks, Project, Medium, Job
<1>2. \A x \in OwnLinks(p, m) : links'[x] = links[x]
  BY DEF EvidenceKept, OwnLinks
<1>3. Tried(p, m) \subseteq Tried(p, m)' /\ Compared(p, m) \subseteq Compared(p, m)'
  BY <1>1, <1>2 DEF Tried, Compared
<1>4. Tried(p, m)' \subseteq Runs /\ Compared(p, m)' \subseteq Runs
  BY DEF Tried, Compared, OwnLinks
<1>5. IsFiniteSet(Tried(p, m)') /\ IsFiniteSet(Compared(p, m)')
  BY <1>4, RunsAssumption, FS_Subset
<1>6. /\ IsFiniteSet(Tried(p, m)) /\ Cardinality(Tried(p, m)) <= Cardinality(Tried(p, m)')
      /\ IsFiniteSet(Compared(p, m)) /\ Cardinality(Compared(p, m)) <= Cardinality(Compared(p, m)')
  BY <1>3, <1>5, FS_Subset
<1> QED BY <1>3, <1>5, <1>6, FS_CardinalityType

LEMMA GoodStays ==
  ASSUME PromptTypeOK, EvidenceKept, NEW i, NEW row, Good(i, row)
  PROVE  Good(i, row)'
<1> SUFFICES ASSUME row # NoRow PROVE Earned(row)' /\ PairEarned(row)'
  BY DEF Good
<1>1. Earned(row) /\ PairEarned(row)
  BY DEF Good
<1>2. /\ MinCanaryRuns \in Nat /\ MinPairRuns \in Nat /\ MinArm \in Nat /\ MinProjects \in Nat
  BY PromptAssumption
<1>3. Earned(row)'
  BY <1>1, <1>2, ArmsGrow, RunsGrow DEF Earned
<1>4. PairEarned(row)'
  BY <1>1, <1>2, ProjectsGrow, RunsGrow DEF PairEarned
<1> QED BY <1>3, <1>4

LEMMA GoodRowsStay ==
  ASSUME Sound, EvidenceKept, db' = db, blob' = blob
  PROVE  \A i \in Ids : Good(i, db[i])' /\ Good(i, blob[i])'
<1>1. \A i, row : Good(i, row) => Good(i, row)'
  BY GoodStays DEF Sound
<1> QED BY <1>1 DEF Sound

-----------------------------------------------------------------------------
(* What a run may plan to write.                                           *)

\* Run r may write what an evaluation of run x proposes, if one of x has decided.
MayWrite(r, w) ==
    \A x \in Runs : w.id = <<"evaluation", x>> => pc[x] \notin Early \/ (x = r /\ pc[r] = "evaluating")

PlanSafe(r, plan) ==
    /\ plan \in Seq(Writes)
    /\ \A k \in DOMAIN plan : Good(plan[k].id, plan[k].row) /\ MayWrite(r, plan[k])

PlanOk(r, plan) == PlanSafe(r, plan) /\ PlanInv(plan)

LEMMA NothingPlanned ==
  ASSUME NEW r
  PROVE  PlanOk(r, <<>>)
BY DEF PlanOk, PlanSafe, PlanInv

\* A plan of one write, which makes nothing of a medium active.
LEMMA OneWrite ==
  ASSUME NEW r, NEW w \in Writes, Good(w.id, w.row),
         w.row.status # "active" \/ w.row.medium = NoMedium,
         MayWrite(r, w), ComesBackAsNew(w)
  PROVE  PlanOk(r, <<w>>)
<1>1. /\ <<w>> \in Seq(Writes) /\ DOMAIN <<w>> = {1} /\ <<w>>[1] = w /\ Len(<<w>>) = 1
  OBVIOUS
<1>2. PlanInv(<<w>>)
  BY <1>1 DEF PlanInv
<1> QED BY <1>1, <1>2 DEF PlanOk, PlanSafe

LEMMA RowChange ==
  ASSUME NEW row \in Rows, NEW st \in RowStatuses
  PROVE  LET changed == [row EXCEPT !.status = st]
         IN  /\ changed \in Rows /\ changed.status = st /\ changed.pair = row.pair
             /\ changed.medium = row.medium /\ changed.project = row.project
             /\ changed # NoRow
BY DEF Rows, NoRow, RowStatuses, Retired

LEMMA StoredRow ==
  ASSUME Sound, NEW i \in Ids, NEW row \in {db[i], blob[i]}, row # NoRow
  PROVE  /\ row \in Rows /\ Good(i, row)
         /\ (row.medium = NoMedium) <=> (i = Feedback)
         /\ Earned(row) /\ PairEarned(row)
BY DEF Sound, PromptTypeOK, Good

\* A stored row may change its status to one that needs no evidence.
LEMMA ChangedIsGood ==
  ASSUME Sound, NEW i \in Ids, NEW row \in {db[i], blob[i]}, row # NoRow,
         NEW st \in RowStatuses \ {"active"}
  PROVE  /\ [row EXCEPT !.status = st] \in Rows
         /\ [row EXCEPT !.status = st].status = st
         /\ Good(i, [row EXCEPT !.status = st])
<1> DEFINE changed == [row EXCEPT !.status = st]
<1>1. /\ row \in Rows /\ ((row.medium = NoMedium) <=> (i = Feedback)) /\ PairEarned(row)
  BY StoredRow
<1>2. /\ changed \in Rows /\ changed.status = st /\ changed.pair = row.pair
      /\ changed.medium = row.medium /\ changed.project = row.project
      /\ changed # NoRow
  BY <1>1, RowChange
<1> HIDE DEF changed
<1>3. PairEarned(changed)
  BY <1>1, <1>2 DEF PairEarned
<1>4. Earned(changed)
  BY <1>2 DEF Earned
<1>5. Good(i, changed)
  BY <1>1, <1>2, <1>3, <1>4 DEF Good
<1> QED BY <1>2, <1>5 DEF changed

LEMMA JobFacts ==
  ASSUME Sound, NEW r \in DOMAIN workload.jobs
  PROVE  Job(r) \in Jobs /\ Project(r) \in Projects /\ Medium(r) \in Media /\ Medium(r) # NoMedium
BY PromptAssumption DEF Sound, PromptTypeOK, Job, Project, Medium, Projects, Media

\* The resolver plans one promotion at most, of a proposal that is not an evaluation's.
LEMMA PromotionsOk ==
  ASSUME Sound, NEW r \in DOMAIN workload.jobs,
         NEW plan \in Promotions(Project(r), Medium(r))
  PROVE  PlanOk(r, plan)
<1> DEFINE p == Project(r)
           m == Medium(r)
<1>1. CASE plan = <<>>
  BY <1>1, NothingPlanned
<1>2. ASSUME NEW i \in Matching(p, m, "proposed"), i[1] # "evaluation",
             plan = <<[at |-> "db", id |-> i,
                       row |-> [RowOf(i, p, m, "proposed") EXCEPT !.status = "canary"]]>>
      PROVE  PlanOk(r, plan)
  <2> DEFINE row == RowOf(i, p, m, "proposed")
             w == [at |-> "db", id |-> i, row |-> [row EXCEPT !.status = "canary"]]
  <2>1. i \in Ids
    BY DEF Matching, InDb, InFiles
  <2>2. row \in {db[i], blob[i]} /\ row # NoRow
    BY <1>2 DEF Matching, InDb, InFiles, RowOf, Matches
  <2>3. db[i].status \in Retired => blob[i].status = "proposed"
    BY <1>2 DEF Matching, InDb, InFiles, Retired
  <2>4. "canary" \in RowStatuses \ {"active"}
    BY DEF RowStatuses
  <2> HIDE DEF row
  <2>5. /\ [row EXCEPT !.status = "canary"] \in Rows
        /\ [row EXCEPT !.status = "canary"].status = "canary"
        /\ Good(i, [row EXCEPT !.status = "canary"])
    BY <2>1, <2>2, <2>4, ChangedIsGood
  <2>6. w \in Writes /\ w.id = i /\ w.row.status = "canary" /\ w.at = "db"
    BY <2>1, <2>5 DEF Writes
  <2>7. Good(w.id, w.row)
    BY <2>5
  <2>8. plan = <<w>>
    BY <1>2 DEF row
  <2> HIDE DEF w
  <2>9. ComesBackAsNew(w)
    <3>1. i \in {<<"feedback", 0>>} \/ i[1] = "mainline" \/ i[1] = "evaluation"
      BY <2>1 DEF Ids
    <3> QED BY <1>2, <2>3, <2>6, <3>1 DEF ComesBackAsNew, Feedback
  <2>10. MayWrite(r, w)
    BY <1>2, <2>6 DEF MayWrite
  <2>11. PlanOk(r, <<w>>)
    BY <2>6, <2>7, <2>9, <2>10, OneWrite
  <2> QED BY <2>8, <2>11
<1> QED BY <1>1, <1>2 DEF Promotions

\* A finite set as a sequence: every element has one place.
LEMMA SetInSequence ==
  ASSUME NEW S, IsFiniteSet(S)
  PROVE  LET order == SetToSeq(S)
         IN  /\ order \in [1..Cardinality(S) -> S] /\ DOMAIN order = 1..Cardinality(S)
             /\ \A k, l \in DOMAIN order : order[k] = order[l] => k = l
             /\ \A x \in S : \E k \in DOMAIN order : order[k] = x
<1> DEFINE n == Cardinality(S)
           order == SetToSeq(S)
<1>1. n \in Nat /\ ExistsBijection(1..n, S)
  BY FS_CardinalityType
<1>2. \E f \in [1..n -> S] : IsInjective(f)
  BY <1>1 DEF ExistsBijection, Bijection, Injection, IsInjective
<1>3. order \in [1..n -> S] /\ IsInjective(order)
  BY <1>2 DEF SetToSeq
<1> HIDE DEF order
<1>4. order \in Injection(1..n, S)
  BY <1>3 DEF Injection, IsInjective
<1>5. Cardinality(1..n) = n
  BY <1>1, FS_Interval
<1>6. order \in Surjection(1..n, S)
  <2> HIDE DEF n
  <2>1. Cardinality(1..n) = Cardinality(S)
    BY <1>5 DEF n
  <2> QED BY <1>4, <2>1, FS_Injection
<1>7. /\ \A k, l \in DOMAIN order : order[k] = order[l] => k = l
      /\ \A x \in S : \E k \in DOMAIN order : order[k] = x
  BY <1>3, <1>6 DEF IsInjective, Surjection
<1> QED BY <1>3, <1>7 DEF order

LEMMA IdsAreFinite == IsFiniteSet(Ids)
<1>1. IsFiniteSet({"mainline"}) /\ IsFiniteSet({"evaluation"}) /\ IsFiniteSet({<<"feedback", 0>>})
  BY FS_Singleton
<1>2. IsFiniteSet({"mainline"} \X Jobs) /\ IsFiniteSet({"evaluation"} \X Runs)
  BY <1>1, PromptAssumption, RunsAssumption, FS_Product
<1>3. IsFiniteSet(({"mainline"} \X Jobs) \cup ({"evaluation"} \X Runs))
  BY <1>2, FS_Union
<1>4. IsFiniteSet((({"mainline"} \X Jobs) \cup ({"evaluation"} \X Runs)) \cup {<<"feedback", 0>>})
  BY <1>1, <1>3, FS_Union
<1> QED BY <1>4 DEF Ids

\* The runs that an evaluation counts are among those that the evidence counts.
LEMMA ArmsAreEvidence ==
  ASSUME Sound, NEW r \in DOMAIN workload.jobs
  PROVE  LET p == Project(r)
             m == Medium(r)
         IN  /\ Cardinality(CanaryArm(r)) \in Nat /\ Cardinality(ControlArm(r)) \in Nat
             /\ Cardinality(CanaryArm(r)) <= Cardinality(Tried(p, m))
             /\ Cardinality(ControlArm(r)) <= Cardinality(Compared(p, m))
             /\ Cardinality(Tried(p, m)) \in Nat /\ Cardinality(Compared(p, m)) \in Nat
             /\ Cardinality(ControlArm(r)) > 0 => Compared(p, m) # {}
<1> DEFINE p == Project(r)
           m == Medium(r)
<1>1. CanaryArm(r) \subseteq Tried(p, m)
  BY DEF CanaryArm, Compatible, Evaluated, Tried, OwnLinks
<1>2. ControlArm(r) \subseteq Compared(p, m)
  BY DEF ControlArm, Compatible, Evaluated, Compared, Tried, OwnLinks
<1>3. Tried(p, m) \subseteq Runs /\ Compared(p, m) \subseteq Runs
  BY DEF Tried, Compared, OwnLinks
<1> HIDE DEF p, m
<1>4. IsFiniteSet(Tried(p, m)) /\ IsFiniteSet(Compared(p, m))
  BY <1>3, RunsAssumption, FS_Subset
<1>5. /\ IsFiniteSet(CanaryArm(r)) /\ Cardinality(CanaryArm(r)) <= Cardinality(Tried(p, m))
      /\ IsFiniteSet(ControlArm(r)) /\ Cardinality(ControlArm(r)) <= Cardinality(Compared(p, m))
  BY <1>1, <1>2, <1>4, FS_Subset
<1>6. Cardinality(ControlArm(r)) > 0 => Compared(p, m) # {}
  <2>1. ControlArm(r) = {} => Cardinality(ControlArm(r)) = 0
    BY FS_EmptySet
  <2> QED BY <1>2, <2>1
<1> QED BY <1>4, <1>5, <1>6, FS_CardinalityType DEF p, m

\* A judged canary of the run's project and medium has what it needs.
LEMMA JudgedIsGood ==
  ASSUME Sound, NEW r \in DOMAIN workload.jobs, NEW i \in Ids,
         db[i] # NoRow, db[i].project = Project(r), db[i].medium = Medium(r),
         NEW row \in Judgements(db[i], Cardinality(CanaryArm(r)), Cardinality(ControlArm(r)))
  PROVE  /\ row \in Rows /\ Good(i, row) /\ row # NoRow
         /\ row.project = Project(r) /\ row.medium = Medium(r)
         /\ row.status \in {db[i].status, "rolled_back", "active"}
<1> DEFINE old == db[i]
           c == Cardinality(CanaryArm(r))
           d == Cardinality(ControlArm(r))
           p == Project(r)
           m == Medium(r)
<1>1. /\ old \in Rows /\ ((old.medium = NoMedium) <=> (i = Feedback))
      /\ Earned(old) /\ PairEarned(old) /\ Good(i, old)
  BY StoredRow
<1>2. m # NoMedium
  BY JobFacts
<1>3. /\ c \in Nat /\ d \in Nat /\ c <= Cardinality(Tried(p, m)) /\ d <= Cardinality(Compared(p, m))
      /\ Cardinality(Tried(p, m)) \in Nat /\ Cardinality(Compared(p, m)) \in Nat
      /\ d > 0 => Compared(p, m) # {}
  BY ArmsAreEvidence
<1>4. MinCanaryRuns \in Nat /\ MinPairRuns \in Nat
  BY PromptAssumption
<1>5. \/ row = old
      \/ row = [old EXCEPT !.status = "rolled_back"]
      \/ row = [old EXCEPT !.status = "active"] /\ c >= MinCanaryRuns /\ d > 0
      \/ /\ row = [old EXCEPT !.status = "active", !.pair = TRUE]
         /\ c >= MinCanaryRuns /\ d > 0 /\ c >= MinPairRuns /\ d >= MinPairRuns
  BY DEF Judgements, Judged, Eligible
<1>6. old.project = p /\ old.medium = m
  OBVIOUS
<1> HIDE DEF old, c, d, p, m
<1>7. row \in Rows /\ row.project = p /\ row.medium = m
  BY <1>1, <1>5, <1>6 DEF Rows, RowStatuses, Retired
<1>8. /\ row.status \in {old.status, "rolled_back", "active"}
      /\ row.status = "active" => old.status = "active" \/ (c >= MinCanaryRuns /\ d > 0)
      /\ row.pair = TRUE => old.pair = TRUE \/ (c >= MinPairRuns /\ d >= MinPairRuns)
  BY <1>1, <1>5 DEF Rows
<1>9. row # NoRow /\ old # NoRow
  BY <1>1, <1>7 DEF Rows, NoRow, RowStatuses, Retired
<1>10. Earned(row)
  BY <1>1, <1>2, <1>3, <1>4, <1>6, <1>7, <1>8 DEF Earned
<1>11. PairEarned(row)
  <2>1. row.pair = TRUE \/ row.pair = FALSE
    BY <1>7 DEF Rows
  <2> QED BY <1>1, <1>2, <1>3, <1>4, <1>6, <1>7, <1>8, <1>9, <2>1 DEF PairEarned
<1>12. Good(i, row)
  BY <1>1, <1>6, <1>7, <1>10, <1>11 DEF Good
<1> QED BY <1>7, <1>8, <1>9, <1>12 DEF old, p, m

\* What becomes active is written last, after all its rivals are superseded.
LEMMA ActivationOk ==
  ASSUME Sound, NEW r \in DOMAIN workload.jobs, NEW i \in Ids, NEW row \in Rows, Good(i, row),
         NEW A \in SUBSET Ids,
         \A j \in A : db[j] # NoRow /\ db[j].status = "active",
         i \notin A, Rivals(i, row) \subseteq A,
         \A x \in Runs : i = <<"evaluation", x>> => pc[x] \notin Early,
         row.status = "active", db[i].status \notin Retired
  PROVE  PlanOk(r, Append(SaveAll(A, "superseded"), Save(i, row)))
<1> DEFINE order == SetToSeq(A)
           old(k) == [db[order[k]] EXCEPT !.status = "superseded"]
           first == SaveAll(A, "superseded")
           last == Save(i, row)
           plan == Append(first, last)
           n == Cardinality(A)
<1>1. IsFiniteSet(A)
  BY IdsAreFinite, FS_Subset
<1>2. /\ order \in [1..n -> A] /\ DOMAIN order = 1..n
      /\ \A k, l \in DOMAIN order : order[k] = order[l] => k = l
      /\ \A x \in A : \E k \in DOMAIN order : order[k] = x
  BY <1>1, SetInSequence
<1>3. n \in Nat
  BY <1>1, FS_CardinalityType
<1>4. first = [k \in 1..n |-> Save(order[k], old(k))]
  BY <1>2 DEF SaveAll
<1> HIDE DEF order, first, n
<1>5. ASSUME NEW k \in 1..n
      PROVE  /\ order[k] \in A /\ Good(order[k], old(k)) /\ old(k) \in Rows
             /\ old(k).status = "superseded" /\ old(k).medium = db[order[k]].medium
  <2>1. order[k] \in A
    BY <1>2
  <2>2. db[order[k]] # NoRow /\ db[order[k]].status = "active" /\ order[k] \in Ids
    BY <2>1
  <2>3. "superseded" \in RowStatuses \ {"active"}
    BY DEF RowStatuses, Retired
  <2>4. old(k) \in Rows /\ old(k).status = "superseded" /\ Good(order[k], old(k))
    BY <2>2, <2>3, ChangedIsGood
  <2>5. db[order[k]] \in Rows
    BY <2>2, StoredRow
  <2>6. old(k).medium = db[order[k]].medium
    BY <2>3, <2>5, RowChange
  <2> QED BY <2>1, <2>4, <2>6
<1>6. /\ first \in Seq(Writes) /\ Len(first) = n /\ DOMAIN first = 1..n
      /\ \A k \in 1..n : /\ first[k].id = order[k] /\ first[k].row = old(k) /\ first[k].at = "blob"
  <2>1. \A k \in 1..n : Save(order[k], old(k)) \in Writes
    BY <1>5 DEF Save, Writes
  <2>2. first \in [1..n -> Writes]
    BY <1>4, <2>1
  <2>3. first \in Seq(Writes)
    BY <1>3, <2>2
  <2> HIDE DEF old
  <2> QED BY <1>3, <1>4, <2>3 DEF Save
<1> HIDE DEF old
<1>7. last \in Writes /\ last.id = i /\ last.row = row /\ last.at = "blob"
  BY DEF Save, Writes
<1> HIDE DEF last
<1>8. /\ plan \in Seq(Writes) /\ Len(plan) = n + 1 /\ DOMAIN plan = 1..(n + 1)
      /\ plan[n + 1] = last /\ \A k \in 1..n : plan[k] = first[k]
  BY <1>3, <1>6, <1>7, AppendProperties
<1> HIDE DEF plan
<1>9. ASSUME NEW k \in DOMAIN plan
      PROVE  \/ /\ k \in 1..n /\ plan[k].id = order[k] /\ plan[k].row = old(k) /\ plan[k].at = "blob"
             \/ k = n + 1 /\ plan[k] = last
  BY <1>3, <1>6, <1>8
<1>10. \A k \in DOMAIN plan : Good(plan[k].id, plan[k].row)
  BY <1>5, <1>7, <1>9
<1>11. ASSUME NEW k \in DOMAIN plan, NEW x \in Runs, plan[k].id = <<"evaluation", x>>
       PROVE  pc[x] \notin Early
  <2>1. CASE k \in 1..n /\ plan[k].id = order[k]
    <3>1. db[<<"evaluation", x>>] # NoRow
      BY <1>5, <1>11, <2>1
    <3>2. pc[x] \in Early => db[<<"evaluation", x>>] = NoRow
      BY DEF Sound, RunInv, Unevaluated
    <3> QED BY <3>1, <3>2
  <2>2. CASE plan[k] = last
    BY <1>7, <1>11, <2>2
  <2> QED BY <1>9, <2>1, <2>2
<1>12. \A k, l \in DOMAIN plan : plan[k].id = plan[l].id => k = l
  <2> SUFFICES ASSUME NEW k \in DOMAIN plan, NEW l \in DOMAIN plan, plan[k].id = plan[l].id
               PROVE  k = l
    OBVIOUS
  <2>1. CASE k \in 1..n /\ l \in 1..n
    BY <1>2, <1>6, <1>8, <2>1
  <2>2. CASE k = n + 1 /\ l \in 1..n
    BY <1>5, <1>6, <1>7, <1>8, <2>2
  <2>3. CASE k \in 1..n /\ l = n + 1
    BY <1>5, <1>6, <1>7, <1>8, <2>3
  <2>4. CASE k = n + 1 /\ l = n + 1
    BY <2>4
  <2> QED BY <1>9, <2>1, <2>2, <2>3, <2>4
<1>13. \A k \in DOMAIN plan : plan[k].row.status = "active" => k = Len(plan)
  BY <1>5, <1>8, <1>9
<1>14. ASSUME NEW k \in DOMAIN plan, plan[k].row.status = "active",
              NEW j \in Rivals(plan[k].id, plan[k].row)
       PROVE  \E m \in DOMAIN plan : plan[m].id = j /\ plan[m].row.status # "active"
  <2>1. plan[k] = last
    BY <1>5, <1>9, <1>14
  <2>2. j \in A
    BY <1>7, <1>14, <2>1
  <2>3. PICK m \in 1..n : order[m] = j
    BY <1>2, <2>2
  <2>4. m \in DOMAIN plan /\ plan[m].id = j /\ plan[m].row.status # "active"
    BY <1>3, <1>5, <1>6, <1>8, <2>3
  <2> QED BY <2>4
<1>15. ASSUME NEW k \in DOMAIN plan PROVE ComesBackAsNew(plan[k])
  <2>1. CASE k \in 1..n /\ plan[k].row = old(k)
    BY <1>5, <2>1 DEF ComesBackAsNew, Retired
  <2>2. CASE plan[k] = last
    BY <1>7, <2>2 DEF ComesBackAsNew
  <2> QED BY <1>9, <2>1, <2>2
<1>16. PlanInv(plan)
  BY <1>12, <1>13, <1>14, <1>15 DEF PlanInv
<1> QED BY <1>8, <1>10, <1>11, <1>16 DEF PlanOk, PlanSafe, MayWrite, plan, first, last

\* Whatever an evaluation decides to write may be written.
LEMMA EvaluationOk ==
  ASSUME Sound, NEW r \in DOMAIN workload.jobs, r \in Runs, pc[r] = "evaluating",
         NEW plan \in EvaluationPlans(r)
  PROVE  PlanOk(r, plan)
<1> DEFINE p == Project(r)
           m == Medium(r)
           existing == {i \in Ids : Matches(db[i], p, m) /\ db[i].medium = m}
           in(status) == {i \in existing : db[i].status = status}
           fresh == Save(<<"evaluation", r>>, EvaluationProposal(r))
           c == Cardinality(CanaryArm(r))
           d == Cardinality(ControlArm(r))
<1>1. \/ plan = <<>>
      \/ plan = <<fresh>>
      \/ \E i \in in("canary") : \E row \in Judgements(db[i], c, d) :
            plan = SaveJudged(i, row, in("active"))
      \/ \E i \in in("proposed") : plan = <<Save(i, [db[i] EXCEPT !.status = "canary"])>>
  BY DEF EvaluationPlans
<1>2. p \in Projects /\ m \in Media /\ m # NoMedium
  BY JobFacts
<1>3. \A i \in existing : i \in Ids /\ db[i] # NoRow /\ db[i].project = p /\ db[i].medium = m
  BY DEF Matches
<1>4. ASSUME NEW i \in existing, NEW x \in Runs, i = <<"evaluation", x>> PROVE pc[x] \notin Early
  BY <1>3, <1>4 DEF Sound, RunInv, Unevaluated
<1>5. CASE plan = <<>>
  BY <1>5, NothingPlanned
<1>6. CASE plan = <<fresh>>
  <2> DEFINE row == EvaluationProposal(r)
  <2>1. /\ row \in Rows /\ row.status = "proposed" /\ row.pair = FALSE /\ row.medium = m
    BY <1>2 DEF EvaluationProposal, Fresh, Rows, RowStatuses
  <2>2. <<"evaluation", r>> \in Ids /\ <<"evaluation", r>> # Feedback
    BY DEF Ids, Feedback
  <2>3. db[<<"evaluation", r>>] = NoRow
    BY DEF Sound, RunInv, Unevaluated, Early
  <2> HIDE DEF row, m
  <2>4. /\ fresh \in Writes /\ fresh.id = <<"evaluation", r>> /\ fresh.row = row /\ fresh.at = "blob"
    BY <2>1, <2>2 DEF Save, Writes, row
  <2> HIDE DEF fresh
  <2>5. Good(fresh.id, fresh.row)
    BY <1>2, <2>1, <2>2, <2>4 DEF Good, Earned, PairEarned
  <2>6. ComesBackAsNew(fresh)
    BY <2>3, <2>4 DEF ComesBackAsNew, NoRow, Retired
  <2>7. MayWrite(r, fresh)
    BY <2>4 DEF MayWrite
  <2>8. PlanOk(r, <<fresh>>)
    BY <2>1, <2>4, <2>5, <2>6, <2>7, OneWrite
  <2> QED BY <1>6, <2>8
<1>7. ASSUME NEW i \in in("canary"), NEW row \in Judgements(db[i], c, d),
             plan = SaveJudged(i, row, in("active"))
      PROVE  PlanOk(r, plan)
  <2>1. /\ i \in Ids /\ i \in existing /\ db[i] # NoRow /\ db[i].project = p /\ db[i].medium = m
        /\ db[i].status = "canary"
    BY <1>3
  <2>2. /\ row \in Rows /\ Good(i, row) /\ row.project = p /\ row.medium = m
        /\ row.status \in {"canary", "rolled_back", "active"}
    BY <2>1, JudgedIsGood
  <2>3. \A x \in Runs : i = <<"evaluation", x>> => pc[x] \notin Early
    BY <1>4, <2>1
  <2>4. CASE row.status = "active"
    <3> DEFINE A == in("active")
    <3>1. /\ A \in SUBSET Ids /\ \A j \in A : db[j] # NoRow /\ db[j].status = "active"
      BY <1>3
    <3>2. i \notin A
      BY <2>1
    <3>3. Rivals(i, row) \subseteq A
      BY <2>2 DEF Rivals, Matches
    <3>4. plan = Append(SaveAll(A, "superseded"), Save(i, row))
      BY <1>7, <2>4 DEF SaveJudged
    <3>5. db[i].status \notin Retired
      BY <2>1 DEF Retired
    <3> HIDE DEF A
    <3>6. PlanOk(r, Append(SaveAll(A, "superseded"), Save(i, row)))
      BY <2>1, <2>2, <2>3, <2>4, <3>1, <3>2, <3>3, <3>5, ActivationOk
    <3> QED BY <3>4, <3>6
  <2>5. CASE row.status # "active"
    <3> DEFINE w == Save(i, row)
    <3>1. plan = <<w>>
      <4>1. plan = Append(<<>>, w)
        BY <1>7, <2>5 DEF SaveJudged
      <4> QED BY <4>1
    <3>2. w \in Writes /\ w.id = i /\ w.row = row
      BY <2>1, <2>2 DEF Save, Writes
    <3> HIDE DEF w
    <3>3. ComesBackAsNew(w)
      BY <2>1, <3>2 DEF ComesBackAsNew, Retired
    <3>4. MayWrite(r, w)
      BY <2>3, <3>2 DEF MayWrite
    <3>5. PlanOk(r, <<w>>)
      BY <2>2, <2>5, <3>2, <3>3, <3>4, OneWrite
    <3> QED BY <3>1, <3>5
  <2> QED BY <2>4, <2>5
<1>8. ASSUME NEW i \in in("proposed"), plan = <<Save(i, [db[i] EXCEPT !.status = "canary"])>>
      PROVE  PlanOk(r, plan)
  <2> DEFINE row == [db[i] EXCEPT !.status = "canary"]
             w == Save(i, row)
  <2>1. i \in Ids /\ i \in existing /\ db[i] # NoRow /\ db[i].status = "proposed"
    BY <1>3
  <2>2. "canary" \in RowStatuses \ {"active"}
    BY DEF RowStatuses
  <2>3. row \in Rows /\ row.status = "canary" /\ Good(i, row)
    BY <2>1, <2>2, ChangedIsGood
  <2>4. plan = <<w>>
    BY <1>8
  <2> HIDE DEF row
  <2>5. w \in Writes /\ w.id = i /\ w.row = row
    BY <2>1, <2>3 DEF Save, Writes
  <2> HIDE DEF w
  <2>6. ComesBackAsNew(w)
    BY <2>1, <2>5 DEF ComesBackAsNew, Retired
  <2>7. MayWrite(r, w)
    BY <1>4, <2>1, <2>5 DEF MayWrite
  <2>8. PlanOk(r, <<w>>)
    BY <2>3, <2>5, <2>6, <2>7, OneWrite
  <2> QED BY <2>4, <2>8
<1> QED BY <1>1, <1>5, <1>6, <1>7, <1>8

\* The drain may propose what its job has proposed before.
LEMMA MainlineOk ==
  ASSUME Sound, NEW r \in DOMAIN workload.jobs
  PROVE  PlanOk(r, <<Save(<<"mainline", Job(r)>>, MainlineProposal(r))>>)
<1> DEFINE i == <<"mainline", Job(r)>>
           row == MainlineProposal(r)
           w == Save(i, row)
<1>1. Job(r) \in Jobs /\ Project(r) \in Projects /\ Medium(r) \in Media /\ Medium(r) # NoMedium
  BY JobFacts
<1>2. /\ row \in Rows /\ row.status = "proposed" /\ row.pair = FALSE /\ row.medium # NoMedium
  BY <1>1 DEF MainlineProposal, Fresh, Rows, RowStatuses
<1>3. i \in Ids /\ i # Feedback /\ i[1] = "mainline"
  BY <1>1 DEF Ids, Feedback
<1>4. \A x \in Runs : i # <<"evaluation", x>>
  OBVIOUS
<1> HIDE DEF i, row
<1>5. w \in Writes /\ w.id = i /\ w.row = row /\ w.at = "blob"
  BY <1>2, <1>3 DEF Save, Writes
<1> HIDE DEF w
<1>6. Good(w.id, w.row)
  BY <1>2, <1>3, <1>5 DEF Good, Earned, PairEarned
<1>7. ComesBackAsNew(w)
  BY <1>2, <1>3, <1>5 DEF ComesBackAsNew
<1>8. MayWrite(r, w)
  BY <1>4, <1>5 DEF MayWrite
<1>9. PlanOk(r, <<w>>)
  BY <1>2, <1>5, <1>6, <1>7, <1>8, OneWrite
<1> QED BY <1>9 DEF w, i, row

\* The recent resolutions are some of those on record.
LEMMA RecentIsPart ==
  ASSUME Sound, NEW first \in 1..Len(resolutions), NEW modes
  PROVE  LET recent == SubSeq(resolutions, first, Len(resolutions))
             some == {recent[k].project : k \in InFavour(recent)}
             all == {resolutions[k].project : k \in InFavour(resolutions)}
         IN  /\ Cardinality(Arm(recent, modes)) \in Nat
             /\ Cardinality(Arm(resolutions, modes)) \in Nat
             /\ Cardinality(Arm(recent, modes)) <= Cardinality(Arm(resolutions, modes))
             /\ Cardinality(some) \in Nat /\ Cardinality(all) \in Nat
             /\ Cardinality(some) <= Cardinality(all)
<1> DEFINE n == Len(resolutions)
           recent == SubSeq(resolutions, first, n)
           some == {recent[k].project : k \in InFavour(recent)}
           all == {resolutions[k].project : k \in InFavour(resolutions)}
           place == [k \in Arm(recent, modes) |-> k + first - 1]
<1>1. resolutions \in Seq(Reviews) /\ n \in Nat /\ DOMAIN resolutions = 1..n
  BY DEF Sound, PromptTypeOK
<1>2. /\ DOMAIN recent = 1..(n - first + 1)
      /\ \A k \in DOMAIN recent : /\ k \in Nat /\ k + first - 1 \in DOMAIN resolutions
                                  /\ recent[k] = resolutions[k + first - 1]
  <2>1. first \in 1..(n + 1) /\ n \in first - 1..n
    BY <1>1
  <2>2. /\ recent \in Seq(Reviews) /\ Len(recent) = n - first + 1
        /\ \A k \in 1..(n - first + 1) : recent[k] = resolutions[first + k - 1]
    BY <1>1, <2>1, SubSeqProperties
  <2>3. DOMAIN recent = 1..(n - first + 1)
    BY <2>2
  <2> HIDE DEF recent, n
  <2>4. ASSUME NEW k \in DOMAIN recent
        PROVE  /\ k \in Nat /\ k + first - 1 \in 1..n /\ recent[k] = resolutions[k + first - 1]
    <3>1. k \in 1..(n - first + 1) /\ first + k - 1 = k + first - 1
      BY <1>1, <2>1, <2>3
    <3> QED BY <1>1, <2>1, <2>2, <3>1
  <2> QED BY <1>1, <2>3, <2>4
<1> HIDE DEF recent
<1>3. IsFiniteSet(Arm(resolutions, modes))
  <2>1. IsFiniteSet(DOMAIN resolutions)
    BY <1>1, SequenceIsFinite
  <2>2. Arm(resolutions, modes) \subseteq DOMAIN resolutions
    BY DEF Arm
  <2> QED BY <2>1, <2>2, FS_Subset
<1>4. place \in Injection(Arm(recent, modes), Arm(resolutions, modes))
  <2>1. \A k \in Arm(recent, modes) : k \in Nat /\ k + first - 1 \in Arm(resolutions, modes)
    BY <1>2 DEF Arm
  <2>2. place \in [Arm(recent, modes) -> Arm(resolutions, modes)]
    BY <2>1
  <2>3. \A k, l \in Arm(recent, modes) : place[k] = place[l] => k = l
    BY <2>1, first \in Nat
  <2> QED BY <2>2, <2>3 DEF Injection, IsInjective
<1> HIDE DEF place
<1>5. /\ IsFiniteSet(Arm(recent, modes))
      /\ Cardinality(Arm(recent, modes)) <= Cardinality(Arm(resolutions, modes))
  BY <1>3, <1>4, FS_Injection
<1>6. some \subseteq all
  BY <1>2 DEF InFavour
<1>7. IsFiniteSet(all)
  <2>1. IsFiniteSet(Projects)
    BY ProjectsAreFinite
  <2>2. all \subseteq Projects
    <3> SUFFICES ASSUME NEW k \in InFavour(resolutions) PROVE resolutions[k].project \in Projects
      OBVIOUS
    <3>1. resolutions[k] \in Reviews
      BY <1>1 DEF InFavour
    <3> QED BY <3>1 DEF Reviews
  <2> QED BY <2>1, <2>2, FS_Subset
<1>8. IsFiniteSet(some) /\ Cardinality(some) <= Cardinality(all)
  BY <1>6, <1>7, FS_Subset
<1> QED BY <1>3, <1>5, <1>7, <1>8, FS_CardinalityType DEF recent, n

\* A proposal of human feedback has the reviews it needs.
LEMMA FeedbackOk ==
  ASSUME Sound, NEW r \in DOMAIN workload.jobs, NEW first \in 1..Len(resolutions),
         NEW row \in FeedbackRows(Project(r), SubSeq(resolutions, first, Len(resolutions)))
  PROVE  PlanOk(r, <<[at |-> "db", id |-> Feedback, row |-> row]>>)
<1> DEFINE recent == SubSeq(resolutions, first, Len(resolutions))
           p == Project(r)
           base == IF db[Feedback] # NoRow /\ db[Feedback].project = p THEN db[Feedback]
                   ELSE FeedbackProposal(p)
           some == {recent[k].project : k \in InFavour(recent)}
           w == [at |-> "db", id |-> Feedback, row |-> row]
<1>1. PICK s \in FeedbackStatuses(base.status, recent) :
        \E e \in IF PairEligible(s, recent) THEN BOOLEAN ELSE {FALSE} :
            row = [base EXCEPT !.status = s, !.pair = e]
  BY DEF FeedbackRows
<1>2. PICK e \in IF PairEligible(s, recent) THEN BOOLEAN ELSE {FALSE} :
        row = [base EXCEPT !.status = s, !.pair = e]
  BY <1>1
<1>3. p \in Projects /\ Feedback \in Ids
  BY JobFacts DEF Ids, Feedback
<1>4. base \in Rows /\ base.medium = NoMedium /\ (base.status = "active" => Earned(base))
  <2>1. CASE db[Feedback] # NoRow /\ db[Feedback].project = p
    BY <1>3, <2>1, StoredRow
  <2>2. CASE ~(db[Feedback] # NoRow /\ db[Feedback].project = p)
    <3>1. base = FeedbackProposal(p)
      BY <2>2
    <3> HIDE DEF base, p
    <3> QED BY <1>3, <3>1 DEF FeedbackProposal, Fresh, Rows, RowStatuses
  <2> QED BY <2>1, <2>2
<1> HIDE DEF base
<1>5. /\ s \in RowStatuses
      /\ s = "active" =>
            \/ base.status = "active"
            \/ /\ Cardinality(Arm(recent, {"canary"})) >= MinArm
               /\ Cardinality(Arm(recent, {"control", "active"})) >= MinArm
  BY <1>4 DEF FeedbackStatuses, Rows, RowStatuses, Retired
<1>6. e \in BOOLEAN /\ (e = TRUE => Cardinality(some) >= MinProjects)
  BY <1>2 DEF PairEligible
<1>7. /\ row \in Rows /\ row.status = s /\ row.pair = e /\ row.medium = NoMedium
      /\ row # NoRow
  BY <1>2, <1>4, <1>5, <1>6 DEF Rows, NoRow, RowStatuses, Retired
<1>8. MinArm \in Nat /\ MinProjects \in Nat
  BY PromptAssumption
<1>9. Earned(row)
  <2>1. ASSUME s = "active"
        PROVE  /\ Cardinality(Arm(resolutions, {"canary"})) >= MinArm
               /\ Cardinality(Arm(resolutions, {"control", "active"})) >= MinArm
    <3>1. CASE base.status = "active"
      BY <1>4, <3>1 DEF Earned
    <3>2. /\ Cardinality(Arm(recent, {"canary"})) \in Nat
          /\ Cardinality(Arm(resolutions, {"canary"})) \in Nat
          /\ Cardinality(Arm(recent, {"canary"})) <= Cardinality(Arm(resolutions, {"canary"}))
      BY RecentIsPart
    <3>3. /\ Cardinality(Arm(recent, {"control", "active"})) \in Nat
          /\ Cardinality(Arm(resolutions, {"control", "active"})) \in Nat
          /\ Cardinality(Arm(recent, {"control", "active"}))
                <= Cardinality(Arm(resolutions, {"control", "active"}))
      BY RecentIsPart
    <3> HIDE DEF recent
    <3> QED BY <1>5, <1>8, <2>1, <3>1, <3>2, <3>3
  <2> QED BY <1>7, <2>1 DEF Earned
<1>10. PairEarned(row)
  <2> DEFINE all == {resolutions[k].project : k \in InFavour(resolutions)}
  <2>1. /\ Cardinality(some) \in Nat /\ Cardinality(all) \in Nat
        /\ Cardinality(some) <= Cardinality(all)
    BY RecentIsPart
  <2>2. e = TRUE => Cardinality(all) >= MinProjects
    <3> HIDE DEF some, all
    <3> QED BY <1>6, <1>8, <2>1
  <2> QED BY <1>6, <1>7, <2>2 DEF PairEarned
<1>11. w \in Writes /\ w.id = Feedback /\ w.row = row
  BY <1>3, <1>7 DEF Writes
<1> HIDE DEF w
<1>12. Good(w.id, w.row)
  BY <1>7, <1>9, <1>10, <1>11 DEF Good
<1>13. ComesBackAsNew(w)
  BY <1>11 DEF ComesBackAsNew
<1>14. MayWrite(r, w)
  BY <1>11 DEF Feedback, MayWrite
<1>15. PlanOk(r, <<w>>)
  BY <1>7, <1>11, <1>12, <1>13, <1>14, OneWrite
<1> QED BY <1>15 DEF w

-----------------------------------------------------------------------------
(* The steps.                                                              *)

\* What a run still has to write is a plan.
LEMMA OwnPlan ==
  ASSUME PInv, NEW r \in Runs
  PROVE  PlanSafe(r, todo[r]) /\ (~workload.racing => PlanInv(todo[r]))
<1>1. todo[r] \in Seq(Writes)
  BY DEF PInv, Sound, PromptTypeOK
<1>2. ASSUME NEW k \in DOMAIN todo[r] PROVE Good(todo[r][k].id, todo[r][k].row) /\ MayWrite(r, todo[r][k])
  BY DEF PInv, Sound, RunInv, Unevaluated, MayWrite
<1> QED BY <1>1, <1>2 DEF PlanSafe, PInv, Serial

\* A step of a run that writes no row and no file keeps the invariant, if its plan is sound
\* and was made while nobody else had one.
LEMMA QuietStep ==
  ASSUME PInv, PromptTypeOK', EvidenceKept, db' = db, blob' = blob,
         NEW r \in Runs, r \in DOMAIN workload.jobs, NEW plan, NEW next,
         todo' = [todo EXCEPT ![r] = plan], pc' = [pc EXCEPT ![r] = next],
         \A x \in Runs : x # r => links'[x] = links[x] /\ outcome'[x] = outcome[x],
         PlanSafe(r, plan), ~workload.racing => PlanInv(plan),
         plan = <<>> \/ plan = todo[r] \/ MayRead(r),
         next # "new", next \in Early => pc[r] \in Early \ {"evaluating"},
         (next \in Unlinked \/ outcome'[r] = "human") => links'[r] = NoLink,
         next \in Reviewed => outcome'[r] # "human"
  PROVE  PInv'
<1>1. /\ todo \in [Runs -> Seq(Writes)] /\ PromptTypeOK /\ Sound
      /\ pc \in [Runs -> Early \cup Unlinked \cup {"regenerating", "draining", "ending", "ended"}]
  BY DEF PInv, Sound, PromptTypeOK
<1>2. /\ todo'[r] = plan /\ \A x \in Runs : x # r => todo'[x] = todo[x]
      /\ pc'[r] = next /\ \A x \in Runs : x # r => pc'[x] = pc[x]
      /\ workload' = workload
  BY <1>1 DEF EvidenceKept
<1>3. \A i, row : Good(i, row) => Good(i, row)'
  BY <1>1, GoodStays
<1>4. \A i \in Ids : Good(i, db[i])' /\ Good(i, blob[i])'
  BY <1>1, GoodRowsStay
<1>5. ASSUME NEW x \in Runs
      PROVE  (\A k \in DOMAIN todo[x] : Good(todo[x][k].id, todo[x][k].row))'
  <2>1. \A some : (\A k \in DOMAIN some : Good(some[k].id, some[k].row))
                     => (\A k \in DOMAIN some : Good(some[k].id, some[k].row)')
    BY <1>3
  <2>2. CASE x = r
    <3>1. \A k \in DOMAIN plan : Good(plan[k].id, plan[k].row)'
      BY <2>1 DEF PlanSafe
    <3> QED BY <1>2, <2>2, <3>1
  <2>3. CASE x # r
    <3>1. todo'[x] = todo[x] /\ \A k \in DOMAIN todo[x] : Good(todo[x][k].id, todo[x][k].row)
      BY <1>1, <1>2, <2>3 DEF Sound, RunInv
    <3>2. ASSUME NEW same, same = todo[x]
          PROVE  \A k \in DOMAIN same : Good(same[k].id, same[k].row)'
      BY <2>1, <3>1, <3>2
    <3> QED BY <3>1, <3>2
  <2> QED BY <2>2, <2>3
<1>6. ASSUME NEW x \in Runs, pc'[x] \in Early PROVE Unevaluated(x)'
  <2>1. pc[x] \in Early /\ (x = r => pc[x] # "evaluating")
    BY <1>2, <1>6
  <2>2. Unevaluated(x)
    BY <1>1, <2>1 DEF Sound, RunInv
  <2>3. ASSUME NEW y \in Runs, NEW k \in DOMAIN todo'[y] PROVE todo'[y][k].id # <<"evaluation", x>>
    <3>1. CASE y = r
      BY <1>2, <2>1, <3>1 DEF PlanSafe, MayWrite
    <3>2. CASE y # r
      BY <1>2, <2>2, <3>2 DEF Unevaluated
    <3> QED BY <3>1, <3>2
  <2> QED BY <2>2, <2>3 DEF Unevaluated
<1>7. ASSUME NEW x \in Runs PROVE RunInv(x)'
  <2>1. RunInv(x)
    BY <1>1 DEF Sound
  <2>2. CASE x = r
    BY <1>2, <1>5, <1>6, <2>2 DEF RunInv
  <2>3. CASE x # r
    BY <1>2, <1>5, <1>6, <2>1, <2>3 DEF RunInv
  <2> QED BY <2>2, <2>3
<1>8. ASSUME ~workload.racing PROVE Serial'
  <2>1. Serial
    BY <1>8 DEF PInv
  <2>2. \A x, y \in Runs : (todo'[x] # <<>> /\ todo'[y] # <<>>) => x = y
    BY <1>2, <1>8, <2>1 DEF Serial, MayRead
  <2>3. OneActive'
    BY <2>1 DEF Serial, OneActive, Rivals
  <2>4. \A some : PlanInv(some) => PlanInv(some)'
    BY DEF PlanInv, Rivals, ComesBackAsNew
  <2>5. ASSUME NEW x \in Runs PROVE PlanInv(todo[x])'
    <3>1. CASE x = r
      BY <1>2, <1>8, <2>4, <3>1
    <3>2. CASE x # r
      BY <1>2, <2>1, <2>4, <3>2 DEF Serial
    <3> QED BY <3>1, <3>2
  <2> QED BY <2>2, <2>3, <2>5 DEF Serial
<1> QED BY <1>2, <1>4, <1>7, <1>8 DEF PInv, Sound

LEMMA Typed ==
  ASSUME PInv
  PROVE  /\ Sound /\ PromptTypeOK /\ todo \in [Runs -> Seq(Writes)]
         /\ pc \in [Runs -> Early \cup Unlinked \cup {"regenerating", "draining", "ending", "ended"}]
BY DEF PInv, Sound, PromptTypeOK

LEMMA BeginKeeps ==
  ASSUME PInv, NEW r \in Runs, Begin(r)
  PROVE  PInv'
<1>1. PICK plan \in Promotions(Project(r), Medium(r)) : todo' = [todo EXCEPT ![r] = plan]
  BY DEF Begin, Plan
<1>2. /\ pc[r] = "new" /\ r \in DOMAIN workload.jobs /\ MayRead(r)
      /\ pc' = [pc EXCEPT ![r] = "selecting"]
      /\ UNCHANGED <<db, blob, links, resolutions, overlay, outcome, workload>>
  BY DEF Begin, Goto
<1>3. Sound /\ PromptTypeOK
  BY Typed
<1>4. PlanSafe(r, plan) /\ PlanInv(plan)
  BY <1>2, <1>3, PromotionsOk DEF PlanOk
<1>5. PromptTypeOK'
  BY <1>1, <1>2, <1>3, <1>4 DEF PromptTypeOK, PlanSafe, Early
<1>6. links[r] = NoLink /\ outcome[r] = outcome'[r] /\ EvidenceKept
  BY <1>2, <1>3 DEF Sound, RunInv, Unlinked, EvidenceKept
<1>7. "selecting" \in Early /\ "selecting" # "new" /\ "selecting" \notin Reviewed
  BY DEF Early, Reviewed
<1>8. pc[r] \in Early \ {"evaluating"}
  BY <1>2 DEF Early
<1> QED BY <1>1, <1>2, <1>4, <1>5, <1>6, <1>7, <1>8, QuietStep

LEMMA WriteFailsKeeps ==
  ASSUME PInv, NEW r \in Runs, WriteFails(r)
  PROVE  PInv'
<1>1. /\ pc[r] \in {"regenerating", "ending"} /\ todo' = [todo EXCEPT ![r] = <<>>]
      /\ UNCHANGED <<db, blob, links, resolutions, pc, overlay, outcome, workload>>
  BY DEF WriteFails, Plan
<1>2. Sound /\ PromptTypeOK
  BY Typed
<1>3. PlanSafe(r, <<>>) /\ PlanInv(<<>>)
  BY NothingPlanned DEF PlanOk
<1>4. PromptTypeOK' /\ pc' = [pc EXCEPT ![r] = pc[r]]
  BY <1>1, <1>2 DEF PromptTypeOK
<1>5. /\ EvidenceKept /\ r \in DOMAIN workload.jobs
      /\ (pc[r] \in Unlinked \/ outcome'[r] = "human") => links'[r] = NoLink
  BY <1>1, <1>2 DEF Sound, RunInv, EvidenceKept
<1>6. pc[r] # "new" /\ pc[r] \notin Early /\ pc[r] \notin Reviewed
  BY <1>1 DEF Early, Reviewed
<1> QED BY <1>1, <1>3, <1>4, <1>5, <1>6, QuietStep

LEMMA SelectKeeps ==
  ASSUME PInv, NEW r \in Runs, Select(r)
  PROVE  PInv'
<1>1. PICK lot \in BOOLEAN : \E o \in Selections(Project(r), Medium(r), lot) :
        overlay' = [overlay EXCEPT ![r] = o]
  BY DEF Select
<1>2. PICK o \in Selections(Project(r), Medium(r), lot) : overlay' = [overlay EXCEPT ![r] = o]
  BY <1>1
<1>3. /\ pc[r] = "selecting" /\ pc' = [pc EXCEPT ![r] = "translating"]
      /\ UNCHANGED <<db, blob, links, resolutions, outcome, todo, workload>>
  BY DEF Select, Goto
<1>4. Sound /\ PromptTypeOK
  BY Typed
<1>5. o \in [scope : {"own", "pair"}, mode : Modes, ids : SUBSET Ids]
  <2>1. ASSUME NEW p, NEW m, NEW status
        PROVE  Matching(p, m, status) \subseteq Ids /\ PairMatching(m, status) \subseteq Ids
    BY DEF Matching, InDb, InFiles, PairMatching
  <2>2. ASSUME NEW scope \in {"own", "pair"}, NEW canaries \in SUBSET Ids, NEW actives \in SUBSET Ids,
               NEW x \in Overlays(scope, canaries, actives, lot)
        PROVE  x \in [scope : {"own", "pair"}, mode : Modes, ids : SUBSET Ids]
    BY DEF Overlays, Modes
  <2>3. Control \in [scope : {"own", "pair"}, mode : Modes, ids : SUBSET Ids]
    BY DEF Control, Modes
  <2> QED BY <2>1, <2>2, <2>3 DEF Selections
<1>6. PromptTypeOK' /\ todo' = [todo EXCEPT ![r] = todo[r]]
  BY <1>2, <1>3, <1>4, <1>5 DEF PromptTypeOK, Early
<1>7. links[r] = NoLink /\ EvidenceKept /\ r \in DOMAIN workload.jobs
  BY <1>3, <1>4 DEF Sound, RunInv, Unlinked, EvidenceKept
<1>8. /\ "translating" \in Early /\ "translating" # "new" /\ "translating" \notin Reviewed
      /\ pc[r] \in Early \ {"evaluating"}
  BY <1>3 DEF Early, Reviewed
<1>9. PlanSafe(r, todo[r]) /\ (~workload.racing => PlanInv(todo[r]))
  BY OwnPlan
<1> QED BY <1>3, <1>6, <1>7, <1>8, <1>9, QuietStep

LEMMA PublishKeeps ==
  ASSUME PInv, NEW r \in Runs, NEW how \in {"low", "medium", "elsewhere", "human"}, Publish(r, how)
  PROVE  PInv'
<1> DEFINE next == IF r \in workload.evaluates THEN "evaluating" ELSE "draining"
<1>1. /\ pc[r] = "translating" /\ pc' = [pc EXCEPT ![r] = next]
      /\ outcome' = [outcome EXCEPT ![r] = how]
      /\ UNCHANGED <<db, blob, resolutions, overlay, todo, workload>>
  BY DEF Publish, Goto
<1>2. Sound /\ PromptTypeOK
  BY Typed
<1>3. links[r] = NoLink /\ r \in DOMAIN workload.jobs
  BY <1>1, <1>2 DEF Sound, RunInv, Unlinked
<1>4. LinkOf(r) \in Links /\ Elsewhere \in Links
  BY <1>2 DEF PromptTypeOK, LinkOf, Elsewhere, Links, Modes
<1>5. \/ links' = links
      \/ how # "human" /\ \E l \in Links : links' = [links EXCEPT ![r] = l]
  BY <1>4 DEF Publish
<1>6. /\ links' \in [Runs -> Links \cup {NoLink}]
      /\ \A x \in Runs : x # r => links'[x] = links[x]
      /\ how = "human" => links' = links
  <2>1. links \in [Runs -> Links \cup {NoLink}]
    BY <1>2 DEF PromptTypeOK
  <2> QED BY <1>5, <2>1
<1>7. next \in {"evaluating", "draining"}
  OBVIOUS
<1> HIDE DEF next
<1>8. PromptTypeOK' /\ todo' = [todo EXCEPT ![r] = todo[r]]
  BY <1>1, <1>2, <1>6, <1>7 DEF PromptTypeOK, Early
<1>9. EvidenceKept
  BY <1>1, <1>3, <1>6 DEF EvidenceKept
<1>10. /\ next \notin Unlinked /\ next # "new" /\ next \notin Reviewed
       /\ pc[r] \in Early \ {"evaluating"}
  BY <1>1, <1>7 DEF Early, Unlinked, Reviewed
<1>11. outcome'[r] = how /\ \A x \in Runs : x # r => outcome'[x] = outcome[x]
  BY <1>1, <1>2 DEF PromptTypeOK
<1>12. PlanSafe(r, todo[r]) /\ (~workload.racing => PlanInv(todo[r]))
  BY OwnPlan
<1> QED BY <1>1, <1>3, <1>6, <1>8, <1>9, <1>10, <1>11, <1>12, QuietStep

\* A step that plans anew keeps the invariant.
LEMMA PlanningStep ==
  ASSUME PInv, NEW r \in Runs, r \in DOMAIN workload.jobs, MayRead(r),
         NEW plan, PlanOk(r, plan),
         NEW next \in {"regenerating", "draining", "ending", "linking"},
         next = "linking" => pc[r] \in Reviewed,
         todo' = [todo EXCEPT ![r] = plan], pc' = [pc EXCEPT ![r] = next],
         UNCHANGED <<db, blob, links, resolutions, overlay, outcome, workload>>
  PROVE  PInv'
<1>1. Sound /\ PromptTypeOK
  BY Typed
<1>2. PlanSafe(r, plan) /\ PlanInv(plan)
  BY DEF PlanOk
<1>3. PromptTypeOK' /\ EvidenceKept
  BY <1>1, <1>2 DEF PromptTypeOK, PlanSafe, Unlinked, Reviewed, EvidenceKept
<1>4. RunInv(r)
  BY <1>1 DEF Sound
<1>5. next # "new" /\ next \notin Early /\ (next \in Reviewed => next = "linking")
  BY DEF Early, Reviewed
<1>6. (next \in Unlinked \/ outcome'[r] = "human") => links'[r] = NoLink
  BY <1>4, <1>5 DEF RunInv, Unlinked
<1>7. next \in Reviewed => outcome'[r] # "human"
  BY <1>4, <1>5 DEF RunInv
<1> QED BY <1>2, <1>3, <1>5, <1>6, <1>7, QuietStep

LEMMA EvaluateKeeps ==
  ASSUME PInv, NEW r \in Runs, Evaluate(r)
  PROVE  PInv'
<1>1. PICK plan \in EvaluationPlans(r) : todo' = [todo EXCEPT ![r] = plan]
  BY DEF Evaluate, Plan
<1>2. /\ pc[r] = "evaluating" /\ MayRead(r) /\ pc' = [pc EXCEPT ![r] = "regenerating"]
      /\ UNCHANGED <<db, blob, links, resolutions, overlay, outcome, workload>>
  BY DEF Evaluate, Goto
<1>3. Sound
  BY Typed
<1>4. r \in DOMAIN workload.jobs
  BY <1>2, <1>3 DEF Sound, RunInv
<1>5. PlanOk(r, plan)
  BY <1>2, <1>3, <1>4, EvaluationOk
<1> QED BY <1>1, <1>2, <1>4, <1>5, PlanningStep

LEMMA RegenerateKeeps ==
  ASSUME PInv, NEW r \in Runs, Regenerate(r)
  PROVE  PInv'
<1>1. PICK plan \in Promotions(Project(r), Medium(r)) : todo' = [todo EXCEPT ![r] = plan]
  BY DEF Regenerate, Plan
<1>2. /\ pc[r] = "regenerating" /\ MayRead(r) /\ pc' = [pc EXCEPT ![r] = "draining"]
      /\ UNCHANGED <<db, blob, links, resolutions, overlay, outcome, workload>>
  BY DEF Regenerate, Goto
<1>3. Sound
  BY Typed
<1>4. r \in DOMAIN workload.jobs
  BY <1>2, <1>3 DEF Sound, RunInv
<1>5. PlanOk(r, plan)
  BY <1>3, <1>4, PromotionsOk
<1> QED BY <1>1, <1>2, <1>4, <1>5, PlanningStep

LEMMA DrainKeeps ==
  ASSUME PInv, NEW r \in Runs, Drain(r)
  PROVE  PInv'
<1> DEFINE plan == IF outcome[r] = "low"
                   THEN <<Save(<<"mainline", Job(r)>>, MainlineProposal(r))>>
                   ELSE <<>>
<1>1. /\ pc[r] = "draining" /\ MayRead(r) /\ todo' = [todo EXCEPT ![r] = plan]
      /\ pc' = [pc EXCEPT ![r] = "ending"]
      /\ UNCHANGED <<db, blob, links, resolutions, overlay, outcome, workload>>
  BY DEF Drain, Plan, Goto
<1>2. Sound
  BY Typed
<1>3. r \in DOMAIN workload.jobs
  BY <1>1, <1>2 DEF Sound, RunInv
<1>4. PlanOk(r, plan)
  BY <1>2, <1>3, MainlineOk, NothingPlanned
<1> HIDE DEF plan
<1> QED BY <1>1, <1>3, <1>4, PlanningStep

LEMMA LearnKeeps ==
  ASSUME PInv, NEW r \in Runs, Learn(r)
  PROVE  PInv'
<1>1. /\ pc[r] = "learning" /\ MayRead(r) /\ pc' = [pc EXCEPT ![r] = "linking"]
      /\ UNCHANGED <<db, blob, links, resolutions, overlay, outcome, workload>>
  BY DEF Learn, Goto
<1>2. PICK first \in 1..Len(resolutions) :
        \/ todo' = [todo EXCEPT ![r] = <<>>]
        \/ \E row \in FeedbackRows(Project(r), SubSeq(resolutions, first, Len(resolutions))) :
              todo' = [todo EXCEPT ![r] = <<[at |-> "db", id |-> Feedback, row |-> row]>>]
  BY DEF Learn, Plan
<1>3. Sound
  BY Typed
<1>4. r \in DOMAIN workload.jobs /\ pc[r] \in Reviewed
  BY <1>1, <1>3 DEF Sound, RunInv, Reviewed
<1>5. \E plan : PlanOk(r, plan) /\ todo' = [todo EXCEPT ![r] = plan]
  BY <1>2, <1>3, <1>4, FeedbackOk, NothingPlanned
<1> QED BY <1>1, <1>4, <1>5, PlanningStep

LEMMA EndKeeps ==
  ASSUME PInv, NEW r \in Runs, End(r)
  PROVE  PInv'
<1> DEFINE next == IF outcome[r] = "human" THEN "waiting" ELSE "ended"
<1>1. /\ pc[r] = "ending" /\ pc' = [pc EXCEPT ![r] = next]
      /\ overlay' = overlay \/ overlay' = [overlay EXCEPT ![r] = Control]
      /\ outcome' = [outcome EXCEPT ![r] = "none"]
      /\ UNCHANGED <<db, blob, links, resolutions, todo, workload>>
  BY DEF End, Goto, Forget
<1>2. Sound /\ PromptTypeOK
  BY Typed
<1>3. next \in {"waiting", "ended"} /\ (next = "waiting" => outcome[r] = "human")
  OBVIOUS
<1> HIDE DEF next
<1>4. RunInv(r)
  BY <1>2 DEF Sound
<1>5. next = "waiting" => links[r] = NoLink
  BY <1>3, <1>4 DEF RunInv
<1>6. PromptTypeOK' /\ EvidenceKept /\ todo' = [todo EXCEPT ![r] = todo[r]]
  BY <1>1, <1>2, <1>3 DEF PromptTypeOK, Reviewed, Unlinked, EvidenceKept, Control, Modes
<1>7. outcome'[r] = "none" /\ \A x \in Runs : x # r => outcome'[x] = outcome[x]
  BY <1>1, <1>2 DEF PromptTypeOK
<1>8. next # "new" /\ next \notin Early /\ (next \in Unlinked => next = "waiting")
  BY <1>3 DEF Early, Unlinked, Reviewed
<1>9. r \in DOMAIN workload.jobs
  BY <1>1, <1>4 DEF RunInv
<1>10. PlanSafe(r, todo[r]) /\ (~workload.racing => PlanInv(todo[r]))
  BY OwnPlan
<1> QED BY <1>1, <1>5, <1>6, <1>7, <1>8, <1>9, <1>10, QuietStep

LEMMA ResolveKeeps ==
  ASSUME PInv, NEW r \in Runs, NEW verdict \in workload.verdicts, Resolve(r, verdict)
  PROVE  PInv'
<1> DEFINE e == [run |-> r, project |-> Project(r), verdict |-> verdict, mode |-> overlay[r].mode]
<1>1. /\ pc[r] = "waiting" /\ pc' = [pc EXCEPT ![r] = "learning"]
      /\ resolutions' = Append(resolutions, e)
      /\ UNCHANGED <<db, blob, links, overlay, outcome, todo, workload>>
  BY DEF Resolve, Goto
<1>2. Sound /\ PromptTypeOK
  BY Typed
<1>3. RunInv(r)
  BY <1>2 DEF Sound
<1>4. r \in DOMAIN workload.jobs /\ links[r] = NoLink /\ outcome[r] # "human"
  BY <1>1, <1>3 DEF RunInv, Unlinked, Reviewed
<1>5. Project(r) \in Projects /\ verdict \in Verdicts /\ overlay[r].mode \in Modes
  BY <1>2, <1>4, JobFacts, PromptAssumption DEF PromptTypeOK
<1>6. e \in Reviews
  BY <1>5 DEF Reviews
<1> HIDE DEF e
<1>7. PromptTypeOK' /\ todo' = [todo EXCEPT ![r] = todo[r]]
  BY <1>1, <1>2, <1>6 DEF PromptTypeOK, Unlinked, Reviewed
<1>8. EvidenceKept
  BY <1>1, <1>6 DEF EvidenceKept
<1>9. "learning" # "new" /\ "learning" \notin Early
  BY DEF Early
<1>10. PlanSafe(r, todo[r]) /\ (~workload.racing => PlanInv(todo[r]))
  BY OwnPlan
<1> QED BY <1>1, <1>4, <1>7, <1>8, <1>9, <1>10, QuietStep

LEMMA LinkResolvedKeeps ==
  ASSUME PInv, NEW r \in Runs, LinkResolved(r)
  PROVE  PInv'
<1>1. /\ pc[r] = "linking" /\ pc' = [pc EXCEPT ![r] = "ended"]
      /\ overlay' = [overlay EXCEPT ![r] = Control]
      /\ UNCHANGED <<db, blob, resolutions, outcome, todo, workload>>
  BY DEF LinkResolved, Goto, Forget
<1>2. Sound /\ PromptTypeOK
  BY Typed
<1>3. RunInv(r)
  BY <1>2 DEF Sound
<1>4. r \in DOMAIN workload.jobs /\ links[r] = NoLink /\ outcome[r] # "human"
  BY <1>1, <1>3 DEF RunInv, Unlinked, Reviewed
<1>5. LinkOf(r) \in Links /\ Elsewhere \in Links
  BY <1>2 DEF PromptTypeOK, LinkOf, Elsewhere, Links, Modes
<1>6. links' = links \/ \E l \in Links : links' = [links EXCEPT ![r] = l]
  BY <1>5 DEF LinkResolved
<1>7. /\ links' \in [Runs -> Links \cup {NoLink}]
      /\ \A x \in Runs : x # r => links'[x] = links[x]
  BY <1>2, <1>6 DEF PromptTypeOK
<1>8. PromptTypeOK' /\ todo' = [todo EXCEPT ![r] = todo[r]]
  BY <1>1, <1>2, <1>7 DEF PromptTypeOK, Control, Modes
<1>9. EvidenceKept
  BY <1>1, <1>4, <1>7 DEF EvidenceKept
<1>10. "ended" # "new" /\ "ended" \notin Early /\ "ended" \notin Unlinked /\ "ended" \notin Reviewed
  BY DEF Early, Unlinked, Reviewed
<1>11. PlanSafe(r, todo[r]) /\ (~workload.racing => PlanInv(todo[r]))
  BY OwnPlan
<1> QED BY <1>1, <1>4, <1>7, <1>8, <1>9, <1>10, <1>11, QuietStep

LEMMA DiesKeeps ==
  ASSUME PInv, NEW r \in Runs, Dies(r)
  PROVE  PInv'
<1>1. /\ r \in Live /\ pc' = [pc EXCEPT ![r] = "ended"]
      /\ overlay' = [overlay EXCEPT ![r] = Control]
      /\ todo' = [todo EXCEPT ![r] = <<>>]
      /\ outcome' = [outcome EXCEPT ![r] = "none"]
      /\ UNCHANGED <<db, blob, links, resolutions, workload>>
  BY DEF Dies, Goto, Forget, Plan
<1>2. Sound /\ PromptTypeOK
  BY Typed
<1>3. r \in DOMAIN workload.jobs
  BY <1>1, <1>2 DEF Sound, RunInv, Live
<1>4. PlanSafe(r, <<>>) /\ PlanInv(<<>>)
  BY NothingPlanned DEF PlanOk
<1>5. PromptTypeOK' /\ EvidenceKept
  BY <1>1, <1>2 DEF PromptTypeOK, Control, Modes, EvidenceKept
<1>6. outcome'[r] = "none" /\ \A x \in Runs : x # r => outcome'[x] = outcome[x]
  BY <1>1, <1>2 DEF PromptTypeOK
<1>7. "ended" # "new" /\ "ended" \notin Early /\ "ended" \notin Unlinked /\ "ended" \notin Reviewed
  BY DEF Early, Unlinked, Reviewed
<1> QED BY <1>1, <1>3, <1>4, <1>5, <1>6, <1>7, QuietStep

LEMMA HeadAndTail ==
  ASSUME NEW plan \in Seq(Writes), plan # <<>>
  PROVE  /\ Len(plan) \in Nat /\ DOMAIN plan = 1..Len(plan) /\ 1 \in DOMAIN plan
         /\ plan[1] \in Writes /\ Head(plan) = plan[1]
         /\ Tail(plan) \in Seq(Writes) /\ Len(Tail(plan)) = Len(plan) - 1
         /\ DOMAIN Tail(plan) = 1..(Len(plan) - 1)
         /\ \A k \in DOMAIN Tail(plan) : k + 1 \in DOMAIN plan /\ Tail(plan)[k] = plan[k + 1]
OBVIOUS

\* The plan after its first write has reached the file: the row is the next.
LEMMA HeadToRow ==
  ASSUME NEW plan \in Seq(Writes), plan # <<>>, NEW after,
         after = <<[plan[1] EXCEPT !.at = "db"]>> \o Tail(plan)
  PROVE  /\ after \in Seq(Writes) /\ Len(after) = Len(plan) /\ DOMAIN after = DOMAIN plan
         /\ \A k \in DOMAIN plan : after[k].id = plan[k].id /\ after[k].row = plan[k].row
         /\ after[1].at = "db" /\ \A k \in DOMAIN plan : k # 1 => after[k] = plan[k]
<1> DEFINE w == [plan[1] EXCEPT !.at = "db"]
<1>1. /\ Len(plan) \in Nat /\ DOMAIN plan = 1..Len(plan) /\ 1 \in DOMAIN plan /\ plan[1] \in Writes
      /\ Tail(plan) \in Seq(Writes) /\ Len(Tail(plan)) = Len(plan) - 1
      /\ DOMAIN Tail(plan) = 1..(Len(plan) - 1)
      /\ \A k \in DOMAIN Tail(plan) : k + 1 \in DOMAIN plan /\ Tail(plan)[k] = plan[k + 1]
  BY HeadAndTail
<1>2. w \in Writes /\ w.at = "db" /\ w.id = plan[1].id /\ w.row = plan[1].row
  BY <1>1 DEF Writes
<1> DEFINE rest == Tail(plan)
           n == Len(plan)
<1>3. rest \in Seq(Writes) /\ n \in Nat /\ Len(rest) = n - 1 /\ n >= 1
  BY <1>1
<1> HIDE DEF w, rest
<1> DEFINE first == <<w>>
<1>4. first \in Seq(Writes) /\ Len(first) = 1 /\ first[1] = w
  BY <1>2
<1>5. after = first \o rest
  BY DEF w, rest
<1> HIDE DEF first, n
<1>6. /\ after \in Seq(Writes) /\ Len(after) = 1 + (n - 1)
      /\ \A k \in 1..(1 + (n - 1)) : after[k] = IF k <= 1 THEN first[k] ELSE rest[k - 1]
  <2>1. /\ first \o rest \in Seq(Writes) /\ Len(first \o rest) = Len(first) + Len(rest)
        /\ \A k \in 1..(Len(first) + Len(rest)) :
              (first \o rest)[k] = IF k <= Len(first) THEN first[k] ELSE rest[k - Len(first)]
    BY <1>3, <1>4, ConcatProperties
  <2> QED BY <1>3, <1>4, <1>5, <2>1
<1>7. Len(after) = n /\ DOMAIN after = 1..n /\ after[1] = w
  BY <1>3, <1>4, <1>6
<1>8. ASSUME NEW k \in 1..n, k # 1 PROVE after[k] = plan[k]
  <2>1. after[k] = rest[k - 1] /\ k - 1 \in 1..(n - 1) /\ (k - 1) + 1 = k
    BY <1>3, <1>6, <1>8
  <2> QED BY <1>1, <2>1 DEF rest, n
<1> QED BY <1>1, <1>2, <1>6, <1>7, <1>8 DEF n

\* Once the head's file is written the plan remains one.
LEMMA FileWritten ==
  ASSUME Sound, NEW plan \in Seq(Writes), plan # <<>>, PlanInv(plan), plan[1].at = "blob",
         db' = db, blob' = [blob EXCEPT ![plan[1].id] = plan[1].row],
         NEW after, after = <<[plan[1] EXCEPT !.at = "db"]>> \o Tail(plan)
  PROVE  PlanInv(after)'
<1> DEFINE w == plan[1]
<1>1. /\ Len(after) = Len(plan) /\ DOMAIN after = DOMAIN plan
      /\ \A k \in DOMAIN plan : after[k].id = plan[k].id /\ after[k].row = plan[k].row
      /\ after[1].at = "db" /\ \A k \in DOMAIN plan : k # 1 => after[k] = plan[k]
  BY HeadToRow
<1>2. w \in Writes /\ 1 \in DOMAIN plan
  BY HeadAndTail
<1>3. blob'[w.id] = w.row /\ \A i \in Ids : i # w.id => blob'[i] = blob[i]
  BY <1>2 DEF Sound, PromptTypeOK, Writes
<1>4. \A k \in DOMAIN plan : plan[k].id \in Ids
  <2>1. \A k \in DOMAIN plan : plan[k] \in Writes
    OBVIOUS
  <2> QED BY <2>1 DEF Writes
<1>5. \A k, l \in DOMAIN after : after[k].id = after[l].id => k = l
  <2> SUFFICES ASSUME NEW k \in DOMAIN after, NEW l \in DOMAIN after, after[k].id = after[l].id
               PROVE  k = l
    OBVIOUS
  <2>1. plan[k].id = plan[l].id /\ k \in DOMAIN plan /\ l \in DOMAIN plan
    BY <1>1
  <2> QED BY <2>1 DEF PlanInv
<1>6. \A k \in DOMAIN after : after[k].row.status = "active" => k = Len(after)
  <2>1. \A k \in DOMAIN plan : plan[k].row.status = "active" => k = Len(plan)
    BY DEF PlanInv
  <2> QED BY <1>1, <2>1
<1>7. ASSUME NEW k \in DOMAIN after, after[k].row.status = "active", after[k].row.medium # NoMedium,
             NEW j \in Rivals(after[k].id, after[k].row)'
      PROVE  \E m \in DOMAIN after : after[m].id = j /\ after[m].row.status # "active"
  <2>1. j \in Rivals(plan[k].id, plan[k].row)
    BY <1>1, <1>7 DEF Rivals
  <2>2. plan[k].row.status = "active" /\ plan[k].row.medium # NoMedium
    BY <1>1, <1>7
  <2>3. PICK m \in DOMAIN plan : plan[m].id = j /\ plan[m].row.status # "active"
    BY <1>1, <2>1, <2>2 DEF PlanInv
  <2> QED BY <1>1, <2>3
<1>8. ASSUME NEW k \in DOMAIN after PROVE ComesBackAsNew(after[k])'
  <2>1. ComesBackAsNew(plan[k])
    BY <1>1 DEF PlanInv
  <2>2. CASE k = 1
    BY <1>1, <1>2, <1>3, <2>1, <2>2 DEF ComesBackAsNew
  <2>3. CASE k # 1
    <3>1. after[k] = plan[k] /\ blob'[plan[k].id] = blob[plan[k].id]
      BY <1>1, <1>2, <1>3, <1>4, <2>3 DEF PlanInv
    <3> QED BY <2>1, <3>1 DEF ComesBackAsNew
  <2> QED BY <2>2, <2>3
<1> QED BY <1>5, <1>6, <1>7, <1>8 DEF PlanInv

\* Once the head's row is written the rest remains a plan, and no medium has two active rows.
LEMMA RowWritten ==
  ASSUME Sound, OneActive, NEW plan \in Seq(Writes), plan # <<>>, PlanInv(plan),
         db' = [db EXCEPT ![plan[1].id] = plan[1].row], blob' = blob
  PROVE  PlanInv(Tail(plan))' /\ OneActive'
<1> DEFINE w == plan[1]
           rest == Tail(plan)
           n == Len(plan)
<1>1. /\ n \in Nat /\ DOMAIN plan = 1..n /\ 1 \in DOMAIN plan /\ w \in Writes
      /\ Len(rest) = n - 1 /\ DOMAIN rest = 1..(n - 1)
      /\ \A k \in DOMAIN rest : k + 1 \in DOMAIN plan /\ rest[k] = plan[k + 1]
  BY HeadAndTail
<1>2. w.id \in Ids /\ w.row \in Rows /\ w.row # NoRow
  BY <1>1 DEF Writes, Rows, NoRow, RowStatuses, Retired
<1>3. db'[w.id] = w.row /\ \A i \in Ids : i # w.id => db'[i] = db[i]
  BY <1>2 DEF Sound, PromptTypeOK
<1>4. \A k \in DOMAIN plan : plan[k].id \in Ids
  <2>1. \A k \in DOMAIN plan : plan[k] \in Writes
    OBVIOUS
  <2> QED BY <2>1 DEF Writes
<1>5. w.row.status = "active" => n = 1
  BY <1>1 DEF PlanInv
<1> HIDE DEF rest, n
<1>6. \A k, l \in DOMAIN rest : rest[k].id = rest[l].id => k = l
  BY <1>1 DEF PlanInv
<1>7. \A k \in DOMAIN rest : rest[k].row.status = "active" => k = Len(rest)
  <2> SUFFICES ASSUME NEW k \in DOMAIN rest, rest[k].row.status = "active" PROVE k = n - 1
    BY <1>1
  <2>1. k + 1 = n
    BY <1>1 DEF PlanInv, n
  <2> QED BY <1>1, <2>1
<1>8. ASSUME NEW k \in DOMAIN rest, rest[k].row.status = "active", rest[k].row.medium # NoMedium,
             NEW j \in Rivals(rest[k].id, rest[k].row)'
      PROVE  \E m \in DOMAIN rest : rest[m].id = j /\ rest[m].row.status # "active"
  <2>1. /\ j \in Ids /\ j # rest[k].id /\ db'[j] # NoRow /\ db'[j].status = "active"
        /\ db'[j].medium = rest[k].row.medium /\ db'[j].project = rest[k].row.project
    BY <1>8 DEF Rivals
  <2>2. j # w.id
    <3> SUFFICES ASSUME j = w.id PROVE FALSE
      OBVIOUS
    <3>1. n = 1
      BY <1>3, <1>5, <2>1
    <3> QED BY <1>1, <3>1
  <2>3. j \in Rivals(plan[k + 1].id, plan[k + 1].row)
    BY <1>1, <1>3, <2>1, <2>2 DEF Rivals
  <2>4. plan[k + 1].row.status = "active" /\ plan[k + 1].row.medium # NoMedium /\ k + 1 \in DOMAIN plan
    BY <1>1, <1>8
  <2>5. PICK m \in DOMAIN plan : plan[m].id = j /\ plan[m].row.status # "active"
    BY <2>3, <2>4 DEF PlanInv
  <2>6. m - 1 \in DOMAIN rest /\ (m - 1) + 1 = m
    BY <1>1, <2>2, <2>5
  <2>7. rest[m - 1] = plan[m]
    BY <1>1, <2>6
  <2> QED BY <2>5, <2>6, <2>7
<1>9. ASSUME NEW k \in DOMAIN rest PROVE ComesBackAsNew(rest[k])'
  <2>1. k + 1 \in DOMAIN plan /\ k + 1 # 1 /\ rest[k] = plan[k + 1]
    BY <1>1
  <2>2. ComesBackAsNew(plan[k + 1])
    BY <2>1 DEF PlanInv
  <2>3. plan[k + 1].id # w.id
    BY <1>1, <2>1 DEF PlanInv
  <2>4. db'[plan[k + 1].id] = db[plan[k + 1].id]
    BY <1>3, <1>4, <2>1, <2>3
  <2>5. ASSUME NEW x, x = plan[k + 1] PROVE ComesBackAsNew(x)'
    BY <2>2, <2>4, <2>5 DEF ComesBackAsNew
  <2> QED BY <2>1, <2>5
<1>10. PlanInv(rest)'
  <2>1. ASSUME NEW same, same = rest PROVE PlanInv(same)'
    BY <1>6, <1>7, <1>8, <1>9, <2>1 DEF PlanInv
  <2> QED BY <2>1 DEF rest
<1>11. ASSUME NEW i \in Ids, db'[i] # NoRow, db'[i].status = "active", db'[i].medium # NoMedium,
              NEW j \in Rivals(i, db[i])'
       PROVE  FALSE
  <2>1. /\ j \in Ids /\ j # i /\ db'[j] # NoRow /\ db'[j].status = "active"
        /\ db'[j].medium = db'[i].medium /\ db'[j].project = db'[i].project
    BY <1>11 DEF Rivals
  <2>2. ASSUME NEW x \in Ids, x # w.id, db'[x] # NoRow, db'[x].status = "active",
               w.row.status = "active", w.row.medium # NoMedium,
               db'[x].medium = w.row.medium, db'[x].project = w.row.project
        PROVE  FALSE
    <3>1. x \in Rivals(plan[1].id, plan[1].row)
      BY <1>3, <2>2 DEF Rivals
    <3>2. PICK m \in DOMAIN plan : plan[m].id = x /\ plan[m].row.status # "active"
      BY <1>1, <2>2, <3>1 DEF PlanInv
    <3>3. m = 1
      BY <1>1, <1>5, <2>2, <3>2
    <3> QED BY <2>2, <3>2, <3>3
  <2>3. CASE i = w.id
    BY <1>3, <1>11, <2>1, <2>2, <2>3
  <2>4. CASE j = w.id
    BY <1>3, <1>11, <2>1, <2>2, <2>4
  <2>5. CASE i # w.id /\ j # w.id
    BY <1>3, <1>11, <2>1, <2>5 DEF OneActive, Rivals
  <2> QED BY <2>3, <2>4, <2>5
<1>12. OneActive'
  BY <1>11 DEF OneActive
<1> QED BY <1>10, <1>12 DEF rest

LEMMA WriteNextKeeps ==
  ASSUME PInv, NEW r \in Runs, WriteNext(r)
  PROVE  PInv'
<1> DEFINE plan == todo[r]
           w == plan[1]
           written == <<[w EXCEPT !.at = "db"]>> \o Tail(plan)
<1>1. Sound /\ PromptTypeOK /\ todo \in [Runs -> Seq(Writes)]
  BY Typed
<1>2. plan \in Seq(Writes) /\ plan # <<>>
  BY <1>1 DEF WriteNext
<1>3. /\ 1 \in DOMAIN plan /\ w \in Writes /\ Head(plan) = w /\ Tail(plan) \in Seq(Writes)
      /\ \A k \in DOMAIN Tail(plan) : k + 1 \in DOMAIN plan /\ Tail(plan)[k] = plan[k + 1]
  BY <1>2, HeadAndTail
<1>4. /\ written \in Seq(Writes) /\ DOMAIN written = DOMAIN plan
      /\ \A k \in DOMAIN plan : written[k].id = plan[k].id /\ written[k].row = plan[k].row
  BY <1>2, HeadToRow
<1>5. w.id \in Ids /\ w.row \in Rows
  BY <1>3 DEF Writes
<1>6. \/ /\ w.at = "blob" /\ blob' = [blob EXCEPT ![w.id] = w.row] /\ db' = db
         /\ todo' = [todo EXCEPT ![r] = written]
      \/ /\ w.at = "db" /\ db' = [db EXCEPT ![w.id] = w.row] /\ blob' = blob
         /\ todo' = [todo EXCEPT ![r] = Tail(plan)]
  BY <1>3 DEF WriteNext
<1>7. UNCHANGED <<links, resolutions, pc, overlay, outcome, workload>>
  BY DEF WriteNext
<1>8. EvidenceKept
  BY <1>7 DEF EvidenceKept
<1>9. \A i, row : Good(i, row) => Good(i, row)'
  BY <1>1, <1>8, GoodStays
<1>10. RunInv(r) /\ Good(w.id, w.row)
  BY <1>1, <1>3 DEF Sound, RunInv
<1> HIDE DEF written
<1>11. /\ \/ todo'[r] = written
          \/ todo'[r] = Tail(plan)
       /\ todo' \in [Runs -> Seq(Writes)]
       /\ \A x \in Runs : x # r => todo'[x] = todo[x]
  BY <1>1, <1>3, <1>4, <1>6
<1>12. \A k \in DOMAIN todo'[r] : \E l \in DOMAIN plan : todo'[r][k].id = plan[l].id /\ todo'[r][k].row = plan[l].row
  BY <1>3, <1>4, <1>11
<1>13. /\ \A i \in Ids : db'[i] = db[i] \/ (i = w.id /\ db'[i] = w.row)
       /\ \A i \in Ids : blob'[i] = blob[i] \/ (i = w.id /\ blob'[i] = w.row)
       /\ db' \in [Ids -> Rows \cup {NoRow}] /\ blob' \in [Ids -> Rows \cup {NoRow}]
  BY <1>1, <1>5, <1>6 DEF PromptTypeOK
<1>14. PromptTypeOK'
  BY <1>1, <1>7, <1>11, <1>13 DEF PromptTypeOK
<1>15. ASSUME NEW i \in Ids PROVE Good(i, db[i])' /\ Good(i, blob[i])'
  <2>1. Good(i, db[i]) /\ Good(i, blob[i])
    BY <1>1 DEF Sound
  <2>2. ASSUME NEW row, row = db'[i] PROVE Good(i, row)'
    BY <1>9, <1>10, <1>13, <2>1, <2>2
  <2>3. ASSUME NEW row, row = blob'[i] PROVE Good(i, row)'
    BY <1>9, <1>10, <1>13, <2>1, <2>3
  <2> QED BY <2>2, <2>3
<1>16. ASSUME NEW x \in Runs, NEW k \in DOMAIN todo'[x]
       PROVE  \E y \in Runs : \E l \in DOMAIN todo[y] :
                 /\ (y = x) /\ todo'[x][k].id = todo[y][l].id /\ todo'[x][k].row = todo[y][l].row
  BY <1>11, <1>12
<1>17. ASSUME NEW x \in Runs PROVE RunInv(x)'
  <2>1. RunInv(x)
    BY <1>1 DEF Sound
  <2>2. pc[x] = "new" => todo'[x] = <<>>
    BY <1>2, <1>10, <1>11, <2>1 DEF RunInv
  <2>3. (\A k \in DOMAIN todo[x] : Good(todo[x][k].id, todo[x][k].row))'
    <3>1. ASSUME NEW k \in DOMAIN todo'[x] PROVE Good(todo'[x][k].id, todo'[x][k].row)
      BY <1>16, <2>1 DEF RunInv
    <3>2. ASSUME NEW same, same = todo'[x] PROVE (\A k \in DOMAIN same : Good(same[k].id, same[k].row))'
      BY <1>9, <3>1, <3>2
    <3> QED BY <3>2
  <2>4. ASSUME pc[x] \in Early PROVE Unevaluated(x)'
    <3>1. Unevaluated(x)
      BY <2>1, <2>4 DEF RunInv
    <3>2. w.id # <<"evaluation", x>>
      BY <1>3, <3>1 DEF Unevaluated
    <3>3. <<"evaluation", x>> \in Ids
      BY DEF Ids
    <3> QED BY <1>13, <1>16, <3>1, <3>2, <3>3 DEF Unevaluated
  <2> QED BY <1>7, <2>1, <2>2, <2>3, <2>4 DEF RunInv
<1>18. ASSUME ~workload.racing PROVE Serial'
  <2>1. Serial
    BY <1>18 DEF PInv
  <2>2. PlanInv(plan) /\ OneActive /\ \A x \in Runs : x # r => todo[x] = <<>>
    BY <1>2, <2>1 DEF Serial
  <2>3. PlanInv(<<>>)'
    BY DEF PlanInv
  <2>4. PlanInv(todo[r])' /\ OneActive'
    <3>1. ASSUME w.at = "blob", NEW same, same = todo[r], NEW after, after = todo'[r]
          PROVE  PlanInv(after)' /\ OneActive'
      <4>1. after = <<[same[1] EXCEPT !.at = "db"]>> \o Tail(same)
        BY <1>1, <1>6, <3>1 DEF written
      <4>2. /\ same \in Seq(Writes) /\ same # <<>> /\ PlanInv(same) /\ same[1].at = "blob"
            /\ db' = db /\ blob' = [blob EXCEPT ![same[1].id] = same[1].row]
        BY <1>2, <1>6, <2>2, <3>1
      <4>3. PlanInv(after)'
        BY <1>1, <4>1, <4>2, FileWritten
      <4>4. OneActive'
        BY <2>2, <4>2 DEF OneActive, Rivals
      <4> QED BY <4>3, <4>4
    <3>2. ASSUME w.at = "db", NEW same, same = todo[r], NEW after, after = todo'[r]
          PROVE  PlanInv(after)' /\ OneActive'
      <4>1. after = Tail(same)
        BY <1>1, <1>6, <3>2
      <4>2. /\ same \in Seq(Writes) /\ same # <<>> /\ PlanInv(same)
            /\ db' = [db EXCEPT ![same[1].id] = same[1].row] /\ blob' = blob
        BY <1>2, <1>6, <2>2, <3>2
      <4>3. PlanInv(Tail(same))' /\ OneActive'
        BY <1>1, <2>2, <4>2, RowWritten
      <4> QED BY <4>1, <4>3
    <3>3. ASSUME NEW same, same = todo[r], NEW after, after = todo'[r]
          PROVE  PlanInv(after)' /\ OneActive'
      BY <1>6, <3>1, <3>2, <3>3
    <3> QED BY <3>3
  <2>5. ASSUME NEW x \in Runs PROVE PlanInv(todo[x])'
    <3>1. CASE x # r
      BY <1>11, <2>2, <2>3, <3>1
    <3> QED BY <2>4, <3>1
  <2>6. \A x, y \in Runs : (todo'[x] # <<>> /\ todo'[y] # <<>>) => x = y
    BY <1>11, <2>2
  <2> QED BY <2>4, <2>5, <2>6 DEF Serial
<1> QED BY <1>7, <1>14, <1>15, <1>17, <1>18 DEF PInv, Sound

LEMMA StartsSound ==
  ASSUME Init
  PROVE  PInv
<1>1. PromptTypeOK
  BY DEF Init, PromptTypeOK, Control, Modes, Early
<1>2. /\ db = [i \in Ids |-> NoRow] /\ blob = [i \in Ids |-> NoRow]
      /\ links = [x \in Runs |-> NoLink] /\ pc = [x \in Runs |-> "new"]
      /\ outcome = [x \in Runs |-> "none"] /\ todo = [x \in Runs |-> <<>>]
  BY DEF Init
<1>3. \A i \in Ids : Good(i, db[i]) /\ Good(i, blob[i])
  BY <1>2 DEF Good
<1>4. ASSUME NEW r \in Runs PROVE RunInv(r)
  <2>1. Unevaluated(r)
    <3>1. <<"evaluation", r>> \in Ids
      BY DEF Ids
    <3> QED BY <1>2, <3>1 DEF Unevaluated
  <2> QED BY <1>2, <2>1 DEF RunInv, Reviewed
<1>5. Serial
  <2>1. OneActive
    BY <1>2 DEF OneActive
  <2>2. PlanInv(<<>>)
    BY DEF PlanInv
  <2> QED BY <1>2, <2>1, <2>2 DEF Serial
<1> QED BY <1>1, <1>3, <1>4, <1>5 DEF PInv, Sound

LEMMA StepKeeps ==
  ASSUME PInv, [Next]_vars
  PROVE  PInv'
<1>1. ASSUME UNCHANGED vars PROVE PInv'
  <2>1. /\ PromptTypeOK' /\ \A i \in Ids : Good(i, db[i])' /\ Good(i, blob[i])'
        /\ \A r \in Runs : RunInv(r)'
    <3>1. Sound
      BY Typed
    <3>2. PromptTypeOK'
      BY <1>1, <3>1 DEF Sound, PromptTypeOK, vars
    <3>3. EvidenceKept
      BY <1>1 DEF vars, EvidenceKept
    <3>4. \A i, row : Good(i, row) => Good(i, row)'
      BY <3>1, <3>3, GoodStays DEF Sound
    <3>5. ASSUME NEW r \in Runs PROVE RunInv(r)'
      <4>1. RunInv(r)
        BY <3>1 DEF Sound
      <4>2. Unevaluated(r) => Unevaluated(r)'
        BY <1>1 DEF vars, Unevaluated
      <4>3. ASSUME NEW k \in DOMAIN todo'[r] PROVE Good(todo'[r][k].id, todo'[r][k].row)
        BY <1>1, <4>1 DEF vars, RunInv
      <4>4. ASSUME NEW same, same = todo'[r]
            PROVE  (\A k \in DOMAIN same : Good(same[k].id, same[k].row))'
        BY <3>4, <4>3, <4>4
      <4>5. (\A k \in DOMAIN todo[r] : Good(todo[r][k].id, todo[r][k].row))'
        BY <4>4
      <4> QED BY <1>1, <4>1, <4>2, <4>5 DEF RunInv, vars
    <3>6. db' = db /\ blob' = blob
      BY <1>1 DEF vars
    <3> QED BY <3>1, <3>2, <3>3, <3>5, <3>6, GoodRowsStay
  <2>2. ASSUME ~workload'.racing PROVE Serial'
    <3>1. Serial
      BY <1>1, <2>2 DEF PInv, vars
    <3>2. \A some : PlanInv(some) => PlanInv(some)'
      BY <1>1 DEF PlanInv, Rivals, ComesBackAsNew, vars
    <3>3. todo' = todo
      BY <1>1 DEF vars
    <3>4. \A r \in Runs : PlanInv(todo[r])'
      BY <3>1, <3>2, <3>3 DEF Serial
    <3>5. OneActive'
      BY <1>1, <3>1 DEF Serial, OneActive, Rivals, vars
    <3> QED BY <3>1, <3>3, <3>4, <3>5 DEF Serial
  <2> QED BY <2>1, <2>2 DEF PInv, Sound
<1>2. ASSUME NEW r \in Runs, Begin(r) PROVE PInv'
  BY <1>2, BeginKeeps
<1>3. ASSUME NEW r \in Runs, WriteNext(r) PROVE PInv'
  BY <1>3, WriteNextKeeps
<1>4. ASSUME NEW r \in Runs, WriteFails(r) PROVE PInv'
  BY <1>4, WriteFailsKeeps
<1>5. ASSUME NEW r \in Runs, Select(r) PROVE PInv'
  BY <1>5, SelectKeeps
<1>6. ASSUME NEW r \in Runs, NEW how \in {"low", "medium", "elsewhere", "human"}, Publish(r, how)
      PROVE  PInv'
  BY <1>6, PublishKeeps
<1>7. ASSUME NEW r \in Runs, Evaluate(r) PROVE PInv'
  BY <1>7, EvaluateKeeps
<1>8. ASSUME NEW r \in Runs, Regenerate(r) PROVE PInv'
  BY <1>8, RegenerateKeeps
<1>9. ASSUME NEW r \in Runs, Drain(r) PROVE PInv'
  BY <1>9, DrainKeeps
<1>10. ASSUME NEW r \in Runs, End(r) PROVE PInv'
  BY <1>10, EndKeeps
<1>11. ASSUME NEW r \in Runs, NEW verdict \in workload.verdicts, Resolve(r, verdict) PROVE PInv'
  BY <1>11, ResolveKeeps
<1>12. ASSUME NEW r \in Runs, Learn(r) PROVE PInv'
  BY <1>12, LearnKeeps
<1>13. ASSUME NEW r \in Runs, LinkResolved(r) PROVE PInv'
  BY <1>13, LinkResolvedKeeps
<1>14. ASSUME NEW r \in Runs, Dies(r) PROVE PInv'
  BY <1>14, DiesKeeps
<1>15. CASE Finished
  BY <1>1, <1>15 DEF Finished
<1> QED
  BY <1>1, <1>2, <1>3, <1>4, <1>5, <1>6, <1>7, <1>8, <1>9, <1>10, <1>11, <1>12, <1>13, <1>14, <1>15
  DEF Next

LEMMA PromptInvariant == Spec => []PInv
<1>1. Init => PInv
  BY StartsSound
<1>2. PInv /\ [Next]_vars => PInv'
  BY StepKeeps
<1> QED BY <1>1, <1>2, PTL DEF Spec

-----------------------------------------------------------------------------
(* The theorems.                                                           *)

\* Every variable keeps its type.
THEOREM TypeCorrect == Spec => []PromptTypeOK
<1>1. PInv => PromptTypeOK
  BY DEF PInv, Sound
<1> QED BY <1>1, PromptInvariant, PTL

\* No overlay is active, as a row or as a file, without the canary runs or the reviews that earn
\* it, whether the runs overlap or not (_update_canary_status, _updated_feedback_proposal_status).
THEOREM ActivationIsEarned == Spec => []ActivationEarned
<1>1. PInv => ActivationEarned
  <2> SUFFICES ASSUME PInv, NEW i \in Ids PROVE Earned(db[i]) /\ Earned(blob[i])
    BY DEF ActivationEarned
  <2>1. Good(i, db[i]) /\ Good(i, blob[i])
    BY DEF PInv, Sound
  <2>2. Earned(NoRow)
    BY DEF Earned, NoRow
  <2> QED BY <2>1, <2>2 DEF Good
<1> QED BY <1>1, PromptInvariant, PTL

\* No overlay reaches other projects without enough runs of both arms, or without reviews of
\* enough projects in its favour, whether the runs overlap or not.
THEOREM PairScopeIsEarned == Spec => []PairScopeEarned
<1>1. PInv => PairScopeEarned
  <2> SUFFICES ASSUME PInv, NEW i \in Ids PROVE PairEarned(db[i]) /\ PairEarned(blob[i])
    BY DEF PairScopeEarned
  <2>1. Good(i, db[i]) /\ Good(i, blob[i])
    BY DEF PInv, Sound
  <2> QED BY <2>1 DEF Good, PairEarned
<1> QED BY <1>1, PromptInvariant, PTL

\* When runs do not overlap between a read and its writes, at most one proposal of a medium is
\* active, at whichever write an evaluation stops.
THEOREM OneActiveAMedium == Spec => []OneActivePerMedium
<1>1. PInv => OneActivePerMedium
  <2> SUFFICES ASSUME PInv, ~workload.racing, NEW i \in Ids, NEW j \in Ids,
                      db[i] # NoRow, db[j] # NoRow,
                      db[i].status = "active", db[j].status = "active",
                      db[i].medium # NoMedium, db[i].medium = db[j].medium,
                      db[i].project = db[j].project
               PROVE  i = j
    BY DEF OneActivePerMedium
  <2>1. Rivals(i, db[i]) = {}
    BY DEF PInv, Serial, OneActive
  <2> QED BY <2>1 DEF Rivals
<1> QED BY <1>1, PromptInvariant, PTL

\* When runs do not overlap between a read and its writes, a retired proposal comes back only as
\* the proposal of a job that was run again.
THEOREM RetiredStay == Spec => RetiredStaysRetired
<1> DEFINE Kept == ~workload.racing => \A i \in Ids :
                      (db[i].status \in Retired /\ db'[i].status \notin Retired /\ i # Feedback) =>
                         i[1] = "mainline" /\ blob[i].status = "proposed"
<1>1. PInv /\ [Next]_vars => Kept
  <2> SUFFICES ASSUME PInv, [Next]_vars, ~workload.racing, NEW i \in Ids,
                      db[i].status \in Retired, db'[i].status \notin Retired, i # Feedback
               PROVE  i[1] = "mainline" /\ blob[i].status = "proposed"
    OBVIOUS
  <2>1. PICK r \in Runs : WriteNext(r)
    <3>1. db' # db
      OBVIOUS
    <3> QED BY <3>1 DEF Next, vars, Begin, WriteFails, Select, Publish, Evaluate, Regenerate, Drain,
                        End, Resolve, Learn, LinkResolved, Dies, Finished
  <2> DEFINE plan == todo[r]
             w == plan[1]
  <2>2. plan \in Seq(Writes) /\ plan # <<>> /\ db \in [Ids -> Rows \cup {NoRow}]
    BY <2>1 DEF WriteNext, PInv, Sound, PromptTypeOK
  <2>3. 1 \in DOMAIN plan /\ w \in Writes /\ Head(plan) = w
    BY <2>2, HeadAndTail
  <2>4. w.at = "db" /\ db' = [db EXCEPT ![w.id] = w.row]
    BY <2>1, <2>3 DEF WriteNext
  <2>5. w.id = i /\ w.row = db'[i]
    BY <2>2, <2>4
  <2>6. ComesBackAsNew(w)
    BY <2>3 DEF PInv, Serial, PlanInv
  <2> QED BY <2>4, <2>5, <2>6 DEF ComesBackAsNew
<1>2. Spec => [][Kept]_vars
  BY <1>1, PromptInvariant, PTL DEF Spec
<1> QED BY <1>2 DEF RetiredStaysRetired
=============================================================================
