---------------------------- MODULE AssetRegistry ----------------------------
(***************************************************************************)
(* How runs find out that they are about the same medium: the asset        *)
(* resolver of storage/operational.py, which a run goes through when it is *)
(* created (api.py) and again when its graph starts (nodes/ingest.py).     *)
(*                                                                         *)
(* A request may name an asset id and may have a fingerprint of its file;  *)
(* either leads to the record of the medium, and the record's key names    *)
(* the medium from then on.  Every lookup and every save is a statement of *)
(* its own, and runs of other processes come between.  The context of a    *)
(* medium is abstracted to the series it belongs to; media of one series   *)
(* are related.                                                            *)
(***************************************************************************)
EXTENDS Naturals, FiniteSets

CONSTANTS
    Requesters,     \* the runs
    AssetRequests   \* bound: what the runs ask for, see request

ASSUME AssetAssumption == \A q \in AssetRequests : DOMAIN q.of \subseteq Requesters

None == "none"
NoAsset == [asset |-> None, print |-> None]

VARIABLES
    records,    \* asset_records: the identifiers of each medium on record
    series,     \* asset_context_records: the series of a medium with a context
    relations,  \* asset_relations: the pairs of media of one series
    step,       \* how far each run is
    ids,        \* the identifiers it goes by
    found,      \* the record that its lookups have led to, as they read it
    medium,     \* the medium it is about
    context,    \* the context it carries
    request     \* the identifiers and the series each run asks for, the series in
                \* its file name, and whether runs overlap; it never changes

assetVars == <<records, series, relations, step, ids, found, medium, context, request>>

NoMedia == <<"no medium">>
Unknown == [key |-> NoMedia, asset |-> None, print |-> None]
NoContext == "no context"

\* The steps of a resolution, when the run is created and at its ingest.
Resolving == {"asset id", "fingerprint", "save", "saved", "context", "store context"}
Created == {"create"} \X Resolving
Ingested == {"ingest"} \X (Resolving \cup {"relate"})
At(end) == <<end, end>>
Under == {r \in Requesters : step[r] \in Created \cup Ingested}
AssetInit ==
    /\ request \in AssetRequests
    /\ records = [k \in {} |-> NoAsset]
    /\ series = [k \in {} |-> None]
    /\ relations = {}
    /\ step = [r \in Requesters |-> At("new")]
    /\ ids = [r \in Requesters |-> NoAsset]
    /\ found = [r \in Requesters |-> Unknown]
    /\ medium = [r \in Requesters |-> NoMedia]
    /\ context = [r \in Requesters |-> NoContext]

----------------------------------------------------------------------------
Go(r, phase, from, to) == step[r] = <<phase, from>> /\ step' = [step EXCEPT ![r] = <<phase, to>>]
Refuse(r) == step' = [step EXCEPT ![r] = At("refused")]
Tables == <<records, series, relations>>

\* A request arrives; runs overlap only where the workload lets them.
Create(r) ==
    /\ step[r] = At("new") /\ r \in DOMAIN request.of
    /\ request.overlap \/ Under = {}
    /\ step' = [step EXCEPT ![r] = <<"create", "asset id">>]
    /\ ids' = [ids EXCEPT ![r] = [asset |-> request.of[r].asset, print |-> request.of[r].print]]
    /\ UNCHANGED <<Tables, found, medium, context, request>>

\* The record under an identifier, of which there is at most one.
OnRecord == DOMAIN records
As(k) == [key |-> k, asset |-> records[k].asset, print |-> records[k].print]
WithAsset(a) == {As(k) : k \in {x \in OnRecord : a # None /\ records[x].asset = a}}
WithPrint(p) == {As(k) : k \in {x \in OnRecord : p # None /\ records[x].print = p}}

LookUpAsset(r, phase) ==
    /\ Go(r, phase, "asset id", "fingerprint")
    /\ IF WithAsset(ids[r].asset) = {} THEN found' = [found EXCEPT ![r] = Unknown]
       ELSE \E match \in WithAsset(ids[r].asset) : found' = [found EXCEPT ![r] = match]
    /\ UNCHANGED <<Tables, ids, medium, context, request>>

\* A run whose identifiers lead to two media is refused.
LookUpPrint(r, phase) ==
    /\ step[r] = <<phase, "fingerprint">>
    /\ IF WithPrint(ids[r].print) = {} THEN Go(r, phase, "fingerprint", "save") /\ UNCHANGED found
       ELSE \E match \in WithPrint(ids[r].print) :
              IF found[r] # Unknown /\ found[r].key # match.key
              THEN Refuse(r) /\ UNCHANGED found
              ELSE /\ Go(r, phase, "fingerprint", "save")
                   /\ found' = IF found[r] = Unknown THEN [found EXCEPT ![r] = match] ELSE found
    /\ UNCHANGED <<Tables, ids, medium, context, request>>

\* The key of a new record, or the one that was found.
KeyFor(r) ==
    IF found[r] # Unknown THEN found[r].key
    ELSE IF ids[r].asset # None THEN <<"asset-id", ids[r].asset>>
    ELSE IF ids[r].print # None THEN <<"media-fingerprint", ids[r].print>>
    ELSE <<"source-ref", r>>

\* Plausible bug: the record takes what the request says.
TakeIdentifiers(old, new) == new

\* An identifier the record has is kept, one it lacks is taken over.
MergeIdentifiers(old, new) ==
    [asset |-> IF old.asset # None THEN old.asset ELSE new.asset,
     print |-> IF old.print # None THEN old.print ELSE new.print]

\* The record contradicts an identifier of the run.
Contradicts(old, new) ==
    \/ new.asset # None /\ old.asset \notin {None, new.asset}
    \/ new.print # None /\ old.print \notin {None, new.print}

\* Another record has one of the identifiers: the table refuses the row.
Taken(k, new) ==
    \E other \in OnRecord \ {k} :
        \/ new.asset # None /\ records[other].asset = new.asset
        \/ new.print # None /\ records[other].print = new.print

\* The run writes the record it has read, whatever has become of it since.
SaveRecord(r, phase) ==
    /\ step[r] = <<phase, "save">>
    /\ LET k == KeyFor(r)
           new == MergeIdentifiers(found[r], ids[r])
       IN  IF Contradicts(found[r], ids[r]) \/ Taken(k, new)
           THEN Refuse(r) /\ UNCHANGED <<records, medium>>
           ELSE /\ Go(r, phase, "save", "saved")
                /\ records' = [x \in OnRecord \cup {k} |-> IF x = k THEN new ELSE records[x]]
                /\ medium' = [medium EXCEPT ![r] = k]
    /\ UNCHANGED <<series, relations, ids, found, context, request>>

\* It reads the record back and goes by its identifiers.
ReadBack(r, phase) ==
    /\ Go(r, phase, "saved", "context")
    /\ ids' = [ids EXCEPT ![r] = records[medium[r]]]
    /\ found' = [found EXCEPT ![r] = Unknown]
    /\ UNCHANGED <<Tables, medium, context, request>>

SeriesOf(k) == IF k \in DOMAIN series THEN series[k] ELSE NoContext

\* A run that is created carries the context on record, with what its request
\* adds to it.
ReadContext(r) ==
    /\ Go(r, "create", "context", "store context")
    /\ LET wanted == request.of[r].series
       IN  context' = [context EXCEPT ![r] = IF wanted # None THEN wanted ELSE SeriesOf(medium[r])]
    /\ UNCHANGED <<Tables, ids, found, medium, request>>

\* At the ingest what the run carries replaces what is on record, with nothing
\* where it carries nothing, and its file name fills what is missing.
DeriveContext(r) ==
    /\ Go(r, "ingest", "context", "store context")
    /\ LET base == IF context[r] # NoContext THEN context[r] ELSE SeriesOf(medium[r])
       IN  context' = [context EXCEPT ![r] = IF base \in {None, NoContext} THEN request.of[r].name ELSE base]
    /\ UNCHANGED <<Tables, ids, found, medium, request>>

WriteContext(r) == series' = [k \in DOMAIN series \cup {medium[r]} |-> IF k = medium[r] THEN context[r] ELSE series[k]]

\* Created, the run goes on to its ingest.
StoreContext(r) ==
    /\ step[r] = <<"create", "store context">>
    /\ step' = [step EXCEPT ![r] = <<"ingest", "asset id">>]
    /\ IF context[r] = NoContext THEN UNCHANGED series ELSE WriteContext(r)
    /\ UNCHANGED <<records, relations, ids, found, medium, context, request>>

\* Plausible bug: only media that have an asset id are related.
RelateNamed(r) ==
    LET own == SeriesOf(medium[r])
    IN  relations \cup {{medium[r], k} :
            k \in {x \in DOMAIN series \ {medium[r]} :
                     own # None /\ series[x] = own /\ x[1] = "asset-id"}}

\* The media of its series that the run finds, each related to its own.
Relate(r) ==
    LET own == SeriesOf(medium[r])
    IN  relations \cup {{medium[r], k} : k \in {x \in DOMAIN series \ {medium[r]} : own # None /\ series[x] = own}}

IngestContext(r) ==
    /\ Go(r, "ingest", "store context", "relate")
    /\ WriteContext(r)
    /\ UNCHANGED <<records, relations, ids, found, medium, context, request>>

Finish(r) ==
    /\ step[r] = <<"ingest", "relate">>
    /\ step' = [step EXCEPT ![r] = At("done")]
    /\ relations' = Relate(r)
    /\ UNCHANGED <<records, series, ids, found, medium, context, request>>

RequesterDies(r) ==
    /\ r \in Under
    /\ step' = [step EXCEPT ![r] = At("dead")]
    /\ UNCHANGED <<Tables, ids, found, medium, context, request>>

AllAnswered ==
    /\ \A r \in DOMAIN request.of : step[r] # At("new") /\ r \notin Under
    /\ UNCHANGED assetVars

AssetNext ==
    \/ \E r \in Requesters :
          \/ Create(r) \/ RequesterDies(r)
          \/ \E phase \in {"create", "ingest"} :
                LookUpAsset(r, phase) \/ LookUpPrint(r, phase) \/ SaveRecord(r, phase) \/ ReadBack(r, phase)
          \/ ReadContext(r) \/ StoreContext(r) \/ DeriveContext(r) \/ IngestContext(r) \/ Finish(r)
    \/ AllAnswered

AssetSpec == AssetInit /\ [][AssetNext]_assetVars

----------------------------------------------------------------------------
(* Properties.                                                             *)

\* Whether a run has been accepted, under the identifiers of its request.
Accepted(r) == medium[r] # NoMedia
Share(r, x) ==
    \/ request.of[r].asset # None /\ request.of[r].asset = request.of[x].asset
    \/ request.of[r].print # None /\ request.of[r].print = request.of[x].print

\* Runs that ask for one asset id, or have the same file, are about one medium,
\* in whatever order they name one identifier, the other or both, and wherever
\* runs before them died (operational.py _resolve_asset_record).  Runs that
\* overlap can overwrite each other's record and are left out.
OneMediumPerIdentifier ==
    ~request.overlap =>
        \A r, x \in DOMAIN request.of :
            (Accepted(r) /\ Accepted(x) /\ Share(r, x)) => medium[r] = medium[x]

\* Once every run is through its ingest the media of a series are related with
\* each other, however the runs overlapped: each stores its context before it
\* looks for the others (ingest.py ingest_job, _upsert_related_asset_contexts).
SeriesRelated ==
    (\A r \in DOMAIN request.of : step[r] = At("done")) =>
        \A k, l \in DOMAIN series :
            (k # l /\ series[k] = series[l] /\ series[k] # None) => {k, l} \in relations

============================================================================
