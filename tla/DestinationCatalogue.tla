------------------------ MODULE DestinationCatalogue ------------------------
(***************************************************************************)
(* A client that scrolls through a list of destinations or of places while *)
(* its user's preferences are saved from other devices, a photo folder is  *)
(* imported, entries are published and withdrawn, and migrations run.      *)
(* Every request is one session in READ COMMITTED: each of its statements  *)
(* sees what is committed when it starts.                                  *)
(***************************************************************************)
EXTENDS DestinationRanking

CONSTANTS
    Writers,        \* requests that save preferences
    Countries,      \* where users come from
    Selections,     \* the onboarding choices they save, see NoPreference
    Photos,         \* the folders import_catalogue_media.py is run on
    PlaceRank,      \* sort_order of each place
    PageSizes,      \* the limits a client asks for
    MaxOperations   \* bound on listings, writes, imports, edits and migrations

ASSUME ReaderAssumption == PageSizes \subseteq Nat \ {0} /\ MaxOperations \in Nat

\* The row of a user with its tags, and the choices an onboarding may save.
PreferenceRows(exists) ==
    [exists : exists, styles : SUBSET Nat, interests : SUBSET Nat, budget : 0 .. NoBudget,
     pace : {"none", "relaxed", "balanced", "packed"},
     scope : {"both", "local", "international"}, home : {"none"} \union Countries]

ASSUME SelectionsAssumption == Selections \subseteq PreferenceRows({TRUE})
\* uq_destination_places_destination_sort_order
ASSUME PlacesAssumption ==
    /\ IsFiniteSet(OldPlaces \union NewPlaces)
    /\ \A x \in OldPlaces \union NewPlaces : PlaceRank[x] \in Nat
    /\ \A x, y \in OldPlaces \union NewPlaces :
          Parent[x] = Parent[y] /\ PlaceRank[x] = PlaceRank[y] => x = y

ASSUME PhotosAssumption == \A folder \in Photos : Scanned(folder)

VARIABLES
    reader,    \* the listing of the client and its open request
    steady,    \* what the list has shown without a break since its first page
    writer,    \* the transactions that save preferences
    import,    \* the run of the import script
    bucket,    \* the objects the script has put into the bucket
    operations

catalogueVars == <<db, reader, steady, writer, import, bucket, operations>>

Lists ==
    [kind : {"suggested"}, arg : {"default", "local", "international", "both"}]
      \union [kind : {"popular", "featured"}, arg : {"both"}]
      \union [kind : {"places"}, arg : Seeded \union Imported]

NoCursor == <<>>
NoContext == <<>>

Idle == [stage |-> "idle", choice |-> NoPreference, deleted |-> NoPreference]
NoImport == [stage |-> "idle", folder |-> <<>>, matched |-> {}]
NoReader == [stage |-> "idle", list |-> [kind |-> "popular", arg |-> "both"],
             snapshot |-> NoPreference, context |-> NoContext, cursor |-> NoCursor, seen |-> <<>>]

Deployed == Migrated(Empty, Latest)

CatalogueInit ==
    /\ \E p \in Selections \union {NoPreference} : db = [Deployed EXCEPT !.preference = p]
    /\ reader = NoReader /\ steady = {}
    /\ writer = [w \in Writers |-> Idle]
    /\ import = NoImport
    /\ bucket = {}
    /\ operations = 0

Begin == operations < MaxOperations /\ operations' = operations + 1
-----------------------------------------------------------------------------
(* Listing.  A request that meets a missing table fails, changes nothing   *)
(* and can be sent again.                                                  *)

Scope(list, p) == IF list.arg = "default" THEN p.scope ELSE list.arg

\* Variant: the context names the collection and the scope only.
Mutant_Context(list, p) ==
    IF list.kind = "places" THEN <<"places", list.arg>> ELSE <<list.kind, Scope(list, p)>>

\* The continuation is bound to the list and to every input of its ranking.
Context(list, p) ==
    CASE list.kind = "places" -> <<"places", list.arg>>
      [] list.kind = "suggested" ->
            <<"suggested", Scope(list, p), p.styles, p.interests, p.budget, p.pace, p.home>>
      [] OTHER -> <<list.kind, "both">>

\* The rows of the list, by seek key, its last element the entry itself.
RowsOf(list, p) ==
    IF list.kind = "places"
    THEN {<<PlaceRank[x], 0, 0, x>> : x \in {x \in db.places : Parent[x] = list.arg}}
    ELSE Ranked(db, list.kind, Scope(list, p), p)

\* The rows behind the cursor, in order.
RowsAfter(list, p, cursor) ==
    Ordered({row \in RowsOf(list, p) : cursor = NoCursor \/ Follows(row, cursor)})

StartListing(list) ==
    /\ Begin
    /\ reader.stage \in {"idle", "done"}
    /\ reader' = [NoReader EXCEPT !.stage = "ask", !.list = list]
    /\ UNCHANGED <<db, writer, import, bucket>>

\* get_snapshot
SnapshotFor(list) == IF list.kind = "suggested" THEN db.preference ELSE NoPreference

\* The first statement: the preferences of a suggested list, the destination of
\* a list of places.  A cursor of another context, and a destination that is
\* gone, end the listing.
Ask ==
    LET list == reader.list
        p == SnapshotFor(list)
        context == Context(list, p)
    IN /\ reader.stage = "ask"
       /\ list.kind = "suggested" => Has("user_preferences") /\ Has("user_travel_styles")
       /\ list.kind = "places" => Has("destination_media")
       /\ IF \/ reader.cursor # NoCursor /\ context # reader.context
             \/ list.kind = "places" /\ list.arg \notin Cards(db)
          THEN reader' = [reader EXCEPT !.stage = "idle"]
          ELSE reader' = [reader EXCEPT !.stage = "page", !.snapshot = p, !.context = context]
       /\ UNCHANGED <<db, writer, import, bucket, operations>>

\* The second statement reads one row more than the page holds.
Page(limit) ==
    LET rows == RowsAfter(reader.list, reader.snapshot, reader.cursor)
        more == Len(rows) > limit
        items == IF more THEN SubSeq(rows, 1, limit) ELSE rows
    IN /\ reader.stage = "page"
       /\ Has("destination_media")
       /\ reader' = [reader EXCEPT !.stage = IF more THEN "ask" ELSE "done",
                                   !.cursor = IF more THEN KeyOf(Last(items)) ELSE @,
                                   !.seen = @ \o Entries(items)]
       /\ UNCHANGED <<db, writer, import, bucket, operations>>
-----------------------------------------------------------------------------
(* Saving preferences.                                                     *)

\* Variant: the tags are replaced before the row is upserted, so that nothing
\* orders two requests of one user.
Mutant_RowIsFree(w) == TRUE

\* The upsert waits for a transaction that has written the row.
RowIsFree(w) == \A v \in Writers \ {w} : writer[v].stage = "idle"

\* replace() and mark_onboarding_skipped() begin with the upsert of the row.
Upsert(w, choice) ==
    /\ Begin
    /\ writer[w].stage = "idle" /\ RowIsFree(w)
    /\ Has("user_preferences")
    /\ writer' = [writer EXCEPT ![w] = [Idle EXCEPT !.stage = "upserted", !.choice = choice]]
    /\ UNCHANGED <<db, reader, import, bucket>>

\* The deletes remove the tags that are committed when they run.
DeleteTags(w) ==
    /\ writer[w].stage = "upserted" /\ writer[w].choice # NoPreference
    /\ Has("user_travel_styles")
    /\ writer' = [writer EXCEPT ![w].stage = "deleted", ![w].deleted = db.preference]
    /\ UNCHANGED <<db, reader, import, bucket, operations>>

\* Skipping writes no tag and keeps the choices of a row that exists.
Skipped(old) == [old EXCEPT !.exists = TRUE]

\* The new tags are inserted by the flush and committed with the row.
Chosen(old, choice, deleted) ==
    [choice EXCEPT !.styles = (old.styles \ deleted.styles) \union @,
                   !.interests = (old.interests \ deleted.interests) \union @]

CommitChoice(w) ==
    LET choice == writer[w].choice
    IN /\ writer[w].stage = IF choice = NoPreference THEN "upserted" ELSE "deleted"
       /\ db' = [db EXCEPT !.preference = IF choice = NoPreference THEN Skipped(@)
                                          ELSE Chosen(@, choice, writer[w].deleted)]
       /\ writer' = [writer EXCEPT ![w] = Idle]
       /\ UNCHANGED <<reader, import, bucket, operations>>

\* A statement fails, or the request is cancelled.
RollbackChoice(w) ==
    /\ writer[w].stage # "idle"
    /\ writer' = [writer EXCEPT ![w] = Idle]
    /\ UNCHANGED <<db, reader, import, bucket, operations>>
-----------------------------------------------------------------------------
(* scripts/import_catalogue_media.py                                       *)

\* The preflight matches the photos with the records there are.
PlanImport(folder) ==
    LET matched == {i \in DOMAIN folder : folder[i].owner \in db.destinations \union db.places}
    IN /\ Begin
       /\ import.stage = "idle"
       /\ Has("destination_places") /\ matched # {}
       /\ import' = [stage |-> "upload", folder |-> folder, matched |-> matched]
       /\ UNCHANGED <<db, reader, writer, bucket>>

\* One object is copied, unless it is there, and read back.
Upload ==
    LET missing == {i \in import.matched : Key(import.folder[i]) \notin bucket}
    IN /\ import.stage = "upload"
       /\ IF missing = {}
          THEN import' = [import EXCEPT !.stage = "attach"] /\ UNCHANGED bucket
          ELSE bucket' = bucket \union {Key(import.folder[Min(missing)])} /\ UNCHANGED import
       /\ UNCHANGED <<db, reader, writer, operations>>

\* The asset of a storage key keeps its id.
AssetFor(d, photo) ==
    IF \E a \in d.assets : a.key = Key(photo)
    THEN (CHOOSE a \in d.assets : a.key = Key(photo)).id ELSE <<"import", Key(photo)>>

\* The upsert of a slot replaces its asset.  An owner that is gone fails it, and
\* so does an asset that the owner has in another slot: the arbiter of the
\* upsert is the slot, and the primary key is owner and asset.
Attached(d, photo) ==
    LET id == AssetFor(d, photo)
    IN IF \/ d.failed
          \/ photo.owner \notin d.destinations \union d.places
          \/ \E l \in d.links : l.owner = photo.owner /\ l.asset = id /\ l.slot # photo.slot
       THEN [d EXCEPT !.failed = TRUE]
       ELSE [d EXCEPT !.assets = {a \in @ : a.id # id}
                                   \union {[id |-> id, key |-> Key(photo), url |-> BucketUrl(photo)]},
                      !.links = {l \in @ : l.owner # photo.owner \/ l.slot # photo.slot}
                                   \union {[owner |-> photo.owner, asset |-> id, slot |-> photo.slot]}]

\* The matched photos of a folder, in its order.
AttachedAll(d, folder, matched) ==
    LET after[i \in 0 .. Len(folder)] ==
          IF i = 0 THEN d
          ELSE IF i \in matched THEN Attached(after[i - 1], folder[i]) ELSE after[i - 1]
    IN after[Len(folder)]

\* One transaction attaches every matched photo, or none.
Attach ==
    LET result == AttachedAll(db, import.folder, import.matched)
    IN /\ import.stage = "attach"
       /\ db' = IF result.failed \/ ~Has("destination_media") THEN db ELSE result
       /\ import' = NoImport
       /\ UNCHANGED <<reader, writer, bucket, operations>>

\* An upload fails, or the script is stopped; run again it plans afresh.
StopImport ==
    /\ import.stage # "idle"
    /\ import' = NoImport
    /\ UNCHANGED <<db, reader, writer, bucket, operations>>
-----------------------------------------------------------------------------
\* An editor withdraws a destination or publishes it again.
Toggle(d) ==
    /\ Begin
    /\ d \in db.destinations
    /\ db' = [db EXCEPT !.hidden = IF d \in @ THEN @ \ {d} ELSE @ \union {d}]
    /\ UNCHANGED <<reader, writer, import, bucket>>

\* Statements that change a table wait for the transactions that have read or
\* written it; an index is created beside readers and dropped without them.
Waits(to) ==
    LET crossed == IF to > db.revision THEN db.revision + 1 .. to ELSE to + 1 .. db.revision
        reads(kind) == reader.stage = "page" /\ reader.list.kind = kind
        writes == \E w \in Writers : writer[w].stage # "idle"
    IN \/ crossed \intersect {Preferences, Expansion} # {} /\ (reads("suggested") \/ writes)
       \/ crossed \intersect {Seeds, Expansion} # {} /\ reads("places")
       \/ SeekIndexes \in crossed /\ to < db.revision /\ reads("places")

Migrate(to) ==
    /\ Begin
    /\ to # db.revision /\ ~Waits(to)
    /\ db' = Migrated(db, to)
    /\ UNCHANGED <<reader, writer, import, bucket>>
-----------------------------------------------------------------------------
\* What the list shows, as the domain ranks it: cards without a cover are left
\* out, places need none.
Reference(list, p, entries) ==
    CASE list.kind = "suggested" -> RankSuggested(entries, p, Scope(list, p))
      [] list.kind = "popular" -> RankPopular(entries)
      [] list.kind = "featured" -> RankFeatured(entries)
      [] list.kind = "places" -> Entries(Ordered({<<PlaceRank[x], 0, 0, x>> : x \in entries}))

Shown(d) ==
    LET list == reader.list
        entries == IF list.kind = "places" THEN {x \in d.places : Parent[x] = list.arg} ELSE Cards(d)
    IN Range(Reference(list, reader.snapshot, entries))

Step ==
    \/ \E list \in Lists : StartListing(list)
    \/ Ask
    \/ \E limit \in PageSizes : Page(limit)
    \/ \E w \in Writers, choice \in Selections \union {NoPreference} : Upsert(w, choice)
    \/ \E w \in Writers : DeleteTags(w) \/ CommitChoice(w) \/ RollbackChoice(w)
    \/ \E folder \in Photos : PlanImport(folder)
    \/ Upload \/ Attach \/ StopImport
    \/ \E d \in Seeded \union Imported : Toggle(d)
    \/ \E to \in 0 .. Latest : Migrate(to)

\* steady is no part of the program: it follows what the list shows from the
\* first page on.
Watch ==
    steady' = IF reader'.stage = "idle" \/ (reader'.stage # "done" /\ reader'.cursor = NoCursor)
              THEN {}
              ELSE IF reader.stage = "page" /\ reader.cursor = NoCursor /\ reader'.stage # "page"
              THEN Shown(db)
              ELSE IF db' = db THEN steady
              ELSE steady \intersect Shown(db')

CatalogueNext == Step /\ Watch

CatalogueSpec == CatalogueInit /\ [][CatalogueNext]_catalogueVars
-----------------------------------------------------------------------------
\* The pages of a listing are, put together, in the order of the domain's
\* ranking, without repetition and without an entry the ranking leaves out, and a
\* listing that reaches its end has missed nothing that was shown throughout:
\* whatever is imported, withdrawn, migrated or saved between two pages.
PagesComplete ==
    /\ Reference(reader.list, reader.snapshot, Range(reader.seen)) = reader.seen
    /\ reader.stage = "done" => steady \subseteq Range(reader.seen)

\* However requests of one user's devices interleave, and whatever migrations
\* run, the committed preferences are one choice as a whole: its tags are never
\* mixed with another's, and a downgrade loses styles but not the last.
PreferenceIsOneChoice ==
    LET p == db.preference
    IN IF ~p.exists THEN p = NoPreference
       ELSE \E c \in Selections \union {NoPreference} :
               /\ [p EXCEPT !.styles = c.styles, !.exists = c.exists] = c
               /\ p.styles \subseteq c.styles /\ (p.styles = {} => c.styles = {})

\* Every destination keeps exactly one cover through seeding, image updates, the
\* move to media, the manifest, imports and downgrades, for no list or detail
\* shows a destination without one; and an asset the script attached has its
\* object in the bucket, even when the script stopped half way or its owner was
\* deleted and inserted again meanwhile.
CoverKept ==
    /\ \A x \in db.destinations :
          IF db.revision < Expansion THEN db.image[x] # NoImage
          ELSE Cardinality(Covers(db, x)) = 1 /\ \A a \in Covers(db, x) : a.url # NoImage
    /\ \A a \in db.assets : a.id[1] = "import" => a.key \in bucket
=============================================================================
