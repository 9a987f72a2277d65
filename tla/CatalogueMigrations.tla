------------------------ MODULE CatalogueMigrations ------------------------
(***************************************************************************)
(* What the migrations do to the rows of the catalogue and of the travel   *)
(* preferences: e8b4 seeds destinations with one image each, 6a1d replaces *)
(* some of the images, d4f8 turns images into media and the one travel     *)
(* style into a set, f3a9 imports the manifest that build_catalogue_       *)
(* manifest.py made of a folder of photos, c3d9 creates the preferences.   *)
(* A run of alembic is one transaction whatever number of revisions it     *)
(* crosses.                                                                *)
(***************************************************************************)
EXTENDS SchemaRevisions, FiniteSets, FiniteSetsExt

CONSTANTS
    Seeded,      \* the destinations e8b4 inserts
    Replaced,    \* those of them whose image 6a1d replaces
    Imported,    \* the destinations of the manifest
    OldPlaces,   \* the places d4f8 inserts
    NewPlaces,   \* the places of the manifest
    Parent,      \* the destination of each place
    Folder       \* the photos the manifest was built from, as scan() lists them

ASSUME CatalogueAssumption ==
    /\ Replaced \subseteq Seeded /\ Seeded \intersect Imported = {}
    /\ OldPlaces \intersect NewPlaces = {}
    /\ Parent \in [OldPlaces \union NewPlaces -> Seeded \union Imported]
    /\ \A p \in OldPlaces : Parent[p] \in Seeded
    /\ (Seeded \union Imported) \intersect (OldPlaces \union NewPlaces) = {}

\* scan() numbers the photos of an owner, the cover 0, and refuses two of one slot.
Scanned(photos) ==
    /\ photos \in Seq(Range(photos))
    /\ \A i \in DOMAIN photos : photos[i].slot \in Nat
    /\ \A i, j \in DOMAIN photos :
          photos[i].owner = photos[j].owner /\ photos[i].slot = photos[j].slot => i = j

\* Every destination of the manifest came with a cover.
ASSUME FolderAssumption ==
    /\ Scanned(Folder)
    /\ \A x \in Imported : \E i \in DOMAIN Folder : Folder[i].owner = x /\ Folder[i].slot = 0

VARIABLE db   \* the committed rows and the schema, see Empty

\* No row, or one that an onboarding left empty.
NoBudget == 4
NoPreference == [exists |-> FALSE, styles |-> {}, interests |-> {}, budget |-> NoBudget,
                 pace |-> "none", scope |-> "both", home |-> "none"]
NoImage == <<>>
NoKey == <<>>

\* preference is the row of one user with the tables that hang on it.
Empty == [revision |-> 0, schema |-> {}, destinations |-> {}, hidden |-> {}, places |-> {},
          image |-> [d \in Seeded \union Imported |-> NoImage],
          assets |-> {}, links |-> {}, preference |-> NoPreference, failed |-> FALSE]

\* One photo of an owner: its slot, 0 for the cover, and its bytes.  The object
\* name holds the owner's path and the checksum.
Key(photo) == <<photo.owner, photo.bytes>>
BucketUrl(photo) == <<"bucket", Key(photo)>>

\* The first slot of identical bytes within one owner.
UniqueOwnerPhotos(photos) ==
    {p \in photos : \A q \in photos : q.owner = p.owner /\ q.bytes = p.bytes => p.slot <= q.slot}

Manifest == {p \in UniqueOwnerPhotos(Range(Folder)) : p.owner \in Imported \union NewPlaces}
-----------------------------------------------------------------------------
\* e8b4f2c91a60: rows of the seed, gone with their table.
SeedCatalogue(d) ==
    [d EXCEPT !.destinations = Seeded, !.hidden = {},
              !.image = [x \in DOMAIN @ |-> IF x \in Seeded THEN <<"seed", x>> ELSE NoImage]]
ClearCatalogue(d) ==
    [d EXCEPT !.destinations = {}, !.hidden = {}, !.image = Empty.image]

\* 6a1d7c9e4b20: both directions set the image, whatever it was.
UpdateImages(d, age) ==
    [d EXCEPT !.image = [x \in DOMAIN @ |-> IF x \in Replaced \intersect d.destinations
                                            THEN <<age, x>> ELSE @[x]]]

\* d4f8a2c7e910: the image becomes an asset without a storage key, linked as cover.
CoverAsset(x) == <<"cover", x>>
MoveImages(d) ==
    [d EXCEPT !.assets = {[id |-> CoverAsset(x), key |-> NoKey, url |-> d.image[x]] :
                             x \in d.destinations},
              !.links = {[owner |-> x, asset |-> CoverAsset(x), slot |-> 0] : x \in d.destinations},
              !.places = OldPlaces,
              !.image = Empty.image]

Covers(d, x) ==
    {a \in d.assets : \E l \in d.links : l.owner = x /\ l.slot = 0 /\ l.asset = a.id}

\* Variant: the downgrade leaves every image blank.
Mutant_RestoreImages(d) ==
    [d EXCEPT !.image = Empty.image, !.assets = {}, !.links = {}, !.places = {}]

RestoreImages(d) ==
    [d EXCEPT !.image = [x \in DOMAIN @ |->
                            IF x \in d.destinations /\ Covers(d, x) # {}
                            THEN (CHOOSE a \in Covers(d, x) : TRUE).url ELSE NoImage],
              !.assets = {}, !.links = {}, !.places = {}]

\* d4f8a2c7e910: the downgrade keeps the first of the styles.
ReduceStyles(d) ==
    [d EXCEPT !.preference.styles = IF @ = {} THEN {} ELSE {Min(@)}]

\* f3a9c2d7e641 refuses a catalogue that has one of its destinations already
\* or lacks the parent of one of its places; storage keys are unique.
ManifestFits(d) ==
    /\ Imported \intersect d.destinations = {}
    /\ \A p \in NewPlaces : Parent[p] \in Imported \union d.destinations
    /\ \A photo \in Manifest : \A a \in d.assets : a.key # Key(photo)

ManifestAsset(photo) == <<"manifest", Key(photo)>>

ImportManifest(d) ==
    IF ~ManifestFits(d) THEN [d EXCEPT !.failed = TRUE]
    ELSE [d EXCEPT !.destinations = @ \union Imported, !.places = @ \union NewPlaces,
                   !.assets = @ \union {[id |-> ManifestAsset(m), key |-> Key(m),
                                         url |-> BucketUrl(m)] : m \in Manifest},
                   !.links = @ \union {[owner |-> m.owner, asset |-> ManifestAsset(m),
                                        slot |-> m.slot] : m \in Manifest}]

\* Variant: the downgrade relies on the owners' deletion to take the assets along.
Mutant_RemoveManifest(d) ==
    LET gone == Imported \union NewPlaces
    IN [d EXCEPT !.destinations = @ \ Imported, !.hidden = @ \ Imported, !.places = @ \ gone,
                 !.links = {l \in @ : l.owner \notin gone}]

\* The downgrade deletes by id, and the links go with either end.
RemoveManifest(d) ==
    LET ids == {ManifestAsset(m) : m \in Manifest}
        gone == Imported \union NewPlaces
    IN [d EXCEPT !.destinations = @ \ Imported, !.hidden = @ \ Imported, !.places = @ \ gone,
                 !.assets = {a \in @ : a.id \notin ids},
                 !.links = {l \in @ : l.asset \notin ids /\ l.owner \notin gone}]

UpgradeRows(d, r) ==
    CASE r = Seeds -> SeedCatalogue(d)
      [] r = Images -> UpdateImages(d, "new")
      [] r = Expansion -> MoveImages(d)
      [] r = Import -> ImportManifest(d)
      [] OTHER -> d

DowngradeRows(d, r) ==
    CASE r = Preferences -> [d EXCEPT !.preference = NoPreference]
      [] r = Seeds -> ClearCatalogue(d)
      [] r = Images -> UpdateImages(d, "seed")
      [] r = Expansion -> ReduceStyles(RestoreImages(d))
      [] r = Import -> RemoveManifest(d)
      [] OTHER -> d

\* The revisions of a run from one revision to another.
UpgradeRun(from, to) == [i \in 1 .. to - from |-> from + i]
DowngradeRun(from, to) == [i \in 1 .. from - to |-> from + 1 - i]

\* The rows of a run, of which only these migrations change any.
Upgraded(d, from, to, r) == IF from < r /\ r <= to THEN UpgradeRows(d, r) ELSE d
Downgraded(d, from, to, r) == IF to < r /\ r <= from THEN DowngradeRows(d, r) ELSE d

RaisedRows(d, from, to) ==
    LET seeded == Upgraded(d, from, to, Seeds)
        updated == Upgraded(seeded, from, to, Images)
        expanded == Upgraded(updated, from, to, Expansion)
    IN Upgraded(expanded, from, to, Import)

LoweredRows(d, from, to) ==
    LET removed == Downgraded(d, from, to, Import)
        reduced == Downgraded(removed, from, to, Expansion)
        reverted == Downgraded(reduced, from, to, Images)
        cleared == Downgraded(reverted, from, to, Seeds)
    IN Downgraded(cleared, from, to, Preferences)

MigratedRows(d, to) == LoweredRows(RaisedRows(d, d.revision, to), d.revision, to)

SchemaAfter(schema, from, to) ==
    FoldLeft(Downgrade, FoldLeft(Upgrade, schema, UpgradeRun(from, to)), DowngradeRun(from, to))

\* Every run of a database of the expected schema, tabulated.
Revisions == [i \in 1 .. Latest + 1 |-> i - 1]
SchemaRuns ==
    FoldLeft(LAMBDA runs, from :
                Append(runs, FoldLeft(LAMBDA run, to : Append(run, SchemaAfter(SchemaAt(from), from, to)),
                                      <<>>, Revisions)),
             <<>>, Revisions)

\* What the lists of statements come to, without a constant in it: every run ends
\* with the schema of its target.
ASSUME SchemaAssumption ==
    /\ Latest \in Nat /\ Import <= Latest /\ SchemaAt(0) = {}
    /\ \A from, to \in 0 .. Latest : SchemaRuns[from + 1][to + 1] = SchemaAt(to)
    /\ \A r \in 0 .. Latest :
          SchemaAt(r) # Aborted /\ (Table("destination_media") \in SchemaAt(r) => r >= Expansion)

\* alembic upgrade or downgrade: all of it or, after an error, none of it.
Migrated(d, to) ==
    LET schema == IF d.schema = SchemaAt(d.revision) THEN SchemaRuns[d.revision + 1][to + 1]
                  ELSE SchemaAfter(d.schema, d.revision, to)
        rows == MigratedRows(d, to)
    IN IF schema = Aborted \/ rows.failed THEN [d EXCEPT !.failed = TRUE]
       ELSE [rows EXCEPT !.revision = to, !.schema = schema]

Has(table) == Table(table) \in db.schema
-----------------------------------------------------------------------------
\* Every run of the migrations reaches its target, whatever runs and writes came
\* before it, and leaves the schema of a database that was only ever upgraded.
SchemaFollowsRevision == ~db.failed /\ db.schema = SchemaAt(db.revision)
=============================================================================
