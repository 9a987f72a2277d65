----------------------- MODULE TripsAndCatalogue_proofs -----------------------
(* Theorems about two components that persist rows and nothing else: the     *)
(* versions of a trip (TripItineraries) and the catalogue of destinations    *)
(* with the preferences (DestinationCatalogue).  They share no state and no  *)
(* name, and the lemmas about one do not mention the other.                  *)
EXTENDS TripItineraries, DestinationCatalogue, FiniteSetTheorems, SequenceTheorems,
        WellFoundedInduction, TLAPS

------------------------------------------------------------------------------
(* TripItineraries, for any set of requests and messages, and for as many    *)
(* versions and days as the bounds, which are arbitrary, allow.              *)

\* The versions of the trip are numbered without gaps.
Numbered == \E n \in 0 .. MaxVersions : versions \in [1 .. n -> Rows]

\* What uq_itineraries_source_message says of the rows.
DistinctSources ==
    \A v, k \in Existing : versions[v].source = versions[k].source
                           /\ versions[v].source # None => v = k

\* A save that has not been answered aims at a version the trip has, if the trip is there.
TargetsExist ==
    \A r \in Requests : pc[r] = "saving" /\ trip.exists => target[r] \in Existing

Inv == TypeOK /\ OneSavedVersion /\ DistinctSources /\ TargetsExist

Assumptions == /\ None \notin Messages
               /\ MaxVersions \in Nat /\ MaxDays \in Nat /\ MaxDays >= 2

\* The assumptions on the constants, under one name.
LEMMA Assumed == Assumptions
BY NoneAssumption, BoundAssumption DEF Assumptions

\* The number of versions is the highest version, so a draft's number is new.
LEMMA NextVersion ==
    ASSUME NEW n \in Nat, Existing = 1 .. n
    PROVE  Cardinality(Existing) = n
BY FS_Interval

\* No transaction leaves the row shapes when it adds a draft at the end.
LEMMA DraftTypes ==
    ASSUME TypeOK, NEW days \in 1 .. MaxDays, NEW message \in Messages \cup {None},
           Draft(days, message)
    PROVE  /\ Numbered'
           /\ \E new : /\ new \notin Existing
                       /\ DOMAIN versions' = Existing \cup {new}
                       /\ \A k \in Existing : versions'[k] = versions[k]
                       /\ versions'[new].status = "draft"
                       /\ versions'[new].source = message
<1> USE Assumed DEF Assumptions
<1>1. PICK n \in 0 .. MaxVersions : versions \in [1 .. n -> Rows]
  BY DEF TypeOK
<1>2. Existing = 1 .. n /\ Cardinality(Existing) = n
  BY <1>1, NextVersion DEF Existing
<1>3. /\ n + 1 <= MaxVersions
      /\ versions' = [k \in Existing \cup {n + 1} |->
            IF k = n + 1 THEN [status |-> "draft", source |-> message, days |-> days]
                         ELSE versions[k]]
  BY <1>2 DEF Draft
<1>4. (1 .. n) \cup {n + 1} = 1 .. (n + 1) /\ n + 1 \in 0 .. MaxVersions /\ n + 1 \notin 1 .. n
  BY <1>1, <1>3
<1>5. [status |-> "draft", source |-> message, days |-> days] \in Rows
  BY DEF Rows, Statuses
<1>6. versions' \in [1 .. (n + 1) -> Rows]
  BY <1>1, <1>2, <1>3, <1>4, <1>5
<1>7. Numbered'
  BY <1>4, <1>6 DEF Numbered
<1>8. /\ n + 1 \notin Existing
      /\ DOMAIN versions' = Existing \cup {n + 1}
      /\ \A k \in Existing : versions'[k] = versions[k]
      /\ versions'[n + 1].status = "draft"
      /\ versions'[n + 1].source = message
  BY <1>2, <1>3, <1>4
<1> QED
  BY <1>7, <1>8

\* A request that leaves has values of the right types.
LEMMA FinishTypes ==
    ASSUME TypeOK, NEW r \in Requests, Finish(r)
    PROVE  /\ pc' \in [Requests -> {"idle", "saving", "generating"}]
           /\ target' \in [Requests -> 0 .. MaxVersions]
           /\ source' \in [Requests -> Messages \cup {None}]
           /\ seen' \in [Requests -> Statuses]
           /\ \A q \in Requests : pc'[q] = "saving" => pc[q] = "saving" /\ target'[q] = target[q]
<1>1. 0 \in 0 .. MaxVersions /\ "draft" \in Statuses
  BY Assumed DEF Assumptions, Statuses
<1>2. /\ pc' \in [Requests -> {"idle", "saving", "generating"}]
      /\ target' \in [Requests -> 0 .. MaxVersions]
      /\ source' \in [Requests -> Messages \cup {None}]
  BY <1>1 DEF TypeOK, Finish
<1>3. seen' \in [Requests -> Statuses]
  BY <1>1 DEF TypeOK, Finish
<1>4. \A q \in Requests : pc'[q] = "saving" => pc[q] = "saving" /\ target'[q] = target[q]
  BY DEF TypeOK, Finish
<1> QED
  BY <1>2, <1>3, <1>4

\* A new trip has no versions.
LEMMA InvInit == Init => Inv
<1> SUFFICES ASSUME Init PROVE Inv
  OBVIOUS
<1> USE Assumed DEF Assumptions, Init
<1>1. versions \in [1 .. 0 -> Rows] /\ Existing = {}
  BY DEF Existing
<1>2. \E n \in 0 .. MaxVersions : versions \in [1 .. n -> Rows]
  BY <1>1
<1>3. trip \in [exists : BOOLEAN, days : Days, status : {"draft", "planned", "archived"}]
  BY DEF Days
<1>4. /\ live \subseteq Messages
      /\ pc \in [Requests -> {"idle", "saving", "generating"}]
      /\ target \in [Requests -> 0 .. MaxVersions]
      /\ source \in [Requests -> Messages \cup {None}]
      /\ seen \in [Requests -> Statuses]
  BY DEF Statuses
<1>5. TypeOK
  BY <1>2, <1>3, <1>4 DEF TypeOK
<1> QED
  BY <1>1, <1>5 DEF Inv, OneSavedVersion, DistinctSources, TargetsExist

\* A draft is neither saved nor the target of a save.
LEMMA DraftKeepsInv ==
    ASSUME Inv, NEW days \in 1 .. MaxDays, NEW message \in Messages \cup {None},
           Draft(days, message), message = None \/ DraftFor(message) = {},
           UNCHANGED trip,
           \A r \in Requests : pc'[r] = "saving" => pc[r] = "saving" /\ target'[r] = target[r]
    PROVE  Numbered' /\ OneSavedVersion' /\ DistinctSources' /\ TargetsExist'
<1>1. TypeOK
  BY DEF Inv
<1>2. PICK new :
        /\ Numbered'
        /\ new \notin Existing
        /\ DOMAIN versions' = Existing \cup {new}
        /\ \A k \in Existing : versions'[k] = versions[k]
        /\ versions'[new].status = "draft"
        /\ versions'[new].source = message
  BY <1>1, DraftTypes
<1>3. OneSavedVersion'
  BY <1>2 DEF Inv, OneSavedVersion, Existing
<1>4. DistinctSources'
  BY <1>2 DEF Inv, DistinctSources, Existing, DraftFor
<1>5. TargetsExist'
  BY <1>2 DEF Inv, TargetsExist, Existing
<1> QED
  BY <1>2, <1>3, <1>4, <1>5

\* Every step keeps the invariant.
LEMMA InvNext == Inv /\ [Next]_vars => Inv'
<1> SUFFICES ASSUME Inv, [Next]_vars PROVE Inv'
  OBVIOUS
<1> USE Assumed DEF Assumptions
<1>0. PICK n \in 0 .. MaxVersions : versions \in [1 .. n -> Rows]
  BY DEF Inv, TypeOK
<1>1. CASE UpdateTrip
  <2>0. trip' \in [exists : BOOLEAN, days : Days, status : {"draft", "planned", "archived"}]
    BY <1>1 DEF Inv, TypeOK, UpdateTrip, ValidDates
  <2>1. TypeOK'
    BY <1>1, <2>0 DEF Inv, TypeOK, UpdateTrip, requests
  <2>2. (OneSavedVersion /\ DistinctSources /\ TargetsExist)'
    BY <1>1 DEF Inv, OneSavedVersion, DistinctSources, TargetsExist, Existing, UpdateTrip,
                requests
  <2> QED
    BY <2>1, <2>2 DEF Inv
<1>2. CASE MarkTripPlanned \/ ArchiveTrip
  <2>0. trip' \in [exists : BOOLEAN, days : Days, status : {"draft", "planned", "archived"}]
    BY <1>2 DEF Inv, TypeOK, MarkTripPlanned, ArchiveTrip, Transition
  <2>1. TypeOK'
    BY <1>2, <2>0 DEF Inv, TypeOK, MarkTripPlanned, ArchiveTrip, Transition, requests
  <2>2. (OneSavedVersion /\ DistinctSources /\ TargetsExist)'
    BY <1>2 DEF Inv, OneSavedVersion, DistinctSources, TargetsExist, Existing,
                MarkTripPlanned, ArchiveTrip, Transition, requests, TypeOK
  <2> QED
    BY <2>1, <2>2 DEF Inv
<1>3. CASE DeleteTrip
  <2>1. versions' \in [1 .. 0 -> Rows] /\ Existing' = {} /\ 0 \in 0 .. MaxVersions
        /\ trip'.exists = FALSE
    BY <1>3 DEF DeleteTrip, Existing, Inv, TypeOK
  <2>2. \E k \in 0 .. MaxVersions : versions' \in [1 .. k -> Rows]
    BY <2>1
  <2>3. TypeOK'
    BY <1>3, <2>2 DEF Inv, TypeOK, DeleteTrip, requests
  <2> QED
    BY <2>1, <2>3 DEF Inv, OneSavedVersion, DistinctSources, TargetsExist
<1>4. CASE CreateDraft
  <2>1. PICK days \in 1 .. MaxDays : Draft(days, None)
    BY <1>4 DEF CreateDraft
  <2>2. Numbered' /\ OneSavedVersion' /\ DistinctSources' /\ TargetsExist'
    BY <1>4, <2>1, DraftKeepsInv DEF CreateDraft, requests
  <2>3. TypeOK'
    BY <1>4, <2>2 DEF Inv, TypeOK, CreateDraft, requests, Numbered
  <2> QED
    BY <2>2, <2>3 DEF Inv
<1>5. ASSUME NEW m \in Messages, DeleteMessage(m) PROVE Inv'
  <2>1. /\ DOMAIN versions' = Existing
        /\ \A v \in Existing :
             /\ versions'[v].status = versions[v].status
             /\ versions'[v].source = IF versions[v].source = m THEN None
                                      ELSE versions[v].source
    BY <1>0, <1>5 DEF DeleteMessage, Existing, Rows
  <2>2. \E k \in 0 .. MaxVersions : versions' \in [1 .. k -> Rows]
    BY <1>0, <1>5 DEF DeleteMessage, Existing, Rows
  <2>3. TypeOK'
    BY <1>5, <2>2 DEF Inv, TypeOK, DeleteMessage, requests
  <2>4. OneSavedVersion' /\ DistinctSources'
    BY <2>1 DEF Inv, OneSavedVersion, DistinctSources, Existing
  <2>5. TargetsExist'
    BY <1>5, <2>1 DEF Inv, TargetsExist, Existing, DeleteMessage, requests
  <2> QED
    BY <2>3, <2>4, <2>5 DEF Inv
<1>6. ASSUME NEW r \in Requests, NEW m \in Messages, FindGeneratedDraft(r, m) PROVE Inv'
  <2>1. TypeOK'
    BY <1>0, <1>6 DEF Inv, TypeOK, FindGeneratedDraft
  <2>2. (OneSavedVersion /\ DistinctSources /\ TargetsExist)'
    BY <1>6 DEF Inv, TypeOK, OneSavedVersion, DistinctSources, TargetsExist, Existing,
                FindGeneratedDraft
  <2> QED
    BY <2>1, <2>2 DEF Inv
<1>7. ASSUME NEW r \in Requests, CreateGeneratedDraft(r) PROVE Inv'
  <2>1. PICK days \in 1 .. MaxDays : Draft(days, source[r])
    BY <1>7 DEF CreateGeneratedDraft
  <2>2. source[r] \in Messages \cup {None} /\ DraftFor(source[r]) = {}
    BY <1>7 DEF CreateGeneratedDraft, StillWithoutDraft, Inv, TypeOK
  <2>3. Finish(r)
    BY <1>7 DEF CreateGeneratedDraft
  <2>4. Numbered' /\ OneSavedVersion' /\ DistinctSources' /\ TargetsExist'
    BY <1>7, <2>1, <2>2, <2>3, FinishTypes, DraftKeepsInv DEF CreateGeneratedDraft, Inv
  <2>5. TypeOK'
    BY <1>7, <2>3, <2>4, FinishTypes DEF Inv, TypeOK, CreateGeneratedDraft, Numbered
  <2> QED
    BY <2>4, <2>5 DEF Inv
<1>8. ASSUME NEW r \in Requests, AbandonGeneratedDraft(r) \/ SaveNothing(r) PROVE Inv'
  <2>0. TypeOK /\ Finish(r) /\ UNCHANGED <<trip, versions, live>>
    BY <1>8 DEF Inv, AbandonGeneratedDraft, SaveNothing
  <2>1. TypeOK'
    BY <2>0, FinishTypes DEF TypeOK
  <2>2. (OneSavedVersion /\ DistinctSources /\ TargetsExist)'
    BY <1>8 DEF Inv, TypeOK, OneSavedVersion, DistinctSources, TargetsExist, Existing,
                AbandonGeneratedDraft, SaveNothing, Finish
  <2> QED
    BY <2>1, <2>2 DEF Inv
<1>9. ASSUME NEW r \in Requests, NEW v \in Existing, ReadForSave(r, v) PROVE Inv'
  <2>1. v \in 0 .. MaxVersions /\ versions[v].status \in Statuses
    BY <1>0 DEF Existing, Rows
  <2>2. TypeOK'
    BY <1>0, <1>9, <2>1 DEF Inv, TypeOK, ReadForSave
  <2>3. (OneSavedVersion /\ DistinctSources /\ TargetsExist)'
    BY <1>9 DEF Inv, TypeOK, OneSavedVersion, DistinctSources, TargetsExist, Existing,
                ReadForSave
  <2> QED
    BY <2>2, <2>3 DEF Inv
<1>10. ASSUME NEW r \in Requests, SaveItinerary(r) PROVE Inv'
  <2>1. /\ DOMAIN versions' = Existing
        /\ \A k \in Existing :
             /\ versions'[k].source = versions[k].source
             /\ versions'[k].status = IF k = target[r] THEN "saved"
                                      ELSE IF versions[k].status = "saved" THEN "superseded"
                                      ELSE versions[k].status
    BY <1>0, <1>10 DEF SaveItinerary, Superseded, SavedStatus, Existing, Rows
  <2>2. versions' \in [1 .. n -> Rows]
    BY <1>0, <1>10 DEF SaveItinerary, Superseded, SavedStatus, Existing, Rows, Statuses
  <2>3. \E k \in 0 .. MaxVersions : versions' \in [1 .. k -> Rows]
    BY <2>2
  <2>4. TypeOK'
    BY <1>10, <2>3, FinishTypes DEF Inv, TypeOK, SaveItinerary
  <2>5. OneSavedVersion' /\ DistinctSources'
    BY <2>1 DEF Inv, OneSavedVersion, DistinctSources, Existing
  <2>6. TargetsExist'
    BY <1>10, <2>1 DEF Inv, TypeOK, TargetsExist, Existing, SaveItinerary, Finish
  <2> QED
    BY <2>4, <2>5, <2>6 DEF Inv
<1>11. CASE UNCHANGED vars
  <2>1. TypeOK'
    BY <1>11 DEF Inv, TypeOK, vars, requests
  <2> QED
    BY <1>11, <2>1 DEF Inv, OneSavedVersion, DistinctSources, TargetsExist, Existing, vars,
                       requests
<1> QED
  BY <1>1, <1>2, <1>3, <1>4, <1>5, <1>6, <1>7, <1>8, <1>9, <1>10, <1>11 DEF Next

\* The invariant holds of the whole specification.
LEMMA Invariance == Spec => []Inv
BY InvInit, InvNext, PTL DEF Spec

------------------------------------------------------------------------------
\* The rows and the requests keep their types.
THEOREM TypeCorrect == Spec => []TypeOK
<1>1. Inv => TypeOK
  BY DEF Inv
<1> QED
  BY <1>1, Invariance, PTL

\* However many saves race, with whatever stale snapshots, the trip has at most one saved
\* version: save_itinerary does not depend on the partial unique index.
THEOREM SavedIsUnique == Spec => []OneSavedVersion
<1>1. Inv => OneSavedVersion
  BY DEF Inv
<1> QED
  BY <1>1, Invariance, PTL

\* However many generations of one message race, one draft comes of it: the second look
\* under the trip's lock is enough.
THEOREM DraftIsUnique == Spec => []OneDraftPerMessage
<1>1. Inv => OneDraftPerMessage
  <2> SUFFICES ASSUME Inv, NEW m \in Messages PROVE Cardinality(DraftFor(m)) <= 1
    BY DEF OneDraftPerMessage
  <2>1. \A v, k \in DraftFor(m) : v = k
    BY Assumed DEF Inv, DistinctSources, DraftFor, Assumptions
  <2>2. CASE DraftFor(m) = {}
    BY <2>2, FS_EmptySet
  <2>3. CASE DraftFor(m) # {}
    <3>1. PICK v \in DraftFor(m) : TRUE
      BY <2>3
    <3>2. DraftFor(m) = {v}
      BY <2>1, <3>1
    <3> QED
      BY <3>2, FS_Singleton
  <2> QED
    BY <2>2, <2>3
<1> QED
  BY <1>1, Invariance, PTL

\* A trip that has a saved itinerary keeps one until it is deleted.
THEOREM SaveReplaces == Spec => SavedIsReplaced
<1>1. Inv /\ [Next]_vars => (HasSaved(versions) /\ trip'.exists => HasSaved(versions'))
  <2> SUFFICES ASSUME Inv, [Next]_vars, HasSaved(versions), trip'.exists
               PROVE  HasSaved(versions')
    OBVIOUS
  <2> USE Assumed DEF Assumptions
  <2>0. PICK n \in 0 .. MaxVersions : versions \in [1 .. n -> Rows]
    BY DEF Inv, TypeOK
  <2>1. CASE DeleteTrip
    BY <2>1 DEF DeleteTrip, Inv, TypeOK
  <2>2. CASE CreateDraft
    <3>1. PICK days \in 1 .. MaxDays : Draft(days, None)
      BY <2>2 DEF CreateDraft
    <3> QED
      BY <3>1, DraftTypes DEF Inv, HasSaved, Existing
  <2>3. ASSUME NEW m \in Messages, DeleteMessage(m) PROVE HasSaved(versions')
    BY <2>0, <2>3 DEF DeleteMessage, HasSaved, Existing, Rows
  <2>4. ASSUME NEW r \in Requests, CreateGeneratedDraft(r) PROVE HasSaved(versions')
    <3>1. PICK days \in 1 .. MaxDays : Draft(days, source[r])
      BY <2>4 DEF CreateGeneratedDraft
    <3>2. source[r] \in Messages \cup {None}
      BY DEF Inv, TypeOK
    <3> QED
      BY <3>1, <3>2, DraftTypes DEF Inv, HasSaved, Existing
  <2>5. ASSUME NEW r \in Requests, SaveItinerary(r) PROVE HasSaved(versions')
    <3>1. target[r] \in Existing
      BY <2>5 DEF SaveItinerary, Inv, TargetsExist
    <3> QED
      BY <2>0, <2>5, <3>1 DEF SaveItinerary, SavedStatus, HasSaved, Existing, Rows
  <2>6. CASE UNCHANGED versions
    BY <2>6
  <2> QED
    BY <2>1, <2>2, <2>3, <2>4, <2>5, <2>6
       DEF Next, UpdateTrip, MarkTripPlanned, ArchiveTrip, Transition, FindGeneratedDraft,
           AbandonGeneratedDraft, ReadForSave, SaveNothing, vars
<1> QED
  BY <1>1, Invariance, PTL DEF Spec, SavedIsReplaced

------------------------------------------------------------------------------
(* The catalogue.  Its invariant says which rows a database has at each      *)
(* revision, so that every migration finds what it needs.                    *)

\* The rows of the seeds and of the manifest that a revision has.
DestinationsAt(r) ==
    (IF r >= Seeds THEN Seeded ELSE {}) \union (IF r >= Import THEN Imported ELSE {})
PlacesAt(r) ==
    (IF r >= Expansion THEN OldPlaces ELSE {}) \union (IF r >= Import THEN NewPlaces ELSE {})

ManifestKeys == {Key(m) : m \in Manifest}

\* An asset is the old image of a destination, a photo of an import, or a photo of the
\* manifest, which an import finds by its key.
AssetSound(a, r) ==
    \/ a.key = NoKey /\ \E x \in Seeded : a.id = CoverAsset(x)
    \/ a.key # NoKey /\ a.key \notin ManifestKeys /\ a.id = <<"import", a.key>>
    \/ a.key \in ManifestKeys /\ a.id = <<"manifest", a.key>> /\ r >= Import

ImagesSound(d, r) ==
    /\ DOMAIN d.image = Seeded \union Imported
    /\ r < Expansion => \A x \in d.destinations : d.image[x] # NoImage

AssetsSound(d, r) ==
    /\ r < Expansion => d.assets = {}
    /\ \A a \in d.assets : a.url # NoImage /\ AssetSound(a, r)
    /\ \A a, b \in d.assets : a.id = b.id => a = b
    /\ r >= Import => \A k \in ManifestKeys : \E a \in d.assets : a.key = k

LinksSound(d, r) ==
    /\ r < Expansion => d.links = {}
    /\ \A l \in d.links : /\ l.owner \in d.destinations \union d.places
                          /\ \E a \in d.assets : a.id = l.asset
    /\ \A l, k \in d.links : l.owner = k.owner /\ l.slot = k.slot => l.asset = k.asset
    /\ r >= Expansion => \A x \in d.destinations : \E l \in d.links : l.owner = x /\ l.slot = 0
    /\ \A l \in d.links, k \in ManifestKeys : l.asset = <<"manifest", k>> => l.owner = k[1]

\* The rows of a database at revision r.
Sound(d, r) ==
    /\ DOMAIN d = DOMAIN Empty /\ ~d.failed
    /\ d.destinations = DestinationsAt(r) /\ d.places = PlacesAt(r)
    /\ ImagesSound(d, r) /\ AssetsSound(d, r) /\ LinksSound(d, r)

\* What PreferenceIsOneChoice says of one row.
OneChoice(p) ==
    /\ p \in PreferenceRows(BOOLEAN)
    /\ IF ~p.exists THEN p = NoPreference
       ELSE \E c \in Selections \union {NoPreference} :
               /\ [p EXCEPT !.styles = c.styles, !.exists = c.exists] = c
               /\ p.styles \subseteq c.styles /\ (p.styles = {} => c.styles = {})

\* One transaction at a time has the row, and what it deleted is what it will replace.
WritersSound ==
    /\ writer \in [Writers -> [stage : {"idle", "upserted", "deleted"},
                               choice : Selections \union {NoPreference},
                               deleted : PreferenceRows(BOOLEAN)]]
    /\ \A v, w \in Writers : writer[v].stage # "idle" /\ writer[w].stage # "idle" => v = w
    /\ \A w \in Writers : writer[w].stage = "deleted" => writer[w].deleted = db.preference

\* The script attaches what it has uploaded.
ImportSound ==
    /\ import \in [stage : {"idle", "upload", "attach"}, folder : Photos \union {<<>>},
                   matched : SUBSET Nat]
    /\ import.stage = "attach" =>
          import.folder \in Photos /\ \A i \in import.matched : Key(import.folder[i]) \in bucket
    /\ import.stage = "upload" => import.folder \in Photos

Uploaded(d) == \A a \in d.assets : a.id[1] = "import" => a.key \in bucket

RevisionSound == db.revision \in 0 .. Latest /\ db.schema = SchemaAt(db.revision)

CatalogueInv ==
    /\ RevisionSound /\ Sound(db, db.revision) /\ OneChoice(db.preference)
    /\ WritersSound /\ ImportSound /\ Uploaded(db)

Numbers == /\ Preferences = 12 /\ Seeds = 13 /\ Images = 15 /\ Expansion = 16 /\ Import = 18

\* The revisions are in this order.
LEMMA RevisionOrder == Numbers
BY DEF Numbers, Preferences, Seeds, Images, Expansion, Import

\* The fields of a database.
LEMMA Fields ==
    DOMAIN Empty = {"revision", "schema", "destinations", "hidden", "places", "image", "assets",
                    "links", "preference", "failed"}
BY DEF Empty

\* A key is not the absence of one, and neither is an address.
LEMMA KeysAndUrls ==
    /\ \A k \in ManifestKeys : k # NoKey
    /\ \A photo : /\ Key(photo) # NoKey /\ Key(photo)[1] = photo.owner
                  /\ BucketUrl(photo) # NoImage
    /\ \A x, y : <<x, y>> # NoImage
BY DEF ManifestKeys, Key, NoKey, BucketUrl, NoImage

\* The owners of the manifest's photos are its own destinations and places.
LEMMA ManifestOwners ==
    /\ \A m \in Manifest : m.owner \in Imported \union NewPlaces
    /\ \A k \in ManifestKeys : k[1] \in Imported \union NewPlaces
BY DEF Manifest, ManifestKeys, Key

\* The owners of different kinds and origins are different.
LEMMA OwnersDisjoint ==
    /\ Seeded \intersect Imported = {} /\ OldPlaces \intersect NewPlaces = {}
    /\ (Seeded \union OldPlaces) \intersect (Imported \union NewPlaces) = {}
    /\ (Seeded \union Imported) \intersect (OldPlaces \union NewPlaces) = {}
    /\ \A p \in NewPlaces : Parent[p] \in Seeded \union Imported
BY CatalogueAssumption

\* No migration and no import adds an object that is not in the bucket.
Adds(d, e) == \A a \in e.assets : a.id[1] = "import" => a \in d.assets

\* e8b4: the seeds come with their images.
LEMMA SeedsUp ==
    ASSUME NEW d, NEW r \in Nat, r < Seeds, Sound(d, r)
    PROVE  LET e == SeedCatalogue(d)
           IN Sound(e, Seeds) /\ e.preference = d.preference /\ Adds(d, e)
<1> DEFINE e == SeedCatalogue(d)
<1> USE RevisionOrder DEF Numbers
<1>1. DOMAIN d = DOMAIN Empty /\ ~d.failed /\ d.places = {} /\ d.assets = {} /\ d.links = {}
      /\ DOMAIN d.image = Seeded \union Imported
  BY DEF Sound, PlacesAt, AssetsSound, LinksSound, ImagesSound
<1>2. /\ DOMAIN e = DOMAIN Empty /\ ~e.failed /\ e.destinations = Seeded /\ e.places = {}
      /\ e.assets = {} /\ e.links = {} /\ e.preference = d.preference
      /\ e.image = [x \in DOMAIN d.image |-> IF x \in Seeded THEN <<"seed", x>> ELSE NoImage]
  BY <1>1, Fields DEF SeedCatalogue
<1> HIDE DEF e
<1>3. ImagesSound(e, Seeds)
  BY <1>1, <1>2, KeysAndUrls DEF ImagesSound
<1>4. AssetsSound(e, Seeds) /\ LinksSound(e, Seeds) /\ Adds(d, e)
  BY <1>2 DEF AssetsSound, LinksSound, Adds
<1>5. e.destinations = DestinationsAt(Seeds) /\ e.places = PlacesAt(Seeds)
  BY <1>2 DEF DestinationsAt, PlacesAt
<1>6. Sound(e, Seeds) /\ e.preference = d.preference /\ Adds(d, e)
  BY <1>2, <1>3, <1>4, <1>5 DEF Sound
<1> QED
  BY <1>6 DEF e

\* 6a1d: an image is replaced by another, in both directions.
LEMMA ImagesMoved ==
    ASSUME NEW d, NEW r \in Nat, NEW s \in Nat, Seeds <= r, r < Expansion, Seeds <= s,
           s < Expansion, Sound(d, r), NEW age
    PROVE  LET e == UpdateImages(d, age)
           IN Sound(e, s) /\ e.preference = d.preference /\ Adds(d, e)
<1> DEFINE e == UpdateImages(d, age)
<1> USE RevisionOrder DEF Numbers
<1>1. DOMAIN d = DOMAIN Empty /\ ~d.failed /\ d.places = {} /\ d.assets = {} /\ d.links = {}
      /\ DOMAIN d.image = Seeded \union Imported /\ d.destinations = Seeded
      /\ \A x \in d.destinations : d.image[x] # NoImage
  BY DEF Sound, DestinationsAt, PlacesAt, AssetsSound, LinksSound, ImagesSound
<1>2. /\ DOMAIN e = DOMAIN Empty /\ ~e.failed /\ e.destinations = Seeded /\ e.places = {}
      /\ e.assets = {} /\ e.links = {} /\ e.preference = d.preference
      /\ e.image = [x \in DOMAIN d.image |-> IF x \in Replaced \intersect d.destinations
                                              THEN <<age, x>> ELSE d.image[x]]
  BY <1>1, Fields DEF UpdateImages
<1> HIDE DEF e
<1>3. ImagesSound(e, s)
  BY <1>1, <1>2, KeysAndUrls DEF ImagesSound
<1>4. AssetsSound(e, s) /\ LinksSound(e, s) /\ Adds(d, e)
  BY <1>2 DEF AssetsSound, LinksSound, Adds
<1>5. e.destinations = DestinationsAt(s) /\ e.places = PlacesAt(s)
  BY <1>2 DEF DestinationsAt, PlacesAt
<1>6. Sound(e, s) /\ e.preference = d.preference /\ Adds(d, e)
  BY <1>2, <1>3, <1>4, <1>5 DEF Sound
<1> QED
  BY <1>6 DEF e

\* d4f8: every destination gets its image as cover.
LEMMA ExpansionUp ==
    ASSUME NEW d, NEW r \in Nat, Images <= r, r < Expansion, Sound(d, r)
    PROVE  LET e == MoveImages(d)
           IN Sound(e, Expansion) /\ e.preference = d.preference /\ Adds(d, e)
<1> DEFINE e == MoveImages(d)
<1> USE RevisionOrder DEF Numbers
<1>1. DOMAIN d = DOMAIN Empty /\ ~d.failed /\ d.destinations = Seeded
      /\ \A x \in d.destinations : d.image[x] # NoImage
  BY DEF Sound, DestinationsAt, ImagesSound
<1>2. /\ DOMAIN e = DOMAIN Empty /\ ~e.failed /\ e.destinations = Seeded /\ e.places = OldPlaces
      /\ e.preference = d.preference /\ e.image = Empty.image
      /\ e.assets = {[id |-> CoverAsset(x), key |-> NoKey, url |-> d.image[x]] : x \in Seeded}
      /\ e.links = {[owner |-> x, asset |-> CoverAsset(x), slot |-> 0] : x \in Seeded}
  BY <1>1, Fields DEF MoveImages
<1> HIDE DEF e
<1>3. ImagesSound(e, Expansion)
  BY <1>2 DEF ImagesSound, Empty
<1>4. /\ \A a \in e.assets : \E x \in Seeded : a.id = <<"cover", x>> /\ a.key = NoKey
                                               /\ a.url = d.image[x]
      /\ \A x \in Seeded : \E a \in e.assets : a.id = <<"cover", x>>
      /\ \A a, b \in e.assets : a.id = b.id => a = b
  <2>1. \A a \in e.assets : \E x \in Seeded :
           a = [id |-> CoverAsset(x), key |-> NoKey, url |-> d.image[x]]
    BY <1>2
  <2>2. \A x \in Seeded : [id |-> CoverAsset(x), key |-> NoKey, url |-> d.image[x]] \in e.assets
    BY <1>2
  <2>3. \A x, y : CoverAsset(x) = CoverAsset(y) => x = y
    BY DEF CoverAsset
  <2>4. \A a, b \in e.assets : a.id = b.id => a = b
    BY <2>1, <2>3
  <2>5. ASSUME NEW x \in Seeded PROVE \E a \in e.assets : a.id = <<"cover", x>>
    <3> DEFINE a == [id |-> CoverAsset(x), key |-> NoKey, url |-> d.image[x]]
    <3>1. a \in e.assets /\ a.id = <<"cover", x>>
      BY <2>2 DEF CoverAsset
    <3> HIDE DEF a
    <3> QED
      BY <3>1
  <2>6. \A a \in e.assets : \E x \in Seeded : a.id = <<"cover", x>> /\ a.key = NoKey
                                               /\ a.url = d.image[x]
    BY <2>1 DEF CoverAsset
  <2> QED
    BY <2>4, <2>5, <2>6
<1>5. /\ \A l \in e.links : \E x \in Seeded : l.owner = x /\ l.asset = <<"cover", x>> /\ l.slot = 0
      /\ \A x \in Seeded : \E l \in e.links : l.owner = x /\ l.slot = 0
  <2>1. \A l \in e.links : \E x \in Seeded :
           l = [owner |-> x, asset |-> CoverAsset(x), slot |-> 0]
    BY <1>2
  <2>2. \A x \in Seeded : [owner |-> x, asset |-> CoverAsset(x), slot |-> 0] \in e.links
    BY <1>2
  <2>3. ASSUME NEW x \in Seeded PROVE \E l \in e.links : l.owner = x /\ l.slot = 0
    <3> DEFINE l == [owner |-> x, asset |-> CoverAsset(x), slot |-> 0]
    <3>1. l \in e.links /\ l.owner = x /\ l.slot = 0
      BY <2>2
    <3> HIDE DEF l
    <3> QED
      BY <3>1
  <2>4. \A l \in e.links :
           \E x \in Seeded : l.owner = x /\ l.asset = <<"cover", x>> /\ l.slot = 0
    BY <2>1 DEF CoverAsset
  <2> QED
    BY <2>3, <2>4
<1>6. AssetsSound(e, Expansion)
  BY <1>1, <1>4 DEF AssetsSound, AssetSound, CoverAsset
<1>7. LinksSound(e, Expansion)
  BY <1>2, <1>4, <1>5 DEF LinksSound
<1>8. Adds(d, e)
  BY <1>4 DEF Adds
<1>9. e.destinations = DestinationsAt(Expansion) /\ e.places = PlacesAt(Expansion)
  BY <1>2 DEF DestinationsAt, PlacesAt
<1>10. Sound(e, Expansion) /\ e.preference = d.preference /\ Adds(d, e)
  BY <1>2, <1>3, <1>6, <1>7, <1>8, <1>9 DEF Sound
<1> QED
  BY <1>10 DEF e

\* The photos of the manifest have slots of their own, and each destination has a cover.
LEMMA ManifestSlots ==
    /\ \A m, n \in Manifest : m.owner = n.owner /\ m.slot = n.slot => m = n
    /\ \A x \in Imported : \E m \in Manifest : m.owner = x /\ m.slot = 0
<1>1. Range(Folder) = {Folder[i] : i \in DOMAIN Folder}
  BY DEF Range
<1>2. \A m, n \in Manifest : m.owner = n.owner /\ m.slot = n.slot => m = n
  BY <1>1, FolderAssumption DEF Manifest, UniqueOwnerPhotos, Scanned
<1>3. ASSUME NEW x \in Imported PROVE \E m \in Manifest : m.owner = x /\ m.slot = 0
  <2>1. PICK i \in DOMAIN Folder : Folder[i].owner = x /\ Folder[i].slot = 0
    BY FolderAssumption
  <2>2. \A q \in Range(Folder) : 0 <= q.slot
    BY <1>1, FolderAssumption DEF Scanned
  <2>3. Folder[i] \in UniqueOwnerPhotos(Range(Folder))
    BY <1>1, <2>1, <2>2 DEF UniqueOwnerPhotos
  <2>4. Folder[i] \in Manifest
    BY <2>1, <2>3 DEF Manifest
  <2> QED
    BY <2>1, <2>4
<1> QED
  BY <1>2, <1>3

\* f3a9: the manifest fits, and its destinations come with their covers.
LEMMA ImportUp ==
    ASSUME NEW d, NEW r \in Nat, Expansion <= r, r < Import, Sound(d, r)
    PROVE  LET e == ImportManifest(d)
           IN Sound(e, Import) /\ e.preference = d.preference /\ Adds(d, e)
<1> DEFINE e == ImportManifest(d)
<1> USE RevisionOrder DEF Numbers
<1>1. /\ DOMAIN d = DOMAIN Empty /\ ~d.failed /\ d.destinations = Seeded /\ d.places = OldPlaces
      /\ DOMAIN d.image = Seeded \union Imported
  BY DEF Sound, DestinationsAt, PlacesAt, ImagesSound
<1>2. AssetsSound(d, r) /\ LinksSound(d, r)
  BY DEF Sound
<1>3. \A a \in d.assets : a.key \notin ManifestKeys /\ (\A k : a.id # <<"manifest", k>>)
  <2>1. \A x, k : <<"cover", x>> # <<"manifest", k>> /\ <<"import", x>> # <<"manifest", k>>
    BY "cover" # "manifest" /\ "import" # "manifest"
  <2>2. \A a \in d.assets : AssetSound(a, r)
    BY <1>2 DEF AssetsSound
  <2>3. NoKey \notin ManifestKeys
    BY KeysAndUrls
  <2> QED
    BY <2>1, <2>2, <2>3 DEF AssetSound, CoverAsset
<1>4. ManifestFits(d)
  BY <1>1, <1>3, OwnersDisjoint DEF ManifestFits, ManifestKeys
<1>5. /\ DOMAIN e = DOMAIN Empty /\ ~e.failed /\ e.preference = d.preference
      /\ e.destinations = Seeded \union Imported /\ e.places = OldPlaces \union NewPlaces
      /\ DOMAIN e.image = Seeded \union Imported
      /\ e.assets = d.assets \union {[id |-> ManifestAsset(m), key |-> Key(m),
                                      url |-> BucketUrl(m)] : m \in Manifest}
      /\ e.links = d.links \union {[owner |-> m.owner, asset |-> ManifestAsset(m),
                                    slot |-> m.slot] : m \in Manifest}
  BY <1>1, <1>4, Fields DEF ImportManifest
<1> HIDE DEF e
<1>6. /\ d.assets \subseteq e.assets
      /\ \A a \in e.assets : a \in d.assets \/ \E m \in Manifest :
            a = [id |-> <<"manifest", Key(m)>>, key |-> Key(m), url |-> <<"bucket", Key(m)>>]
      /\ \A m \in Manifest : \E a \in e.assets : a.key = Key(m) /\ a.id = <<"manifest", Key(m)>>
  <2>1. \A a \in e.assets : a \in d.assets \/ \E m \in Manifest :
           a = [id |-> ManifestAsset(m), key |-> Key(m), url |-> BucketUrl(m)]
    BY <1>5
  <2>2. \A m \in Manifest :
           [id |-> ManifestAsset(m), key |-> Key(m), url |-> BucketUrl(m)] \in e.assets
    BY <1>5
  <2>3. d.assets \subseteq e.assets
    BY <1>5
  <2> QED
    BY <2>1, <2>2, <2>3 DEF ManifestAsset, BucketUrl
<1>7. /\ d.links \subseteq e.links
      /\ \A l \in e.links : l \in d.links \/ \E m \in Manifest :
            l.owner = m.owner /\ l.asset = <<"manifest", Key(m)>> /\ l.slot = m.slot
      /\ \A m \in Manifest : \E l \in e.links : l.owner = m.owner /\ l.slot = m.slot
  <2>1. \A l \in e.links : l \in d.links \/ \E m \in Manifest :
           l = [owner |-> m.owner, asset |-> ManifestAsset(m), slot |-> m.slot]
    BY <1>5
  <2>2. \A m \in Manifest :
           [owner |-> m.owner, asset |-> ManifestAsset(m), slot |-> m.slot] \in e.links
    BY <1>5
  <2>3. d.links \subseteq e.links
    BY <1>5
  <2>4. ASSUME NEW m \in Manifest PROVE \E l \in e.links : l.owner = m.owner /\ l.slot = m.slot
    <3> DEFINE l == [owner |-> m.owner, asset |-> ManifestAsset(m), slot |-> m.slot]
    <3>1. l \in e.links /\ l.owner = m.owner /\ l.slot = m.slot
      BY <2>2
    <3> HIDE DEF l
    <3> QED
      BY <3>1
  <2>5. \A l \in e.links : l \in d.links \/ \E m \in Manifest :
           l.owner = m.owner /\ l.asset = <<"manifest", Key(m)>> /\ l.slot = m.slot
    BY <2>1 DEF ManifestAsset
  <2> QED
    BY <2>3, <2>4, <2>5
<1>8. AssetsSound(e, Import)
  <2>1. ASSUME NEW a \in e.assets PROVE a.url # NoImage /\ AssetSound(a, Import)
    <3>1. CASE a \in d.assets
      BY <3>1, <1>2 DEF AssetsSound, AssetSound
    <3>2. CASE a \notin d.assets
      <4>1. PICK m \in Manifest :
              a = [id |-> <<"manifest", Key(m)>>, key |-> Key(m), url |-> <<"bucket", Key(m)>>]
        BY <1>6, <3>2
      <4> QED
        BY <4>1, KeysAndUrls DEF AssetSound, ManifestKeys
    <3> QED
      BY <3>1, <3>2
  <2>2. \A a, b \in e.assets : a.id = b.id => a = b
    BY <1>2, <1>3, <1>6 DEF AssetsSound
  <2>3. \A k \in ManifestKeys : \E a \in e.assets : a.key = k
    BY <1>6 DEF ManifestKeys
  <2> QED
    BY <2>1, <2>2, <2>3 DEF AssetsSound
<1>9. LinksSound(e, Import)
  <2>1. ASSUME NEW l \in e.links
        PROVE  l.owner \in e.destinations \union e.places /\ \E a \in e.assets : a.id = l.asset
    <3>1. CASE l \in d.links
      BY <3>1, <1>1, <1>2, <1>5, <1>6 DEF LinksSound
    <3>2. CASE l \notin d.links
      BY <3>2, <1>5, <1>6, <1>7, ManifestOwners
    <3> QED
      BY <3>1, <3>2
  <2>2. \A l \in d.links : l.owner \notin Imported \union NewPlaces
    BY <1>1, <1>2, OwnersDisjoint DEF LinksSound
  <2>3. ASSUME NEW l \in e.links, NEW k \in e.links, l.owner = k.owner, l.slot = k.slot
        PROVE  l.asset = k.asset
    <3>1. CASE l \in d.links /\ k \in d.links
      BY <3>1, <2>3, <1>2 DEF LinksSound
    <3>2. CASE l \notin d.links /\ k \notin d.links
      BY <3>2, <2>3, <1>7, ManifestSlots
    <3> QED
      BY <3>1, <3>2, <2>2, <2>3, <1>7, ManifestOwners
  <2>4. ASSUME NEW x \in e.destinations PROVE \E l \in e.links : l.owner = x /\ l.slot = 0
    <3>1. CASE x \in Seeded
      BY <3>1, <1>1, <1>2, <1>7 DEF LinksSound
    <3>2. CASE x \in Imported
      BY <3>2, <1>7, ManifestSlots
    <3> QED
      BY <3>1, <3>2, <1>5
  <2>5. ASSUME NEW l \in e.links, NEW k \in ManifestKeys, l.asset = <<"manifest", k>>
        PROVE  l.owner = k[1]
    <3>1. CASE l \in d.links
      BY <3>1, <2>5, <1>2 DEF LinksSound
    <3>2. CASE l \notin d.links
      <4>1. PICK m \in Manifest : l.owner = m.owner /\ l.asset = <<"manifest", Key(m)>>
        BY <3>2, <1>7
      <4>2. k = Key(m)
        BY <4>1, <2>5
      <4> QED
        BY <4>1, <4>2, KeysAndUrls
    <3> QED
      BY <3>1, <3>2
  <2> QED
    BY <2>1, <2>3, <2>4, <2>5 DEF LinksSound
<1>10. ImagesSound(e, Import)
  BY <1>5 DEF ImagesSound
<1>11. Adds(d, e)
  BY <1>6 DEF Adds
<1>12. e.destinations = DestinationsAt(Import) /\ e.places = PlacesAt(Import)
  BY <1>5 DEF DestinationsAt, PlacesAt
<1>13. Sound(e, Import) /\ e.preference = d.preference /\ Adds(d, e)
  BY <1>5, <1>8, <1>9, <1>10, <1>11, <1>12 DEF Sound
<1> QED
  BY <1>13 DEF e

\* f3a9, downgrade: what stays is sound without the manifest.
LEMMA ImportDown ==
    ASSUME NEW d, NEW r \in Nat, Import <= r, NEW s \in Nat, Expansion <= s, s < Import, Sound(d, r)
    PROVE  LET e == RemoveManifest(d)
           IN Sound(e, s) /\ e.preference = d.preference /\ Adds(d, e)
<1> DEFINE e == RemoveManifest(d)
           ids == {ManifestAsset(m) : m \in Manifest}
           gone == Imported \union NewPlaces
<1> USE RevisionOrder DEF Numbers
<1>1. /\ DOMAIN d = DOMAIN Empty /\ ~d.failed /\ d.destinations = Seeded \union Imported
      /\ d.places = OldPlaces \union NewPlaces /\ DOMAIN d.image = Seeded \union Imported
  BY DEF Sound, DestinationsAt, PlacesAt, ImagesSound
<1>2. AssetsSound(d, r) /\ LinksSound(d, r)
  BY DEF Sound
<1>3. \A k : k \in ManifestKeys <=> <<"manifest", k>> \in ids
  <2>1. \A m \in Manifest : ManifestAsset(m) = <<"manifest", Key(m)>>
    BY DEF ManifestAsset
  <2>2. \A m \in Manifest : \A k : <<"manifest", Key(m)>> = <<"manifest", k>> => Key(m) = k
    OBVIOUS
  <2> QED
    BY <2>1, <2>2 DEF ManifestKeys
<1>4. \A k \in ids : \E key \in ManifestKeys : k = <<"manifest", key>>
  BY DEF ManifestKeys, ManifestAsset
<1>5. /\ DOMAIN e = DOMAIN Empty /\ ~e.failed /\ e.preference = d.preference
      /\ DOMAIN e.image = Seeded \union Imported
      /\ e.destinations = (Seeded \union Imported) \ Imported
      /\ e.places = (OldPlaces \union NewPlaces) \ gone
      /\ e.assets = {a \in d.assets : a.id \notin ids}
      /\ e.links = {l \in d.links : l.asset \notin ids /\ l.owner \notin gone}
  BY <1>1, Fields DEF RemoveManifest
<1>6. e.destinations = Seeded /\ e.places = OldPlaces
  BY <1>5, OwnersDisjoint
<1> HIDE DEF e, ids
<1>7. AssetsSound(e, s)
  <2>1. e.assets \subseteq d.assets /\ \A a \in e.assets : a.id \notin ids
    BY <1>5
  <2>2. ASSUME NEW a \in e.assets PROVE a.url # NoImage /\ AssetSound(a, s)
    <3>1. a.url # NoImage /\ AssetSound(a, r) /\ a.id \notin ids
      BY <1>2, <2>1 DEF AssetsSound
    <3>2. a.key \in ManifestKeys => a.id # <<"manifest", a.key>>
      BY <1>3, <3>1
    <3> QED
      BY <3>1, <3>2 DEF AssetSound
  <2>3. \A a, b \in e.assets : a.id = b.id => a = b
    BY <1>2, <2>1 DEF AssetsSound
  <2> QED
    BY <2>2, <2>3 DEF AssetsSound
<1>8. LinksSound(e, s)
  <2>1. ASSUME NEW l \in e.links
        PROVE  l.owner \in e.destinations \union e.places /\ \E a \in e.assets : a.id = l.asset
    BY <1>1, <1>2, <1>5, <1>6, OwnersDisjoint DEF LinksSound
  <2>2. ASSUME NEW x \in e.destinations PROVE \E l \in e.links : l.owner = x /\ l.slot = 0
    <3>1. PICK l \in d.links : l.owner = x /\ l.slot = 0
      BY <1>1, <1>2, <1>6 DEF LinksSound
    <3>2. l.owner \notin gone
      BY <3>1, <1>6, OwnersDisjoint
    <3>3. l.asset \notin ids
      BY <3>2, <1>2, <1>4, ManifestOwners DEF LinksSound
    <3> QED
      BY <3>1, <3>2, <3>3, <1>5
  <2>3. e.links \subseteq d.links
    BY <1>5
  <2>4. /\ \A l, k \in e.links : l.owner = k.owner /\ l.slot = k.slot => l.asset = k.asset
        /\ \A l \in e.links, k \in ManifestKeys : l.asset = <<"manifest", k>> => l.owner = k[1]
    BY <2>3, <1>2 DEF LinksSound
  <2> QED
    BY <2>1, <2>2, <2>4 DEF LinksSound
<1>9. ImagesSound(e, s)
  BY <1>5 DEF ImagesSound
<1>10. Adds(d, e)
  BY <1>5 DEF Adds
<1>11. e.destinations = DestinationsAt(s) /\ e.places = PlacesAt(s)
  BY <1>6 DEF DestinationsAt, PlacesAt
<1>12. Sound(e, s) /\ e.preference = d.preference /\ Adds(d, e)
  BY <1>5, <1>7, <1>8, <1>9, <1>10, <1>11 DEF Sound
<1> QED
  BY <1>12 DEF e

\* A destination that is sound has a cover, whose address is an image.
LEMMA CoverThere ==
    ASSUME NEW d, NEW r \in Nat, Expansion <= r, Sound(d, r), NEW x \in d.destinations
    PROVE  Covers(d, x) # {} /\ (\A a \in Covers(d, x) : a.url # NoImage)
           /\ (\A a, b \in Covers(d, x) : a = b)
<1>1. AssetsSound(d, r) /\ LinksSound(d, r)
  BY DEF Sound
<1>2. PICK l \in d.links : l.owner = x /\ l.slot = 0
  BY <1>1 DEF LinksSound
<1>3. PICK a \in d.assets : a.id = l.asset
  BY <1>1 DEF LinksSound
<1>4. a \in Covers(d, x)
  BY <1>2, <1>3 DEF Covers
<1>5. \A b \in Covers(d, x) : b.url # NoImage
  BY <1>1 DEF Covers, AssetsSound
<1>6. \A b, c \in Covers(d, x) : b = c
  BY <1>1 DEF Covers, AssetsSound, LinksSound
<1> QED
  BY <1>4, <1>5, <1>6

\* The first of the styles.
Reduced(p) == [p EXCEPT !.styles = IF @ = {} THEN {} ELSE {Min(@)}]

\* d4f8, downgrade: every destination gets its cover's address as image.
LEMMA ExpansionDown ==
    ASSUME NEW d, NEW r \in Nat, Expansion <= r, r < Import, NEW s \in Nat, Images <= s,
           s < Expansion, Sound(d, r)
    PROVE  LET e == ReduceStyles(RestoreImages(d))
           IN Sound(e, s) /\ e.preference = Reduced(d.preference) /\ Adds(d, e)
<1> DEFINE c == RestoreImages(d)
           e == ReduceStyles(c)
<1> USE RevisionOrder DEF Numbers
<1>1. /\ DOMAIN d = DOMAIN Empty /\ ~d.failed /\ d.destinations = Seeded
      /\ DOMAIN d.image = Seeded \union Imported
  BY DEF Sound, DestinationsAt, ImagesSound
<1>2. /\ DOMAIN c = DOMAIN Empty /\ ~c.failed /\ c.preference = d.preference
      /\ c.destinations = Seeded /\ c.places = {} /\ c.assets = {} /\ c.links = {}
      /\ c.image = [x \in DOMAIN d.image |->
                      IF x \in d.destinations /\ Covers(d, x) # {}
                      THEN (CHOOSE a \in Covers(d, x) : TRUE).url ELSE NoImage]
  BY <1>1, Fields DEF RestoreImages
<1> HIDE DEF c
<1>3. /\ DOMAIN e = DOMAIN Empty /\ ~e.failed /\ e.preference = Reduced(c.preference)
      /\ e.destinations = Seeded /\ e.places = {} /\ e.assets = {} /\ e.links = {}
      /\ e.image = c.image
  BY <1>2, Fields DEF ReduceStyles, Reduced
<1> HIDE DEF e
<1>4. ASSUME NEW x \in Seeded PROVE e.image[x] # NoImage
  <2>1. Covers(d, x) # {} /\ \A a \in Covers(d, x) : a.url # NoImage
    BY <1>1, CoverThere
  <2>2. (CHOOSE a \in Covers(d, x) : TRUE) \in Covers(d, x)
    BY <2>1
  <2>3. e.image[x] = (CHOOSE a \in Covers(d, x) : TRUE).url
    BY <2>1, <1>1, <1>2, <1>3
  <2> QED
    BY <2>1, <2>2, <2>3
<1>5. ImagesSound(e, s)
  BY <1>1, <1>2, <1>3, <1>4 DEF ImagesSound
<1>6. AssetsSound(e, s) /\ LinksSound(e, s) /\ Adds(d, e)
  BY <1>3 DEF AssetsSound, LinksSound, Adds
<1>7. e.destinations = DestinationsAt(s) /\ e.places = PlacesAt(s)
  BY <1>3 DEF DestinationsAt, PlacesAt
<1>8. Sound(e, s) /\ e.preference = Reduced(d.preference) /\ Adds(d, e)
  BY <1>2, <1>3, <1>5, <1>6, <1>7 DEF Sound
<1> QED
  BY <1>8 DEF c, e

\* e8b4, downgrade: nothing is left.
LEMMA SeedsDown ==
    ASSUME NEW d, NEW r \in Nat, Seeds <= r, r < Images, NEW s \in Nat, s < Seeds, Sound(d, r)
    PROVE  LET e == ClearCatalogue(d)
           IN Sound(e, s) /\ e.preference = d.preference /\ Adds(d, e)
<1> DEFINE e == ClearCatalogue(d)
<1> USE RevisionOrder DEF Numbers
<1>1. DOMAIN d = DOMAIN Empty /\ ~d.failed /\ d.places = {} /\ d.assets = {} /\ d.links = {}
  BY DEF Sound, PlacesAt, AssetsSound, LinksSound
<1>2. /\ DOMAIN e = DOMAIN Empty /\ ~e.failed /\ e.destinations = {} /\ e.places = {}
      /\ e.assets = {} /\ e.links = {} /\ e.preference = d.preference /\ e.image = Empty.image
  BY <1>1, Fields DEF ClearCatalogue
<1> HIDE DEF e
<1>3. ImagesSound(e, s)
  BY <1>2 DEF ImagesSound, Empty
<1>4. AssetsSound(e, s) /\ LinksSound(e, s) /\ Adds(d, e)
  BY <1>2 DEF AssetsSound, LinksSound, Adds
<1>5. e.destinations = DestinationsAt(s) /\ e.places = PlacesAt(s)
  BY <1>2 DEF DestinationsAt, PlacesAt
<1>6. Sound(e, s) /\ e.preference = d.preference /\ Adds(d, e)
  BY <1>2, <1>3, <1>4, <1>5 DEF Sound
<1> QED
  BY <1>6 DEF e

\* c3d9, downgrade: the table of the preferences goes, and nothing of the catalogue.
LEMMA PreferencesDown ==
    ASSUME NEW d, NEW r \in Nat, Sound(d, r)
    PROVE  LET e == DowngradeRows(d, Preferences)
           IN Sound(e, r) /\ e.preference = NoPreference /\ Adds(d, e)
<1> DEFINE e == [d EXCEPT !.preference = NoPreference]
<1>1. DowngradeRows(d, Preferences) = e
  BY RevisionOrder DEF Numbers, DowngradeRows
<1>2. DOMAIN d = DOMAIN Empty
  BY DEF Sound
<1>3. /\ DOMAIN e = DOMAIN Empty /\ e.failed = d.failed /\ e.destinations = d.destinations
      /\ e.places = d.places /\ e.image = d.image /\ e.assets = d.assets /\ e.links = d.links
      /\ e.preference = NoPreference
  BY <1>2, Fields
<1> HIDE DEF e
<1>4. Sound(e, r) /\ Adds(d, e)
  BY <1>3 DEF Sound, ImagesSound, AssetsSound, LinksSound, Adds
<1> QED
  BY <1>1, <1>3, <1>4

\* Only the revisions that change rows matter to them.
LEMMA SameRows ==
    ASSUME NEW d, NEW r \in Nat, NEW s \in Nat, Sound(d, r), r < Seeds <=> s < Seeds,
           r < Expansion <=> s < Expansion, r < Import <=> s < Import
    PROVE  Sound(d, s)
<1>1. DestinationsAt(r) = DestinationsAt(s) /\ PlacesAt(r) = PlacesAt(s)
  BY RevisionOrder DEF Numbers, DestinationsAt, PlacesAt
<1>2. ImagesSound(d, s)
  BY RevisionOrder DEF Numbers, Sound, ImagesSound
<1>3. AssetsSound(d, s)
  BY RevisionOrder DEF Numbers, Sound, AssetsSound, AssetSound
<1>4. LinksSound(d, s)
  BY RevisionOrder DEF Numbers, Sound, LinksSound
<1> QED
  BY <1>1, <1>2, <1>3, <1>4 DEF Sound

\* Which migration is which.
LEMMA Migrations ==
    ASSUME NEW d
    PROVE  /\ UpgradeRows(d, Seeds) = SeedCatalogue(d)
           /\ UpgradeRows(d, Images) = UpdateImages(d, "new")
           /\ UpgradeRows(d, Expansion) = MoveImages(d)
           /\ UpgradeRows(d, Import) = ImportManifest(d)
           /\ DowngradeRows(d, Seeds) = ClearCatalogue(d)
           /\ DowngradeRows(d, Images) = UpdateImages(d, "seed")
           /\ DowngradeRows(d, Expansion) = ReduceStyles(RestoreImages(d))
           /\ DowngradeRows(d, Import) = RemoveManifest(d)
BY RevisionOrder DEF Numbers, UpgradeRows, DowngradeRows

\* An upgrade leads from sound rows to sound rows and leaves the preferences alone.
LEMMA RaisedSound ==
    ASSUME NEW d, NEW from \in Nat, NEW to \in Nat, from <= to, Sound(d, from)
    PROVE  LET e == RaisedRows(d, from, to)
           IN Sound(e, to) /\ e.preference = d.preference /\ Adds(d, e)
<1> DEFINE seeded == Upgraded(d, from, to, Seeds)
           updated == Upgraded(seeded, from, to, Images)
           expanded == Upgraded(updated, from, to, Expansion)
           imported == Upgraded(expanded, from, to, Import)
           crosses(r) == from < r /\ r <= to
           r1 == IF crosses(Seeds) THEN Seeds ELSE from
           r2 == IF crosses(Images) THEN Images ELSE r1
           r3 == IF crosses(Expansion) THEN Expansion ELSE r2
           r4 == IF crosses(Import) THEN Import ELSE r3
           Fine(e, r) == Sound(e, r) /\ e.preference = d.preference /\ Adds(d, e)
<1> USE RevisionOrder DEF Numbers
<1>1. \A e, f : Adds(d, e) /\ Adds(e, f) => Adds(d, f)
  BY DEF Adds
<1>2. Fine(seeded, r1)
  <2>1. CASE crosses(Seeds)
    <3>1. seeded = SeedCatalogue(d)
      BY <2>1, Migrations DEF Upgraded
    <3> QED
      BY <2>1, <3>1, SeedsUp
  <2>2. CASE ~crosses(Seeds)
    BY <2>2 DEF Upgraded, Adds
  <2> QED
    BY <2>1, <2>2
<1> HIDE DEF seeded
<1>3. Fine(updated, r2)
  <2>1. CASE crosses(Images)
    <3>1. updated = UpdateImages(seeded, "new")
      BY <2>1, Migrations DEF Upgraded
    <3>2. r1 \in Nat /\ Seeds <= r1 /\ r1 < Expansion
      BY <2>1
    <3>3. Sound(updated, Images) /\ updated.preference = seeded.preference /\ Adds(seeded, updated)
      BY <1>2, <3>1, <3>2, ImagesMoved
    <3> QED
      BY <1>1, <1>2, <2>1, <3>3
  <2>2. CASE ~crosses(Images)
    BY <1>2, <2>2 DEF Upgraded
  <2> QED
    BY <2>1, <2>2
<1> HIDE DEF updated
<1>4. Fine(expanded, r3)
  <2>1. CASE crosses(Expansion)
    <3>1. expanded = MoveImages(updated)
      BY <2>1, Migrations DEF Upgraded
    <3>2. r2 \in Nat /\ Images <= r2 /\ r2 < Expansion
      BY <2>1
    <3>3. /\ Sound(expanded, Expansion) /\ expanded.preference = updated.preference
          /\ Adds(updated, expanded)
      BY <1>3, <3>1, <3>2, ExpansionUp
    <3> QED
      BY <1>1, <1>3, <2>1, <3>3
  <2>2. CASE ~crosses(Expansion)
    BY <1>3, <2>2 DEF Upgraded
  <2> QED
    BY <2>1, <2>2
<1> HIDE DEF expanded
<1>5. Fine(imported, r4)
  <2>1. CASE crosses(Import)
    <3>1. imported = ImportManifest(expanded)
      BY <2>1, Migrations DEF Upgraded
    <3>2. r3 \in Nat /\ Expansion <= r3 /\ r3 < Import
      BY <2>1
    <3>3. /\ Sound(imported, Import) /\ imported.preference = expanded.preference
          /\ Adds(expanded, imported)
      BY <1>4, <3>1, <3>2, ImportUp
    <3> QED
      BY <1>1, <1>4, <2>1, <3>3
  <2>2. CASE ~crosses(Import)
    BY <1>4, <2>2 DEF Upgraded
  <2> QED
    BY <2>1, <2>2
<1>6. imported = RaisedRows(d, from, to)
  BY Zenon DEF RaisedRows, seeded, updated, expanded
<1> HIDE DEF imported
<1>7. /\ r4 \in Nat /\ (r4 < Seeds <=> to < Seeds) /\ (r4 < Expansion <=> to < Expansion)
      /\ (r4 < Import <=> to < Import)
  OBVIOUS
<1> HIDE DEF r4
<1>8. Sound(imported, to)
  BY <1>5, <1>7, SameRows
<1> QED
  BY <1>5, <1>6, <1>8

\* A downgrade does, too; of the preferences it keeps what the columns can hold.
LEMMA LoweredSound ==
    ASSUME NEW d, NEW from \in Nat, NEW to \in Nat, to <= from, Sound(d, from)
    PROVE  LET e == LoweredRows(d, from, to)
               crosses(r) == to < r /\ r <= from
           IN /\ Sound(e, to) /\ Adds(d, e)
              /\ e.preference = IF crosses(Preferences) THEN NoPreference
                                ELSE IF crosses(Expansion) THEN Reduced(d.preference)
                                ELSE d.preference
<1> DEFINE removed == Downgraded(d, from, to, Import)
           reduced == Downgraded(removed, from, to, Expansion)
           reverted == Downgraded(reduced, from, to, Images)
           cleared == Downgraded(reverted, from, to, Seeds)
           dropped == Downgraded(cleared, from, to, Preferences)
           crosses(r) == to < r /\ r <= from
           r1 == IF crosses(Import) THEN Import - 1 ELSE from
           r2 == IF crosses(Expansion) THEN Expansion - 1 ELSE r1
           r3 == IF crosses(Images) THEN Images - 1 ELSE r2
           r4 == IF crosses(Seeds) THEN Seeds - 1 ELSE r3
           kept == IF crosses(Expansion) THEN Reduced(d.preference) ELSE d.preference
           Fine(e, r, p) == Sound(e, r) /\ e.preference = p /\ Adds(d, e)
<1> USE RevisionOrder DEF Numbers
<1>1. \A e, f : Adds(d, e) /\ Adds(e, f) => Adds(d, f)
  BY DEF Adds
<1>2. Fine(removed, r1, d.preference)
  <2>1. CASE crosses(Import)
    <3>1. removed = RemoveManifest(d)
      BY <2>1, Migrations DEF Downgraded
    <3>2. Import - 1 \in Nat /\ Expansion <= Import - 1 /\ Import - 1 < Import
      OBVIOUS
    <3>3. Sound(removed, Import - 1) /\ removed.preference = d.preference /\ Adds(d, removed)
      BY <2>1, <3>1, <3>2, ImportDown
    <3> QED
      BY <2>1, <3>3
  <2>2. CASE ~crosses(Import)
    BY <2>2 DEF Downgraded, Adds
  <2> QED
    BY <2>1, <2>2
<1> HIDE DEF removed
<1>3. Fine(reduced, r2, kept)
  <2>1. CASE crosses(Expansion)
    <3>1. reduced = ReduceStyles(RestoreImages(removed))
      BY <2>1, Migrations DEF Downgraded
    <3>2. r1 \in Nat /\ Expansion <= r1 /\ r1 < Import
      BY <2>1
    <3>3. Expansion - 1 \in Nat /\ Images <= Expansion - 1 /\ Expansion - 1 < Expansion
      OBVIOUS
    <3>4. /\ Sound(reduced, Expansion - 1) /\ reduced.preference = Reduced(removed.preference)
          /\ Adds(removed, reduced)
      BY <1>2, <3>1, <3>2, <3>3, ExpansionDown
    <3> QED
      BY <1>1, <1>2, <2>1, <3>4
  <2>2. CASE ~crosses(Expansion)
    BY <1>2, <2>2 DEF Downgraded
  <2> QED
    BY <2>1, <2>2
<1> HIDE DEF reduced
<1>4. Fine(reverted, r3, kept)
  <2>1. CASE crosses(Images)
    <3>1. reverted = UpdateImages(reduced, "seed")
      BY <2>1, Migrations DEF Downgraded
    <3>2. r2 \in Nat /\ Seeds <= r2 /\ r2 < Expansion
      BY <2>1
    <3>3. Images - 1 \in Nat /\ Seeds <= Images - 1 /\ Images - 1 < Expansion
      OBVIOUS
    <3>4. /\ Sound(reverted, Images - 1) /\ reverted.preference = reduced.preference
          /\ Adds(reduced, reverted)
      BY <1>3, <3>1, <3>2, <3>3, ImagesMoved
    <3> QED
      BY <1>1, <1>3, <2>1, <3>4
  <2>2. CASE ~crosses(Images)
    BY <1>3, <2>2 DEF Downgraded
  <2> QED
    BY <2>1, <2>2
<1> HIDE DEF reverted
<1>5. Fine(cleared, r4, kept)
  <2>1. CASE crosses(Seeds)
    <3>1. cleared = ClearCatalogue(reverted)
      BY <2>1, Migrations DEF Downgraded
    <3>2. r3 \in Nat /\ Seeds <= r3 /\ r3 < Images
      BY <2>1
    <3>3. Seeds - 1 \in Nat /\ Seeds - 1 < Seeds
      OBVIOUS
    <3>4. /\ Sound(cleared, Seeds - 1) /\ cleared.preference = reverted.preference
          /\ Adds(reverted, cleared)
      BY <1>4, <3>1, <3>2, <3>3, SeedsDown
    <3> QED
      BY <1>1, <1>4, <2>1, <3>4
  <2>2. CASE ~crosses(Seeds)
    BY <1>4, <2>2 DEF Downgraded
  <2> QED
    BY <2>1, <2>2
<1> HIDE DEF cleared
<1>6. /\ r4 \in Nat /\ (r4 < Seeds <=> to < Seeds) /\ (r4 < Expansion <=> to < Expansion)
      /\ (r4 < Import <=> to < Import)
  OBVIOUS
<1>7. Fine(cleared, to, kept)
  <2> HIDE DEF r4, kept
  <2> QED
    BY <1>5, <1>6, SameRows
<1>8. Fine(dropped, to, IF crosses(Preferences) THEN NoPreference ELSE kept)
  <2>1. CASE crosses(Preferences)
    <3>1. dropped = DowngradeRows(cleared, Preferences)
      BY <2>1 DEF Downgraded
    <3>2. Sound(dropped, to) /\ dropped.preference = NoPreference /\ Adds(cleared, dropped)
      BY <1>7, <3>1, PreferencesDown
    <3> QED
      BY <1>1, <1>7, <2>1, <3>2
  <2>2. CASE ~crosses(Preferences)
    BY <1>7, <2>2 DEF Downgraded
  <2> QED
    BY <2>1, <2>2
<1>9. dropped = LoweredRows(d, from, to)
  BY Zenon DEF LoweredRows, removed, reduced, reverted, cleared
<1> HIDE DEF dropped
<1> QED
  BY <1>8, <1>9

\* What a run of the migrations does to the preferences.
Carried(p, from, to) ==
    IF to < Preferences /\ Preferences <= from THEN NoPreference
    ELSE IF to < Expansion /\ Expansion <= from THEN Reduced(p) ELSE p

\* A run from a sound database of the expected schema succeeds.
LEMMA MigratedSound ==
    ASSUME NEW d, d.revision \in 0 .. Latest, d.schema = SchemaAt(d.revision),
           Sound(d, d.revision), NEW to \in 0 .. Latest
    PROVE  LET e == Migrated(d, to)
           IN /\ e.revision = to /\ e.schema = SchemaAt(to) /\ Sound(e, to) /\ Adds(d, e)
              /\ e.preference = Carried(d.preference, d.revision, to)
<1> DEFINE from == d.revision
           raised == RaisedRows(d, from, to)
           rows == LoweredRows(raised, from, to)
           e == [rows EXCEPT !.revision = to, !.schema = SchemaAt(to)]
<1> USE RevisionOrder DEF Numbers
<1>1. from \in Nat /\ to \in Nat
  BY SchemaAssumption
<1>2. SchemaRuns[from + 1][to + 1] = SchemaAt(to) /\ SchemaAt(to) # Aborted
  BY SchemaAssumption
<1>3. Sound(rows, to) /\ Adds(d, rows) /\ rows.preference = Carried(d.preference, from, to)
  <2>1. CASE from <= to
    <3>1. Sound(raised, to) /\ raised.preference = d.preference /\ Adds(d, raised)
      BY <1>1, <2>1, RaisedSound
    <3> HIDE DEF raised
    <3>2. rows = raised
      BY <1>1, <2>1 DEF LoweredRows, Downgraded
    <3> HIDE DEF rows, from
    <3> QED
      BY <1>1, <2>1, <3>1, <3>2 DEF Carried
  <2>2. CASE to < from
    <3>1. raised = d
      BY <1>1, <2>2 DEF RaisedRows, Upgraded
    <3> HIDE DEF raised
    <3>2. Sound(d, from) /\ to <= from
      BY <1>1, <2>2
    <3> HIDE DEF from
    <3> QED
      BY <1>1, <3>1, <3>2, LoweredSound, Zenon DEF Carried
  <2> QED
    BY <1>1, <2>1, <2>2
<1> HIDE DEF raised
<1>4. Migrated(d, to) = e
  <2>1. ~rows.failed
    BY <1>3 DEF Sound
  <2>2. MigratedRows(d, to) = rows
    BY DEF MigratedRows, raised
  <2> HIDE DEF rows
  <2> QED
    BY <1>2, <2>1, <2>2 DEF Migrated
<1> HIDE DEF rows
<1>5. /\ e.revision = to /\ e.schema = SchemaAt(to) /\ e.preference = rows.preference
      /\ e.destinations = rows.destinations /\ e.places = rows.places /\ e.image = rows.image
      /\ e.assets = rows.assets /\ e.links = rows.links /\ e.failed = rows.failed
      /\ DOMAIN e = DOMAIN rows
  BY <1>3, Fields DEF Sound
<1> HIDE DEF e
<1>6. Sound(e, to) /\ Adds(d, e)
  BY <1>3, <1>5 DEF Sound, ImagesSound, AssetsSound, LinksSound, Adds
<1> QED
  BY <1>3, <1>4, <1>5, <1>6

\* A set of numbers has a smallest element.
LEMMA SmallestNumber ==
    ASSUME NEW T, T \subseteq Nat, T # {}
    PROVE  \E x \in T : \A y \in T : x <= y
<1>1. \E R : IsWellFoundedOn(R, Nat) /\ \A x, y \in Nat : <<y, x>> \in R <=> y < x
  <2>1. IsWellFoundedOn(OpToRel(<, Nat), Nat)
    BY NatLessThanWellFounded
  <2>2. OpToRel(<, Nat) = {p \in Nat \X Nat : p[1] < p[2]}
    BY Zenon DEF OpToRel
  <2>3. IsWellFoundedOn({p \in Nat \X Nat : p[1] < p[2]}, Nat)
    BY <2>1, <2>2, Zenon
  <2>4. \A x, y \in Nat : <<y, x>> \in {p \in Nat \X Nat : p[1] < p[2]} <=> y < x
    OBVIOUS
  <2> QED
    BY <2>3, <2>4, Zenon
<1>2. PICK R : IsWellFoundedOn(R, Nat) /\ \A x, y \in Nat : <<y, x>> \in R <=> y < x
  BY <1>1
<1>3. PICK x \in T : \A y \in T : ~ (<<y, x>> \in R)
  BY <1>2, WFMin
<1>4. \A y \in T : ~ (y < x)
  BY <1>2, <1>3
<1> QED
  BY <1>4

\* The first of some styles is one of them.
LEMMA ReducedIsPart ==
    ASSUME NEW p \in PreferenceRows(BOOLEAN)
    PROVE  /\ Reduced(p) \in PreferenceRows(BOOLEAN)
           /\ Reduced(p) = [p EXCEPT !.styles = Reduced(p).styles]
           /\ Reduced(p).styles \subseteq p.styles
           /\ Reduced(p).styles = {} => p.styles = {}
<1>1. p.styles \subseteq Nat
  BY DEF PreferenceRows
<1>2. p.styles # {} => Min(p.styles) \in p.styles
  BY <1>1, SmallestNumber DEF Min
<1> DEFINE styles == IF p.styles = {} THEN {} ELSE {Min(p.styles)}
<1>3. styles \subseteq p.styles /\ (styles = {} => p.styles = {})
  BY <1>2
<1>4. Reduced(p) = [p EXCEPT !.styles = styles]
  BY DEF Reduced
<1> HIDE DEF styles
<1>5. Reduced(p).styles = styles
  BY <1>4 DEF PreferenceRows
<1>6. Reduced(p) \in PreferenceRows(BOOLEAN)
  BY <1>1, <1>3, <1>4 DEF PreferenceRows
<1> QED
  BY <1>3, <1>4, <1>5, <1>6

\* No row is one choice.
LEMMA NoPreferenceIsOneChoice == OneChoice(NoPreference) /\ NoPreference.exists = FALSE
<1>1. NoPreference \in PreferenceRows(BOOLEAN)
  BY DEF NoPreference, NoBudget, PreferenceRows
<1>2. NoPreference.exists = FALSE
  BY DEF NoPreference
<1> QED
  BY <1>1, <1>2 DEF OneChoice

\* A choice that is saved is one choice.
LEMMA SelectionIsOneChoice ==
    ASSUME NEW c \in Selections
    PROVE  OneChoice(c) /\ c \in PreferenceRows(BOOLEAN) /\ c # NoPreference
<1>1. c \in PreferenceRows({TRUE})
  BY SelectionsAssumption
<1>2. c \in PreferenceRows(BOOLEAN) /\ c.exists = TRUE
  BY <1>1 DEF PreferenceRows
<1>3. [c EXCEPT !.styles = c.styles, !.exists = c.exists] = c
  BY <1>2 DEF PreferenceRows
<1> QED
  BY <1>2, <1>3, NoPreferenceIsOneChoice DEF OneChoice

\* The migrations leave one choice.
LEMMA CarriedIsOneChoice ==
    ASSUME NEW p, OneChoice(p), NEW from, NEW to
    PROVE  OneChoice(Carried(p, from, to))
<1>1. p \in PreferenceRows(BOOLEAN)
  BY DEF OneChoice
<1>2. OneChoice(Reduced(p))
  <2> DEFINE q == Reduced(p)
  <2>1. /\ q \in PreferenceRows(BOOLEAN) /\ q = [p EXCEPT !.styles = q.styles]
        /\ q.styles \subseteq p.styles /\ (q.styles = {} => p.styles = {})
    BY <1>1, ReducedIsPart
  <2> HIDE DEF q
  <2>2. q.exists = p.exists
    BY <1>1, <2>1 DEF PreferenceRows
  <2>3. CASE ~p.exists
    <3>1. p = NoPreference /\ q.styles = {}
      BY <2>1, <2>3 DEF OneChoice, NoPreference
    <3>2. q = p
      BY <1>1, <2>1, <3>1 DEF PreferenceRows, NoPreference
    <3> QED
      BY <3>2 DEF q
  <2>4. CASE p.exists
    <3>1. PICK c \in Selections \union {NoPreference} :
            /\ [p EXCEPT !.styles = c.styles, !.exists = c.exists] = c
            /\ p.styles \subseteq c.styles /\ (p.styles = {} => c.styles = {})
      BY <2>4 DEF OneChoice
    <3>2. [q EXCEPT !.styles = c.styles, !.exists = c.exists]
            = [p EXCEPT !.styles = c.styles, !.exists = c.exists]
      BY <1>1, <2>1 DEF PreferenceRows
    <3>3. q.styles \subseteq c.styles /\ (q.styles = {} => c.styles = {})
      BY <2>1, <3>1
    <3>4. OneChoice(q)
      BY <2>1, <2>2, <2>4, <3>1, <3>2, <3>3 DEF OneChoice
    <3> QED
      BY <3>4 DEF q
  <2> QED
    BY <2>3, <2>4, <1>1 DEF PreferenceRows
<1> QED
  BY <1>2, NoPreferenceIsOneChoice DEF Carried

\* Skipping makes a row of what there is.
LEMMA SkippedIsOneChoice ==
    ASSUME NEW p, OneChoice(p)
    PROVE  OneChoice(Skipped(p))
<1> DEFINE q == Skipped(p)
<1>1. p \in PreferenceRows(BOOLEAN)
  BY DEF OneChoice
<1>2. q \in PreferenceRows(BOOLEAN) /\ q.exists = TRUE /\ q.styles = p.styles
  BY <1>1 DEF Skipped, PreferenceRows
<1>3. \A c : [q EXCEPT !.styles = c.styles, !.exists = c.exists]
               = [p EXCEPT !.styles = c.styles, !.exists = c.exists]
  BY <1>1 DEF Skipped, PreferenceRows
<1>4. \E c \in Selections \union {NoPreference} :
         /\ [p EXCEPT !.styles = c.styles, !.exists = c.exists] = c
         /\ p.styles \subseteq c.styles /\ (p.styles = {} => c.styles = {})
  <2>1. CASE ~p.exists
    <3>1. p = NoPreference
      BY <2>1 DEF OneChoice
    <3>2. [p EXCEPT !.styles = p.styles, !.exists = p.exists] = p
      BY <1>1 DEF PreferenceRows
    <3> QED
      BY <3>1, <3>2
  <2>2. CASE p.exists
    BY <2>2 DEF OneChoice
  <2> QED
    BY <2>1, <2>2, <1>1 DEF PreferenceRows
<1> HIDE DEF q
<1>5. OneChoice(q)
  BY <1>2, <1>3, <1>4 DEF OneChoice
<1> QED
  BY <1>5 DEF q

\* The tags that replace what was deleted are those of the choice alone.
LEMMA ChosenIsChoice ==
    ASSUME NEW p \in PreferenceRows(BOOLEAN), NEW c \in Selections
    PROVE  Chosen(p, c, p) = c
<1>1. c \in PreferenceRows(BOOLEAN)
  BY SelectionIsOneChoice
<1> QED
  BY <1>1 DEF Chosen, PreferenceRows

\* The rows of d may be committed by an import of what is in the bucket.
Attachable(d, e, r) ==
    /\ DOMAIN e = DOMAIN Empty
    /\ e.revision = d.revision /\ e.schema = d.schema /\ e.preference = d.preference
    /\ e.failed \/ (Sound(e, r) /\ Uploaded(e))

\* A photo keeps sound rows sound, or fails the import.
LEMMA AttachedSound ==
    ASSUME NEW d, NEW r \in Nat, Expansion <= r, Sound(d, r), Uploaded(d), NEW photo,
           Key(photo) \in bucket
    PROVE  LET e == Attached(d, photo) IN Attachable(d, e, r)
<1> DEFINE id == AssetFor(d, photo)
           key == Key(photo)
           new == [id |-> id, key |-> key, url |-> BucketUrl(photo)]
           link == [owner |-> photo.owner, asset |-> id, slot |-> photo.slot]
           e == [d EXCEPT !.assets = {a \in d.assets : a.id # id} \union {new},
                          !.links = {l \in d.links : l.owner # photo.owner \/ l.slot # photo.slot}
                                       \union {link}]
           fails == \/ d.failed
                    \/ photo.owner \notin d.destinations \union d.places
                    \/ \E l \in d.links : l.owner = photo.owner /\ l.asset = id /\ l.slot # photo.slot
<1> USE RevisionOrder DEF Numbers
<1>1. /\ DOMAIN d = DOMAIN Empty /\ ~d.failed /\ d.destinations = DestinationsAt(r)
      /\ d.places = PlacesAt(r) /\ ImagesSound(d, r) /\ AssetsSound(d, r) /\ LinksSound(d, r)
  BY DEF Sound
<1>2. Attached(d, photo) = IF fails THEN [d EXCEPT !.failed = TRUE] ELSE e
  BY Zenon DEF Attached
<1>3. CASE fails
  <2> DEFINE f == [d EXCEPT !.failed = TRUE]
  <2>1. /\ DOMAIN f = DOMAIN Empty /\ f.failed /\ f.revision = d.revision /\ f.schema = d.schema
        /\ f.preference = d.preference
    BY <1>1, Fields
  <2>2. Attached(d, photo) = f
    BY <1>2, <1>3
  <2> HIDE DEF f, e, fails
  <2> QED
    BY <2>1, <2>2 DEF Attachable
<1>4. CASE ~fails
  <2>1. photo.owner \in d.destinations \union d.places
    BY <1>4
  <2>2. Attached(d, photo) = e
    BY <1>2, <1>4
  <2> HIDE DEF fails
  <2>3. key # NoKey /\ key[1] = photo.owner /\ BucketUrl(photo) # NoImage
    BY KeysAndUrls
  <2>4. key \in ManifestKeys => r >= Import
    <3>1. key \in ManifestKeys => photo.owner \in Imported \union NewPlaces
      BY <2>3, ManifestOwners
    <3>2. r < Import => photo.owner \in Seeded \union OldPlaces
      BY <1>1, <2>1 DEF DestinationsAt, PlacesAt
    <3> QED
      BY <3>1, <3>2, OwnersDisjoint
  <2>5. \/ \E a \in d.assets : a.key = key /\ a.id = id
        \/ key \notin ManifestKeys /\ id = <<"import", key>>
    <3>1. CASE \E a \in d.assets : a.key = key
      <4>1. (CHOOSE a \in d.assets : a.key = key) \in d.assets
            /\ (CHOOSE a \in d.assets : a.key = key).key = key
        BY <3>1
      <4>2. id = (CHOOSE a \in d.assets : a.key = key).id
        BY <3>1 DEF AssetFor
      <4> QED
        BY <4>1, <4>2
    <3>2. CASE ~ \E a \in d.assets : a.key = key
      <4>1. id = <<"import", key>>
        BY <3>2 DEF AssetFor
      <4>2. key \notin ManifestKeys
        BY <3>2, <2>4, <1>1 DEF AssetsSound
      <4> QED
        BY <4>1, <4>2
    <3> QED
      BY <3>1, <3>2
  <2> HIDE DEF id
  <2>6. AssetSound(new, r)
    <3>1. CASE \E a \in d.assets : a.key = key /\ a.id = id
      <4>1. PICK a \in d.assets : a.key = key /\ a.id = id
        BY <3>1
      <4>2. AssetSound(a, r)
        BY <1>1 DEF AssetsSound
      <4>3. new.key = a.key /\ new.id = a.id
        BY <4>1
      <4> HIDE DEF new
      <4> QED
        BY <4>2, <4>3 DEF AssetSound
    <3>2. CASE key \notin ManifestKeys /\ id = <<"import", key>>
      <4>1. new.key = key /\ new.id = id
        OBVIOUS
      <4> HIDE DEF new, key
      <4> QED
        BY <3>2, <4>1, <2>3 DEF AssetSound
    <3> QED
      BY <3>1, <3>2, <2>5
  <2>7. \A k : id = <<"manifest", k>> /\ k \in ManifestKeys => k = key
    <3>1. AssetSound(new, r) /\ new.id = id /\ new.key = key
      BY <2>6
    <3>2. \A x, k : <<"cover", x>> # <<"manifest", k>> /\ <<"import", x>> # <<"manifest", k>>
      BY "cover" # "manifest" /\ "import" # "manifest"
    <3>3. \A x, k : <<"manifest", x>> = <<"manifest", k>> => x = k
      OBVIOUS
    <3> HIDE DEF new, key
    <3> QED
      BY <3>1, <3>2, <3>3 DEF AssetSound, CoverAsset
  <2>8. /\ DOMAIN e = DOMAIN Empty /\ ~e.failed /\ e.revision = d.revision /\ e.schema = d.schema
        /\ e.preference = d.preference /\ e.destinations = d.destinations /\ e.places = d.places
        /\ e.image = d.image
        /\ e.assets = {a \in d.assets : a.id # id} \union {new}
        /\ e.links = {l \in d.links : l.owner # photo.owner \/ l.slot # photo.slot} \union {link}
    BY <1>1, Fields
  <2> HIDE DEF e
  <2>9. /\ new.id = id /\ new.key = key /\ new.url = BucketUrl(photo)
        /\ link.owner = photo.owner /\ link.asset = id /\ link.slot = photo.slot
    OBVIOUS
  <2> HIDE DEF new, link, key
  <2>10. AssetsSound(e, r)
    <3>1. \A a \in e.assets : a.url # NoImage /\ AssetSound(a, r)
      BY <1>1, <2>3, <2>6, <2>8, <2>9 DEF AssetsSound
    <3>2. \A a, b \in e.assets : a.id = b.id => a = b
      BY <1>1, <2>8, <2>9 DEF AssetsSound
    <3>3. ASSUME r >= Import, NEW k \in ManifestKeys PROVE \E a \in e.assets : a.key = k
      <4>1. PICK a \in d.assets : a.key = k
        BY <1>1, <3>3 DEF AssetsSound
      <4>2. CASE a.id # id
        BY <4>1, <4>2, <2>8
      <4>3. CASE a.id = id
        <5>1. a.id = <<"manifest", k>>
          <6>1. AssetSound(a, r) /\ k # NoKey
            BY <1>1, KeysAndUrls DEF AssetsSound
          <6> QED
            BY <4>1, <6>1 DEF AssetSound
        <5>2. k = key
          BY <4>3, <5>1, <2>7
        <5> QED
          BY <5>2, <2>8, <2>9
      <4> QED
        BY <4>2, <4>3
    <3> QED
      BY <3>1, <3>2, <3>3 DEF AssetsSound
  <2>11. LinksSound(e, r)
    <3>1. ASSUME NEW l \in e.links
          PROVE  l.owner \in e.destinations \union e.places /\ \E a \in e.assets : a.id = l.asset
      <4>1. CASE l = link
        BY <4>1, <2>1, <2>8, <2>9
      <4>2. CASE l \in d.links
        <5>1. PICK a \in d.assets : a.id = l.asset
          BY <4>2, <1>1 DEF LinksSound
        <5>2. \E b \in e.assets : b.id = a.id
          BY <2>8, <2>9
        <5>3. l.owner \in e.destinations \union e.places
          BY <4>2, <1>1, <2>8 DEF LinksSound
        <5> QED
          BY <5>1, <5>2, <5>3
      <4> QED
        BY <4>1, <4>2, <2>8
    <3>2. \A l, k \in e.links : l.owner = k.owner /\ l.slot = k.slot => l.asset = k.asset
      BY <1>1, <2>8, <2>9 DEF LinksSound
    <3>3. ASSUME NEW x \in e.destinations PROVE \E l \in e.links : l.owner = x /\ l.slot = 0
      <4>1. PICK l \in d.links : l.owner = x /\ l.slot = 0
        BY <1>1, <2>8 DEF LinksSound
      <4>2. CASE l.owner = photo.owner /\ l.slot = photo.slot
        BY <4>1, <4>2, <2>8, <2>9
      <4>3. CASE ~ (l.owner = photo.owner /\ l.slot = photo.slot)
        BY <4>1, <4>3, <2>8
      <4> QED
        BY <4>2, <4>3
    <3>4. ASSUME NEW l \in e.links, NEW k \in ManifestKeys, l.asset = <<"manifest", k>>
          PROVE  l.owner = k[1]
      <4>1. CASE l = link
        BY <3>4, <4>1, <2>3, <2>7, <2>9
      <4>2. CASE l \in d.links
        BY <3>4, <4>2, <1>1 DEF LinksSound
      <4> QED
        BY <4>1, <4>2, <2>8
    <3> QED
      BY <3>1, <3>2, <3>3, <3>4 DEF LinksSound
  <2>12. ImagesSound(e, r)
    BY <1>1, <2>8 DEF ImagesSound
  <2>13. Sound(e, r)
    BY <1>1, <2>8, <2>10, <2>11, <2>12 DEF Sound
  <2>14. Uploaded(e)
    BY <2>8, <2>9 DEF Uploaded, key
  <2> QED
    BY <2>2, <2>8, <2>13, <2>14 DEF Attachable
<1> QED
  BY <1>3, <1>4

\* The rows after the i-th photo, from those before it.
AttachedUpTo(f, d, folder, matched, i) ==
    IF i = 0 THEN d ELSE IF i \in matched THEN Attached(f[i - 1], folder[i]) ELSE f[i - 1]

Attaches(f, d, folder, matched, n) ==
    f = [i \in 0 .. n |-> AttachedUpTo(f, d, folder, matched, i)]

\* There are such rows, whatever the number of photos.
LEMMA AttachesExist ==
    ASSUME NEW d, NEW folder, NEW matched
    PROVE  \A n \in Nat : \E f : Attaches(f, d, folder, matched, n)
<1> DEFINE Exists(n) == \E f : Attaches(f, d, folder, matched, n)
           Lacking == {n \in Nat : ~ Exists(n)}
<1>1. Exists(0)
  <2> DEFINE f == [i \in 0 .. 0 |-> d]
  <2>1. Attaches(f, d, folder, matched, 0)
    BY DEF Attaches, AttachedUpTo
  <2> QED
    BY <2>1
<1>2. ASSUME NEW n \in Nat, Exists(n) PROVE Exists(n + 1)
  <2>1. PICK f : f = [i \in 0 .. n |-> AttachedUpTo(f, d, folder, matched, i)]
    BY <1>2 DEF Attaches
  <2> DEFINE g == [i \in 0 .. n + 1 |-> IF i <= n THEN f[i]
                                        ELSE AttachedUpTo(f, d, folder, matched, i)]
  <2>2. \A i \in 0 .. n : g[i] = f[i] /\ f[i] = AttachedUpTo(f, d, folder, matched, i)
    BY <2>1
  <2>3. ASSUME NEW i \in 0 .. n + 1 PROVE g[i] = AttachedUpTo(g, d, folder, matched, i)
    <3>1. i # 0 => i - 1 \in 0 .. n
      OBVIOUS
    <3>2. i # 0 => g[i - 1] = f[i - 1]
      <4> HIDE DEF g
      <4> QED
        BY <2>2, <3>1
    <3>3. AttachedUpTo(g, d, folder, matched, i) = AttachedUpTo(f, d, folder, matched, i)
      <4> HIDE DEF g
      <4> QED
        BY <3>2 DEF AttachedUpTo
    <3>4. i <= n => g[i] = AttachedUpTo(f, d, folder, matched, i)
      <4>1. i <= n => i \in 0 .. n
        OBVIOUS
      <4> HIDE DEF g
      <4> QED
        BY <2>2, <4>1
    <3>5. ~ (i <= n) => g[i] = AttachedUpTo(f, d, folder, matched, i)
      OBVIOUS
    <3> QED
      BY <3>3, <3>4, <3>5
  <2>4. g = [i \in 0 .. n + 1 |-> g[i]]
    OBVIOUS
  <2>5. Attaches(g, d, folder, matched, n + 1)
    <3> HIDE DEF g
    <3> QED
      BY <2>3, <2>4 DEF Attaches
  <2> QED
    BY <2>5
<1>3. Lacking = {}
  <2>1. SUFFICES ASSUME Lacking # {} PROVE FALSE
    OBVIOUS
  <2>2. PICK n \in Lacking : \A k \in Lacking : n <= k
    <3>1. Lacking \subseteq Nat
      OBVIOUS
    <3> HIDE DEF Lacking
    <3> QED
      BY <2>1, <3>1, SmallestNumber
  <2>3. n \in Nat /\ ~ Exists(n)
    BY <2>2
  <2> HIDE DEF Exists
  <2>4. n # 0
    BY <1>1, <2>3
  <2>5. n - 1 \in Nat /\ n - 1 \notin Lacking
    BY <2>2, <2>3, <2>4
  <2>6. Exists(n - 1)
    BY <2>5
  <2>7. Exists((n - 1) + 1)
    BY <1>2, <2>5, <2>6
  <2> QED
    BY <2>3, <2>7
<1> QED
  BY <1>3

\* AttachedAll goes through them.
LEMMA AttachedInOrder ==
    ASSUME NEW d, NEW folder, Len(folder) \in Nat, NEW matched
    PROVE  \E f : /\ \A i \in 0 .. Len(folder) : f[i] = AttachedUpTo(f, d, folder, matched, i)
                  /\ AttachedAll(d, folder, matched) = f[Len(folder)]
<1> DEFINE Next1(f) == [i \in 0 .. Len(folder) |->
                          IF i = 0 THEN d
                          ELSE IF i \in matched THEN Attached(f[i - 1], folder[i]) ELSE f[i - 1]]
           after == CHOOSE f : f = Next1(f)
<1>1. AttachedAll(d, folder, matched) = after[Len(folder)]
  BY Zenon DEF AttachedAll
<1>2. \E f : f = Next1(f)
  <2>1. PICK f : Attaches(f, d, folder, matched, Len(folder))
    BY AttachesExist
  <2>2. f = Next1(f)
    BY <2>1, Zenon DEF Attaches, AttachedUpTo
  <2> HIDE DEF Next1
  <2> QED
    BY <2>2
<1>3. after = Next1(after)
  BY <1>2, Zenon
<1> HIDE DEF after
<1>4. \A i \in 0 .. Len(folder) : after[i] = AttachedUpTo(after, d, folder, matched, i)
  BY <1>3 DEF AttachedUpTo
<1> QED
  BY <1>1, <1>4

\* An import keeps sound rows sound, or fails.
LEMMA AttachedAllSound ==
    ASSUME NEW d, NEW r \in Nat, Expansion <= r, Sound(d, r), Uploaded(d), NEW folder,
           Len(folder) \in Nat, NEW matched, \A i \in matched : Key(folder[i]) \in bucket
    PROVE  LET e == AttachedAll(d, folder, matched) IN Attachable(d, e, r)
<1>1. PICK f : /\ \A i \in 0 .. Len(folder) : f[i] = AttachedUpTo(f, d, folder, matched, i)
               /\ AttachedAll(d, folder, matched) = f[Len(folder)]
  BY AttachedInOrder
<1>2. Attachable(d, d, r)
  BY DEF Attachable, Sound
<1>3. ASSUME NEW i \in 1 .. Len(folder), Attachable(d, f[i - 1], r) PROVE Attachable(d, f[i], r)
  <2> DEFINE c == f[i - 1]
  <2>1. f[i] = IF i \in matched THEN Attached(c, folder[i]) ELSE c
    BY <1>1 DEF AttachedUpTo
  <2>2. Attachable(d, c, r)
    BY <1>3
  <2> HIDE DEF c
  <2>3. CASE i \notin matched
    BY <2>1, <2>2, <2>3
  <2>4. CASE i \in matched /\ c.failed
    <3>1. f[i] = [c EXCEPT !.failed = TRUE]
      BY <2>1, <2>4 DEF Attached
    <3> DEFINE e == [c EXCEPT !.failed = TRUE]
    <3>2. /\ DOMAIN e = DOMAIN c /\ e.failed /\ e.revision = c.revision /\ e.schema = c.schema
          /\ e.preference = c.preference
      BY <2>2, Fields DEF Attachable
    <3> HIDE DEF e
    <3> QED
      BY <2>2, <3>1, <3>2 DEF Attachable, e
  <2>5. CASE i \in matched /\ ~c.failed
    <3>1. Sound(c, r) /\ Uploaded(c) /\ Key(folder[i]) \in bucket
      BY <2>2, <2>5 DEF Attachable
    <3> DEFINE e == Attached(c, folder[i])
    <3>2. Attachable(c, e, r)
      BY <3>1, AttachedSound
    <3> HIDE DEF e
    <3>3. f[i] = e
      BY <2>1, <2>5 DEF e
    <3> QED
      BY <2>2, <3>2, <3>3 DEF Attachable
  <2> QED
    BY <2>3, <2>4, <2>5
<1> DEFINE Wrong == {i \in 0 .. Len(folder) : ~ Attachable(d, f[i], r)}
<1>4. Wrong = {}
  <2>1. SUFFICES ASSUME Wrong # {} PROVE FALSE
    OBVIOUS
  <2>2. PICK i \in Wrong : \A k \in Wrong : i <= k
    <3>1. Wrong \subseteq Nat
      OBVIOUS
    <3> HIDE DEF Wrong
    <3> QED
      BY <2>1, <3>1, SmallestNumber
  <2>3. i \in 0 .. Len(folder) /\ ~ Attachable(d, f[i], r)
    BY <2>2
  <2>4. i # 0
    <3>1. f[0] = d
      BY <1>1 DEF AttachedUpTo
    <3> QED
      BY <1>2, <2>3, <3>1
  <2>5. i - 1 \in 0 .. Len(folder) /\ i - 1 \notin Wrong /\ i \in 1 .. Len(folder)
    BY <2>2, <2>3, <2>4
  <2>6. Attachable(d, f[i - 1], r)
    BY <2>5
  <2> QED
    BY <1>3, <2>3, <2>5, <2>6
<1>5. Attachable(d, f[Len(folder)], r)
  BY <1>4
<1> QED
  BY <1>1, <1>5

\* The rows of a new database, and no rows at all, are sound.
LEMMA EmptySound == Sound(Empty, 0) /\ Empty.revision = 0 /\ Empty.schema = {}
<1> USE RevisionOrder DEF Numbers
<1>1. /\ Empty.revision = 0 /\ Empty.schema = {} /\ Empty.destinations = {} /\ Empty.places = {}
      /\ Empty.assets = {} /\ Empty.links = {} /\ ~Empty.failed
      /\ DOMAIN Empty.image = Seeded \union Imported
  BY DEF Empty
<1>2. ImagesSound(Empty, 0) /\ AssetsSound(Empty, 0) /\ LinksSound(Empty, 0)
  BY <1>1 DEF ImagesSound, AssetsSound, LinksSound
<1>3. Empty.destinations = DestinationsAt(0) /\ Empty.places = PlacesAt(0)
  BY <1>1 DEF DestinationsAt, PlacesAt
<1> QED
  BY <1>1, <1>2, <1>3 DEF Sound

\* Rows that differ in what their soundness does not depend on.
LEMMA SoundWith ==
    ASSUME NEW d, NEW e, NEW r, Sound(d, r), DOMAIN e = DOMAIN d, e.failed = d.failed,
           e.destinations = d.destinations, e.places = d.places, e.image = d.image,
           e.assets = d.assets, e.links = d.links
    PROVE  Sound(e, r)
BY DEF Sound, ImagesSound, AssetsSound, LinksSound

\* A deployed database, with or without preferences, is sound.
LEMMA CatalogueInvInit == CatalogueInit => CatalogueInv
<1> SUFFICES ASSUME CatalogueInit PROVE CatalogueInv
  OBVIOUS
<1> DEFINE d == Deployed
<1>1. 0 \in 0 .. Latest /\ Latest \in 0 .. Latest /\ SchemaAt(0) = {}
  BY SchemaAssumption, RevisionOrder DEF Numbers
<1>2. d.revision = Latest /\ d.schema = SchemaAt(Latest) /\ Sound(d, Latest) /\ Adds(Empty, d)
  BY <1>1, EmptySound, MigratedSound DEF Deployed
<1>3. PICK p \in Selections \union {NoPreference} : db = [d EXCEPT !.preference = p]
  BY DEF CatalogueInit
<1> HIDE DEF d
<1>4. /\ DOMAIN db = DOMAIN d /\ db.revision = d.revision /\ db.schema = d.schema
      /\ db.failed = d.failed /\ db.destinations = d.destinations /\ db.places = d.places
      /\ db.image = d.image /\ db.assets = d.assets /\ db.links = d.links /\ db.preference = p
  BY <1>2, <1>3, Fields DEF Sound
<1>5. RevisionSound /\ Sound(db, db.revision)
  BY <1>1, <1>2, <1>4, SoundWith DEF RevisionSound
<1>6. OneChoice(db.preference)
  BY <1>4, SelectionIsOneChoice, NoPreferenceIsOneChoice
<1>7. Uploaded(db)
  BY <1>2, <1>4 DEF Uploaded, Adds, Empty
<1>8. WritersSound
  <2>1. Idle \in [stage : {"idle", "upserted", "deleted"},
                  choice : Selections \union {NoPreference}, deleted : PreferenceRows(BOOLEAN)]
    BY NoPreferenceIsOneChoice DEF Idle, OneChoice
  <2>2. writer = [w \in Writers |-> Idle] /\ Idle.stage = "idle"
    BY DEF CatalogueInit, Idle
  <2> QED
    BY <2>1, <2>2 DEF WritersSound
<1>9. ImportSound
  BY DEF CatalogueInit, NoImport, ImportSound
<1> QED
  BY <1>5, <1>6, <1>7, <1>8, <1>9 DEF CatalogueInv

\* What the invariant says of the database alone.
RowsInv == RevisionSound /\ Sound(db, db.revision) /\ OneChoice(db.preference)

\* Actions that leave the database alone keep its rows sound.
LEMMA RowsUnchanged ==
    ASSUME RowsInv, UNCHANGED db
    PROVE  RowsInv'
BY DEF RowsInv, RevisionSound

\* Actions that leave the writers and the preferences alone.
LEMMA WritersUnchanged ==
    ASSUME WritersSound, UNCHANGED writer,
           db'.preference = db.preference \/ \A w \in Writers : writer[w].stage = "idle"
    PROVE  WritersSound'
BY DEF WritersSound

\* The upsert: nobody else has the row.
LEMMA UpsertSound ==
    ASSUME CatalogueInv, NEW w \in Writers, NEW choice \in Selections \union {NoPreference},
           Upsert(w, choice)
    PROVE  WritersSound'
<1> DEFINE State == [stage : {"idle", "upserted", "deleted"},
                     choice : Selections \union {NoPreference}, deleted : PreferenceRows(BOOLEAN)]
           new == [Idle EXCEPT !.stage = "upserted", !.choice = choice]
<1>1. writer \in [Writers -> State] /\ WritersSound
  BY DEF CatalogueInv, WritersSound
<1>2. writer' = [writer EXCEPT ![w] = new] /\ RowIsFree(w) /\ db' = db
  BY DEF Upsert
<1>3. new \in State /\ new.stage = "upserted"
  BY NoPreferenceIsOneChoice DEF Idle, OneChoice
<1> HIDE DEF new
<1>4. writer' \in [Writers -> State]
  BY <1>1, <1>2, <1>3
<1>5. /\ writer'[w].stage = "upserted"
      /\ \A v \in Writers : v # w => writer'[v] = writer[v] /\ writer[v].stage = "idle"
  BY <1>1, <1>2, <1>3 DEF RowIsFree
<1> QED
  BY <1>4, <1>5 DEF WritersSound

\* The deletes see the committed tags.
LEMMA DeleteTagsSound ==
    ASSUME CatalogueInv, NEW w \in Writers, DeleteTags(w)
    PROVE  WritersSound'
<1> DEFINE State == [stage : {"idle", "upserted", "deleted"},
                     choice : Selections \union {NoPreference}, deleted : PreferenceRows(BOOLEAN)]
<1>1. writer \in [Writers -> State] /\ WritersSound /\ db.preference \in PreferenceRows(BOOLEAN)
  BY DEF CatalogueInv, WritersSound, OneChoice
<1>2. /\ writer' = [writer EXCEPT ![w].stage = "deleted", ![w].deleted = db.preference]
      /\ writer[w].stage = "upserted" /\ db' = db
  BY DEF DeleteTags
<1> DEFINE new == [writer[w] EXCEPT !.stage = "deleted", !.deleted = db.preference]
<1>3. writer' = [writer EXCEPT ![w] = new] /\ new \in State /\ new.stage = "deleted"
      /\ new.deleted = db.preference
  BY <1>1, <1>2
<1> HIDE DEF new
<1>4. writer' \in [Writers -> State]
  BY <1>1, <1>3
<1>5. /\ writer'[w] = new
      /\ \A v \in Writers : v # w => writer'[v] = writer[v]
  BY <1>1, <1>3
<1> QED
  BY <1>1, <1>2, <1>3, <1>4, <1>5 DEF WritersSound

\* A transaction ends, and with it what it had of the row.
LEMMA WriterEnds ==
    ASSUME CatalogueInv, NEW w \in Writers, writer[w].stage # "idle",
           writer' = [writer EXCEPT ![w] = Idle]
    PROVE  WritersSound'
<1> DEFINE State == [stage : {"idle", "upserted", "deleted"},
                     choice : Selections \union {NoPreference}, deleted : PreferenceRows(BOOLEAN)]
<1>1. writer \in [Writers -> State] /\ WritersSound
  BY DEF CatalogueInv, WritersSound
<1>2. Idle \in State /\ Idle.stage = "idle"
  BY NoPreferenceIsOneChoice DEF Idle, OneChoice
<1>3. writer' \in [Writers -> State]
  BY <1>1, <1>2
<1>4. \A v \in Writers : writer'[v].stage = "idle"
  BY <1>1, <1>2 DEF WritersSound
<1> QED
  BY <1>3, <1>4 DEF WritersSound

\* What is committed is the choice as a whole.
LEMMA CommitChoiceSound ==
    ASSUME CatalogueInv, NEW w \in Writers, CommitChoice(w)
    PROVE  RowsInv' /\ WritersSound' /\ db'.assets = db.assets
<1> DEFINE p == db.preference
           choice == writer[w].choice
           q == IF choice = NoPreference THEN Skipped(p) ELSE Chosen(p, choice, writer[w].deleted)
<1>1. RevisionSound /\ Sound(db, db.revision) /\ OneChoice(p) /\ WritersSound
  BY DEF CatalogueInv
<1>2. db' = [db EXCEPT !.preference = q]
  BY DEF CommitChoice
<1>3. choice \in Selections \union {NoPreference}
  BY <1>1 DEF WritersSound
<1>4. OneChoice(q)
  <2>1. CASE choice = NoPreference
    BY <1>1, <2>1, SkippedIsOneChoice
  <2>2. CASE choice # NoPreference
    <3>1. writer[w].deleted = p
      BY <1>1, <2>2 DEF CommitChoice, WritersSound
    <3>2. choice \in Selections /\ p \in PreferenceRows(BOOLEAN)
      BY <1>1, <1>3, <2>2 DEF OneChoice
    <3>3. Chosen(p, choice, p) = choice
      BY <3>2, ChosenIsChoice
    <3> QED
      BY <2>2, <3>1, <3>2, <3>3, SelectionIsOneChoice
  <2> QED
    BY <2>1, <2>2
<1> HIDE DEF q
<1>5. /\ DOMAIN db' = DOMAIN db /\ db'.revision = db.revision /\ db'.schema = db.schema
      /\ db'.failed = db.failed /\ db'.destinations = db.destinations /\ db'.places = db.places
      /\ db'.image = db.image /\ db'.assets = db.assets /\ db'.links = db.links
      /\ db'.preference = q
  BY <1>1, <1>2, Fields DEF Sound
<1>6. Sound(db', db'.revision)
  BY <1>1, <1>5, SoundWith
<1>7. WritersSound'
  <2>1. writer[w].stage # "idle" /\ writer' = [writer EXCEPT ![w] = Idle]
    BY DEF CommitChoice
  <2> QED
    BY <2>1, WriterEnds
<1> QED
  BY <1>1, <1>4, <1>5, <1>6, <1>7 DEF RowsInv, RevisionSound

\* An editor's change does not touch what the invariant is about.
LEMMA ToggleSound ==
    ASSUME CatalogueInv, NEW x, Toggle(x)
    PROVE  RowsInv' /\ WritersSound' /\ db'.assets = db.assets
<1> DEFINE hidden == IF x \in db.hidden THEN db.hidden \ {x} ELSE db.hidden \union {x}
<1>1. RevisionSound /\ Sound(db, db.revision) /\ OneChoice(db.preference) /\ WritersSound
  BY DEF CatalogueInv
<1>2. db' = [db EXCEPT !.hidden = hidden] /\ UNCHANGED writer
  BY DEF Toggle
<1> HIDE DEF hidden
<1>3. /\ DOMAIN db' = DOMAIN db /\ db'.revision = db.revision /\ db'.schema = db.schema
      /\ db'.failed = db.failed /\ db'.destinations = db.destinations /\ db'.places = db.places
      /\ db'.image = db.image /\ db'.assets = db.assets /\ db'.links = db.links
      /\ db'.preference = db.preference
  BY <1>1, <1>2, Fields DEF Sound
<1>4. Sound(db', db'.revision)
  BY <1>1, <1>3, SoundWith
<1> QED
  BY <1>1, <1>2, <1>3, <1>4, WritersUnchanged DEF RowsInv, RevisionSound

\* A run of the migrations succeeds, and waits for whoever writes what it changes.
LEMMA MigrateSound ==
    ASSUME CatalogueInv, NEW to \in 0 .. Latest, Migrate(to)
    PROVE  RowsInv' /\ WritersSound' /\ Uploaded(db)'
<1> DEFINE from == db.revision
<1> USE RevisionOrder DEF Numbers
<1>1. RevisionSound /\ Sound(db, from) /\ OneChoice(db.preference) /\ WritersSound /\ Uploaded(db)
  BY DEF CatalogueInv
<1>2. db' = Migrated(db, to) /\ ~Waits(to) /\ to # from /\ UNCHANGED <<writer, bucket>>
  BY DEF Migrate
<1>3. /\ db'.revision = to /\ db'.schema = SchemaAt(to) /\ Sound(db', to) /\ Adds(db, db')
      /\ db'.preference = Carried(db.preference, from, to)
  BY <1>1, <1>2, MigratedSound DEF RevisionSound
<1>4. RowsInv'
  BY <1>1, <1>3, CarriedIsOneChoice DEF RowsInv, RevisionSound
<1>5. from \in Nat /\ to \in Nat
  BY <1>1, SchemaAssumption DEF RevisionSound
<1>6. WritersSound'
  <2>1. CASE \A w \in Writers : writer[w].stage = "idle"
    BY <1>1, <1>2, <2>1, WritersUnchanged
  <2>2. CASE \E w \in Writers : writer[w].stage # "idle"
    <3>1. (IF to > from THEN from + 1 .. to ELSE to + 1 .. from) \intersect {Preferences, Expansion} = {}
      BY <1>2, <2>2 DEF Waits
    <3>2. ~ (to < Preferences /\ Preferences <= from) /\ ~ (to < Expansion /\ Expansion <= from)
      BY <1>5, <3>1
    <3>3. db'.preference = db.preference
      BY <1>3, <3>2 DEF Carried
    <3> QED
      BY <1>1, <1>2, <3>3, WritersUnchanged
  <2> QED
    BY <2>1, <2>2
<1>7. Uploaded(db)'
  BY <1>1, <1>2, <1>3 DEF Uploaded, Adds
<1> QED
  BY <1>4, <1>6, <1>7

\* A folder has a number of photos.
LEMMA FolderLength ==
    ASSUME NEW folder \in Photos
    PROVE  Len(folder) \in Nat /\ DOMAIN folder \subseteq Nat
BY PhotosAssumption DEF Scanned

\* One transaction attaches what is in the bucket, or nothing.
LEMMA AttachSound ==
    ASSUME CatalogueInv, Attach
    PROVE  RowsInv' /\ WritersSound' /\ Uploaded(db)'
<1> DEFINE result == AttachedAll(db, import.folder, import.matched)
           r == db.revision
<1>1. /\ RevisionSound /\ Sound(db, r) /\ OneChoice(db.preference) /\ WritersSound /\ Uploaded(db)
      /\ ImportSound
  BY DEF CatalogueInv
<1>2. /\ db' = IF result.failed \/ ~Has("destination_media") THEN db ELSE result
      /\ UNCHANGED <<writer, bucket>> /\ import.stage = "attach"
  BY DEF Attach
<1> HIDE DEF result
<1>3. CASE result.failed \/ ~Has("destination_media")
  <2>1. db' = db
    BY <1>2, <1>3
  <2> QED
    BY <1>1, <1>2, <2>1, WritersUnchanged DEF RowsInv, RevisionSound, Uploaded
<1>4. CASE ~result.failed /\ Has("destination_media")
  <2>1. db' = result
    BY <1>2, <1>4
  <2>2. Expansion <= r /\ r \in Nat
    BY <1>1, <1>4, SchemaAssumption, RevisionOrder DEF Numbers, RevisionSound, Has
  <2>3. /\ Len(import.folder) \in Nat
        /\ \A i \in import.matched : Key(import.folder[i]) \in bucket
    BY <1>1, <1>2, FolderLength DEF ImportSound
  <2>4. Attachable(db, result, r)
    BY <1>1, <2>2, <2>3, AttachedAllSound DEF result
  <2>5. /\ Sound(db', db'.revision) /\ db'.revision = r /\ db'.schema = db.schema
        /\ db'.preference = db.preference /\ Uploaded(result)
    BY <1>4, <2>1, <2>4 DEF Attachable
  <2>6. RowsInv'
    BY <1>1, <2>5 DEF RowsInv, RevisionSound
  <2>7. WritersSound'
    BY <1>1, <1>2, <2>5, WritersUnchanged
  <2>8. Uploaded(db)'
    BY <1>2, <2>1, <2>5 DEF Uploaded
  <2> QED
    BY <2>6, <2>7, <2>8
<1> QED
  BY <1>3, <1>4

\* The steps of the script outside its transaction.
LEMMA ImportSteps ==
    ASSUME ImportSound, NEW folder \in Photos, PlanImport(folder) \/ Upload \/ StopImport
    PROVE  ImportSound' /\ bucket \subseteq bucket'
<1> DEFINE States == [stage : {"idle", "upload", "attach"}, folder : Photos \union {<<>>},
                      matched : SUBSET Nat]
<1>1. import \in States
  BY DEF ImportSound
<1>2. CASE PlanImport(folder)
  <2> DEFINE matched == {i \in DOMAIN folder : folder[i].owner \in db.destinations \union db.places}
  <2>1. import' = [stage |-> "upload", folder |-> folder, matched |-> matched] /\ bucket' = bucket
    BY <1>2 DEF PlanImport
  <2>2. matched \in SUBSET Nat
    BY FolderLength
  <2> HIDE DEF matched
  <2>3. import' \in States /\ import'.stage = "upload" /\ import'.folder \in Photos
    BY <2>1, <2>2
  <2> QED
    BY <2>1, <2>3 DEF ImportSound
<1>3. CASE Upload
  <2> DEFINE missing == {i \in import.matched : Key(import.folder[i]) \notin bucket}
  <2>1. import.stage = "upload" /\ import.folder \in Photos
    BY <1>3 DEF Upload, ImportSound
  <2>2. CASE missing = {}
    <3>1. import' = [import EXCEPT !.stage = "attach"] /\ bucket' = bucket
      BY <1>3, <2>2 DEF Upload
    <3>2. \A i \in import.matched : Key(import.folder[i]) \in bucket
      BY <2>2
    <3>3. /\ import' \in States /\ import'.stage = "attach" /\ import'.folder = import.folder
          /\ import'.matched = import.matched
      BY <1>1, <3>1
    <3> QED
      BY <2>1, <3>1, <3>2, <3>3 DEF ImportSound
  <2>3. CASE missing # {}
    <3>1. import' = import /\ bucket \subseteq bucket'
      BY <1>3, <2>3 DEF Upload
    <3> QED
      BY <1>1, <2>1, <3>1 DEF ImportSound
  <2> QED
    BY <2>2, <2>3
<1>4. CASE StopImport
  <2>1. import' = NoImport /\ bucket' = bucket
    BY <1>4 DEF StopImport
  <2> QED
    BY <2>1 DEF ImportSound, NoImport
<1> QED
  BY <1>2, <1>3, <1>4

\* Every step keeps the invariant.
LEMMA CatalogueInvNext == CatalogueInv /\ [CatalogueNext]_catalogueVars => CatalogueInv'
<1> SUFFICES ASSUME CatalogueInv, [CatalogueNext]_catalogueVars PROVE CatalogueInv'
  OBVIOUS
<1>1. RowsInv /\ WritersSound /\ ImportSound /\ Uploaded(db)
  BY DEF CatalogueInv, RowsInv
<1>2. SUFFICES RowsInv' /\ WritersSound' /\ ImportSound' /\ Uploaded(db)'
  BY DEF CatalogueInv, RowsInv
<1>3. CASE UNCHANGED <<db, writer, import, bucket>>
  BY <1>1, <1>3, RowsUnchanged, WritersUnchanged DEF ImportSound, Uploaded
<1>4. ASSUME NEW w \in Writers, NEW choice \in Selections \union {NoPreference}, Upsert(w, choice)
      PROVE  CatalogueInv'
  <2>1. UNCHANGED <<db, import, bucket>>
    BY <1>4 DEF Upsert
  <2>2. WritersSound'
    BY <1>4, UpsertSound
  <2> QED
    BY <1>1, <2>1, <2>2, RowsUnchanged DEF ImportSound, Uploaded, CatalogueInv, RowsInv
<1>5. ASSUME NEW w \in Writers, DeleteTags(w) PROVE CatalogueInv'
  <2>1. UNCHANGED <<db, import, bucket>>
    BY <1>5 DEF DeleteTags
  <2>2. WritersSound'
    BY <1>5, DeleteTagsSound
  <2> QED
    BY <1>1, <2>1, <2>2, RowsUnchanged DEF ImportSound, Uploaded, CatalogueInv, RowsInv
<1>6. ASSUME NEW w \in Writers, CommitChoice(w) PROVE CatalogueInv'
  <2>1. UNCHANGED <<import, bucket>>
    BY <1>6 DEF CommitChoice
  <2>2. RowsInv' /\ WritersSound' /\ db'.assets = db.assets
    BY <1>6, CommitChoiceSound
  <2> QED
    BY <1>1, <2>1, <2>2 DEF ImportSound, Uploaded, CatalogueInv, RowsInv
<1>7. ASSUME NEW w \in Writers, RollbackChoice(w) PROVE CatalogueInv'
  <2>1. UNCHANGED <<db, import, bucket>> /\ writer[w].stage # "idle"
        /\ writer' = [writer EXCEPT ![w] = Idle]
    BY <1>7 DEF RollbackChoice
  <2>2. WritersSound'
    BY <2>1, WriterEnds
  <2> QED
    BY <1>1, <2>1, <2>2, RowsUnchanged DEF ImportSound, Uploaded, CatalogueInv, RowsInv
<1>8. ASSUME NEW folder \in Photos, PlanImport(folder) \/ Upload \/ StopImport PROVE CatalogueInv'
  <2>1. UNCHANGED <<db, writer>>
    BY <1>8 DEF PlanImport, Upload, StopImport
  <2>2. ImportSound' /\ bucket \subseteq bucket'
    BY <1>1, <1>8, ImportSteps
  <2> QED
    BY <1>1, <2>1, <2>2, RowsUnchanged, WritersUnchanged DEF Uploaded, CatalogueInv, RowsInv
<1>9. CASE Attach
  <2>1. RowsInv' /\ WritersSound' /\ Uploaded(db)'
    BY <1>9, AttachSound
  <2>2. ImportSound'
    BY <1>9 DEF Attach, ImportSound, NoImport
  <2> QED
    BY <2>1, <2>2
<1>10. ASSUME NEW x, Toggle(x) PROVE CatalogueInv'
  <2>1. UNCHANGED <<import, bucket>>
    BY <1>10 DEF Toggle
  <2>2. RowsInv' /\ WritersSound' /\ db'.assets = db.assets
    BY <1>10, ToggleSound
  <2> QED
    BY <1>1, <2>1, <2>2 DEF ImportSound, Uploaded, CatalogueInv, RowsInv
<1>11. ASSUME NEW to \in 0 .. Latest, Migrate(to) PROVE CatalogueInv'
  <2>1. UNCHANGED <<import, bucket>>
    BY <1>11 DEF Migrate
  <2>2. RowsInv' /\ WritersSound' /\ Uploaded(db)'
    BY <1>11, MigrateSound
  <2> QED
    BY <1>1, <2>1, <2>2 DEF ImportSound, CatalogueInv, RowsInv
<1>12. CASE Step
  <2>1. ASSUME NEW list \in Lists, StartListing(list) PROVE UNCHANGED <<db, writer, import, bucket>>
    BY <2>1 DEF StartListing
  <2>2. CASE Ask
    BY <2>2, <1>3 DEF Ask
  <2>3. ASSUME NEW limit \in PageSizes, Page(limit) PROVE UNCHANGED <<db, writer, import, bucket>>
    BY <2>3 DEF Page
  <2>4. CASE Upload \/ StopImport
    <3>1. UNCHANGED <<db, writer>>
      BY <2>4 DEF Upload, StopImport
    <3>2. ImportSound' /\ bucket \subseteq bucket'
      <4>1. CASE \E folder : folder \in Photos
        BY <1>1, <2>4, <4>1, ImportSteps
      <4>2. CASE ~ \E folder : folder \in Photos
        BY <1>1, <2>4, <4>2 DEF ImportSound, Upload, StopImport, NoImport
      <4> QED
        BY <4>1, <4>2
    <3> QED
      BY <1>1, <3>1, <3>2, RowsUnchanged, WritersUnchanged DEF Uploaded
  <2> QED
    BY <1>2, <1>3, <1>4, <1>5, <1>6, <1>7, <1>8, <1>9, <1>10, <1>11, <1>12, <2>1, <2>2, <2>3, <2>4
       DEF Step, CatalogueInv, RowsInv
<1>13. CASE UNCHANGED catalogueVars
  BY <1>3, <1>13 DEF catalogueVars
<1> QED
  BY <1>12, <1>13 DEF CatalogueNext

\* The rows, the requests that save preferences and the run of the import script are
\* sound in every state, whatever statements of theirs interleave.
THEOREM CatalogueInvariance == CatalogueSpec => []CatalogueInv
BY CatalogueInvInit, CatalogueInvNext, PTL DEF CatalogueSpec

\* alembic upgrade and downgrade succeed from every state that writes, imports and earlier
\* runs can lead to, and leave the schema of the revision they reach.
THEOREM MigrationsSucceed == CatalogueSpec => []SchemaFollowsRevision
<1>1. CatalogueInv => SchemaFollowsRevision
  BY DEF CatalogueInv, RevisionSound, Sound, SchemaFollowsRevision
<1> QED
  BY <1>1, CatalogueInvariance, PTL

\* The committed preferences are one choice as a whole: the upsert of the row, which comes
\* first, lets no other request of the user delete or insert tags until it has committed.
THEOREM ChoicesAreWhole == CatalogueSpec => []PreferenceIsOneChoice
<1>1. CatalogueInv => PreferenceIsOneChoice
  BY DEF CatalogueInv, OneChoice, PreferenceIsOneChoice
<1> QED
  BY <1>1, CatalogueInvariance, PTL

\* Every destination keeps one cover through migrations in both directions and through
\* upserts of its slots, and what an import attached is in the bucket.
THEOREM CoversAreKept == CatalogueSpec => []CoverKept
<1>1. ASSUME CatalogueInv PROVE CoverKept
  <2> USE RevisionOrder DEF Numbers
  <2>1. Sound(db, db.revision) /\ Uploaded(db) /\ db.revision \in Nat
    BY <1>1, SchemaAssumption DEF CatalogueInv, RevisionSound
  <2>2. ASSUME NEW x \in db.destinations, db.revision < Expansion PROVE db.image[x] # NoImage
    BY <2>1, <2>2 DEF Sound, ImagesSound
  <2>3. ASSUME NEW x \in db.destinations, ~ (db.revision < Expansion)
        PROVE  Cardinality(Covers(db, x)) = 1 /\ \A a \in Covers(db, x) : a.url # NoImage
    <3>1. /\ Covers(db, x) # {} /\ (\A a \in Covers(db, x) : a.url # NoImage)
          /\ \A a, b \in Covers(db, x) : a = b
      BY <2>1, <2>3, CoverThere
    <3>2. PICK a : Covers(db, x) = {a}
      BY <3>1
    <3>3. Cardinality(Covers(db, x)) = 1
      BY <3>2, FS_Singleton
    <3> QED
      BY <3>1, <3>3
  <2> QED
    BY <2>1, <2>2, <2>3 DEF CoverKept, Uploaded
<1> QED
  BY <1>1, CatalogueInvariance, PTL

------------------------------------------------------------------------------
(* The pages of a list.  The invariant relates what a client has seen to the *)
(* rows that the database still has behind its cursor.                       *)

\* The list of the reader, whatever there is of it: the row of an entry, and whether
\* the list has it.
PageRow(list, p, x) ==
    IF list.kind = "places" THEN <<PlaceRank[x], 0, 0, x>>
    ELSE <<SqlRank(x, list.kind, p), Facts[x].editorial, Facts[x].slug, x>>
Listed(list, p, x) ==
    IF list.kind = "places" THEN x \in OldPlaces \union NewPlaces /\ Parent[x] = list.arg
    ELSE x \in Seeded \union Imported /\ InCollection(x, list.kind, Scope(list, p), p)
Candidates(list, d) == IF list.kind = "places" THEN d.places ELSE Cards(d)
PageRows(list, p, entries) ==
    {PageRow(list, p, x) : x \in {y \in entries : Listed(list, p, y)}}

AllEntries == Seeded \union Imported \union OldPlaces \union NewPlaces

ReaderShape ==
    /\ DOMAIN reader = DOMAIN NoReader
    /\ reader.stage \in {"idle", "ask", "page", "done"} /\ reader.list \in Lists
    /\ reader.snapshot \in PreferenceRows(BOOLEAN) /\ reader.seen \in Seq(AllEntries)

ReaderRow(x) == PageRow(reader.list, reader.snapshot, x)

\* What has been shown is of the list and in its order.
SeenSound ==
    /\ \A i \in 1 .. Len(reader.seen) : Listed(reader.list, reader.snapshot, reader.seen[i])
    /\ \A i, j \in 1 .. Len(reader.seen) :
          i < j => Follows(ReaderRow(reader.seen[j]), ReaderRow(reader.seen[i]))

\* The cursor is the last of it, under the context that it was ranked in.
CursorSound ==
    reader.stage \in {"ask", "page"} =>
       /\ IF reader.cursor = NoCursor THEN reader.seen = <<>>
          ELSE /\ reader.seen # <<>>
               /\ reader.cursor = KeyOf(ReaderRow(reader.seen[Len(reader.seen)]))
       /\ reader.cursor # NoCursor \/ reader.stage = "page" =>
             reader.context = Context(reader.list, reader.snapshot)

\* What has been there throughout has been shown or is still to come.
SteadySound ==
    /\ reader.stage = "done" => steady \subseteq Range(reader.seen)
    /\ reader.stage \in {"ask", "page"} =>
          IF reader.cursor = NoCursor THEN steady = {}
          ELSE \A x \in steady :
                  /\ x \in Candidates(reader.list, db) /\ Listed(reader.list, reader.snapshot, x)
                  /\ x \in Range(reader.seen) \/ Follows(ReaderRow(x), reader.cursor)

PagesSound == ReaderShape /\ SeenSound /\ CursorSound /\ SteadySound

------------------------------------------------------------------------------
(* Lists in the order of their keys.                                         *)

\* A row has three numbers for a key.
Keyed(row) == row[1] \in Int /\ row[2] \in Int /\ row[3] \in Int

\* What the comparison of keys says.
LEMMA FollowsMeans ==
    ASSUME NEW row, NEW key
    PROVE  Follows(row, key) <=> \/ row[1] > key[1]
                                 \/ row[1] = key[1] /\ row[2] > key[2]
                                 \/ row[1] = key[1] /\ row[2] = key[2] /\ row[3] > key[3]
<1>1. 1 .. 3 = {1, 2, 3} /\ 1 .. 1 - 1 = {} /\ 1 .. 2 - 1 = {1} /\ 1 .. 3 - 1 = {1, 2}
  OBVIOUS
<1> QED
  BY <1>1 DEF Follows

\* It is an order.
LEMMA FollowsIsOrder ==
    ASSUME NEW p, NEW q, NEW r, Keyed(p), Keyed(q), Keyed(r)
    PROVE  /\ Follows(p, q) /\ Follows(q, r) => Follows(p, r)
           /\ ~Follows(p, p) /\ (Follows(p, q) => ~Follows(q, p))
BY FollowsMeans DEF Keyed

\* Finitely many rows of which no two have the same key.
Linear(rows) ==
    /\ IsFiniteSet(rows) /\ \A p \in rows : Keyed(p)
    /\ \A p, q \in rows : p # q => Follows(p, q) \/ Follows(q, p)

Behind(rows, row) == {other \in rows : Follows(row, other)}

\* The rows before a row are fewer for the one that comes first.
LEMMA FewerBehind ==
    ASSUME NEW rows, Linear(rows), NEW p \in rows
    PROVE  /\ Cardinality(Behind(rows, p)) \in 0 .. Cardinality(rows) - 1
           /\ \A q \in rows : Follows(p, q) =>
                 Cardinality(Behind(rows, q)) < Cardinality(Behind(rows, p))
<1>1. IsFiniteSet(rows) /\ Cardinality(rows) \in Nat
  BY FS_CardinalityType DEF Linear
<1>2. ASSUME NEW S \in SUBSET rows
      PROVE  IsFiniteSet(S) /\ Cardinality(S) \in Nat
  BY <1>1, FS_Subset, FS_CardinalityType
<1>3. Behind(rows, p) \in SUBSET (rows \ {p})
  BY FollowsIsOrder DEF Behind, Linear
<1>4. Cardinality(rows \ {p}) = Cardinality(rows) - 1 /\ IsFiniteSet(rows \ {p})
  BY <1>1, FS_RemoveElement
<1>5. Cardinality(Behind(rows, p)) <= Cardinality(rows) - 1
  BY <1>3, <1>4, FS_Subset
<1>6. ASSUME NEW q \in rows, Follows(p, q)
      PROVE  Cardinality(Behind(rows, q)) < Cardinality(Behind(rows, p))
  <2>1. Behind(rows, q) \in SUBSET Behind(rows, p)
    BY <1>6, FollowsIsOrder DEF Behind, Linear
  <2>2. q \in Behind(rows, p) /\ q \notin Behind(rows, q)
    BY <1>6, FollowsIsOrder DEF Behind, Linear
  <2>3. IsFiniteSet(Behind(rows, p))
    BY <1>2 DEF Behind
  <2>4. /\ Cardinality(Behind(rows, q)) <= Cardinality(Behind(rows, p))
        /\ Cardinality(Behind(rows, p)) = Cardinality(Behind(rows, q))
              => Behind(rows, p) = Behind(rows, q)
    BY <2>1, <2>3, FS_Subset
  <2>5. Cardinality(Behind(rows, q)) \in Nat /\ Cardinality(Behind(rows, p)) \in Nat
    BY <1>2 DEF Behind
  <2> QED
    BY <2>2, <2>4, <2>5
<1>7. Cardinality(Behind(rows, p)) \in Nat
  BY <1>2 DEF Behind
<1> QED
  BY <1>1, <1>5, <1>6, <1>7

\* Ordered makes a list of as many.
LEMMA OrderedShape ==
    ASSUME NEW rows
    PROVE  /\ DOMAIN Ordered(rows) = 1 .. Cardinality(rows)
           /\ Ordered(rows) = [i \in DOMAIN Ordered(rows) |-> Ordered(rows)[i]]
<1> DEFINE first(i) == CHOOSE row \in rows : Cardinality(Behind(rows, row)) = i - 1
<1>1. Ordered(rows) = [i \in 1 .. Cardinality(rows) |-> first(i)]
  BY DEF Ordered, Behind
<1> HIDE DEF first
<1> QED
  BY <1>1

\* Ordered lists every row once, in their order.
LEMMA OrderedEnumerates ==
    ASSUME NEW rows, Linear(rows)
    PROVE  LET n == Cardinality(rows)
               list == Ordered(rows)
           IN /\ n \in Nat /\ list \in [1 .. n -> rows]
              /\ \A i, j \in 1 .. n : i < j => Follows(list[j], list[i])
              /\ \A p \in rows : \E i \in 1 .. n : list[i] = p
<1> DEFINE n == Cardinality(rows)
           list == Ordered(rows)
           place == [p \in rows |-> Cardinality(Behind(rows, p)) + 1]
<1>1. IsFiniteSet(rows) /\ n \in Nat
  BY FS_CardinalityType DEF Linear
<1>2. place \in [rows -> 1 .. n]
  BY <1>1, FewerBehind
<1>3. ASSUME NEW p \in rows, NEW q \in rows, Follows(p, q)
      PROVE  place[q] < place[p]
  <2>1. Cardinality(Behind(rows, q)) < Cardinality(Behind(rows, p))
    BY <1>3, FewerBehind
  <2>2. Cardinality(Behind(rows, q)) \in Int /\ Cardinality(Behind(rows, p)) \in Int
    BY <1>1, FewerBehind
  <2> QED
    BY <2>1, <2>2
<1>4. ASSUME NEW p \in rows, NEW q \in rows, p # q
      PROVE  place[p] # place[q]
  BY <1>2, <1>3, <1>4 DEF Linear
<1>5. place \in Injection(rows, 1 .. n)
  BY <1>2, <1>4 DEF Injection, IsInjective
<1>6. IsFiniteSet(1 .. n) /\ Cardinality(1 .. n) = n
  BY <1>1, FS_Interval
<1>7. place \in Surjection(rows, 1 .. n)
  BY <1>5, <1>6, FS_Injection
<1>8. \A i \in 1 .. n : \E p \in rows : place[p] = i
  BY <1>7 DEF Surjection
<1>9. ASSUME NEW i \in 1 .. n
      PROVE  list[i] \in rows /\ place[list[i]] = i
  <2>1. PICK p \in rows : place[p] = i
    BY <1>8
  <2>2. Cardinality(Behind(rows, p)) = i - 1
    BY <2>1, <1>1, FewerBehind
  <2>3. list[i] = CHOOSE row \in rows : Cardinality(Behind(rows, row)) = i - 1
    BY DEF Ordered, Behind
  <2>4. list[i] \in rows /\ Cardinality(Behind(rows, list[i])) = i - 1
    BY <2>2, <2>3
  <2> QED
    BY <2>4
<1>10. list \in [1 .. n -> rows]
  <2>1. list = [i \in 1 .. n |->
                CHOOSE row \in rows : Cardinality({other \in rows : Follows(row, other)}) = i - 1]
    BY Zenon DEF Ordered
  <2>2. DOMAIN list = 1 .. n /\ list = [i \in DOMAIN list |-> list[i]]
    BY <2>1, Zenon
  <2> QED
    BY <2>2, <1>9
<1> HIDE DEF place, list, n
<1>11. ASSUME NEW i \in 1 .. n, NEW j \in 1 .. n, i < j
       PROVE  Follows(list[j], list[i])
  BY <1>9, <1>3, <1>11, <1>1 DEF Linear
<1>12. ASSUME NEW p \in rows
       PROVE  \E i \in 1 .. n : list[i] = p
  BY <1>2, <1>4, <1>9
<1> QED
  BY <1>1, <1>10, <1>11, <1>12 DEF list, n

\* What is in order already stays as it is.
LEMMA OrderedIsItself ==
    ASSUME NEW n \in Nat, NEW rows, NEW list \in [1 .. n -> rows],
           \A i \in 1 .. n : Keyed(list[i]),
           \A p \in rows : \E i \in 1 .. n : list[i] = p,
           \A i, j \in 1 .. n : i < j => Follows(list[j], list[i])
    PROVE  Ordered(rows) = list
<1>1. ASSUME NEW i \in 1 .. n, NEW j \in 1 .. n, list[i] = list[j]
      PROVE  i = j
  BY <1>1, FollowsIsOrder
<1>2. ASSUME NEW m \in 0 .. n, NEW part, part \subseteq rows,
             \A i \in 1 .. n : list[i] \in part <=> i <= m
      PROVE  IsFiniteSet(part) /\ Cardinality(part) = m
  <2> DEFINE f == [i \in 1 .. m |-> list[i]]
  <2>1. f \in [1 .. m -> part]
    BY <1>2
  <2>2. f \in Injection(1 .. m, part)
    BY <2>1, <1>1 DEF Injection, IsInjective
  <2>3. \A p \in part : \E i \in 1 .. m : f[i] = p
    BY <1>2
  <2>4. f \in Bijection(1 .. m, part)
    BY <2>2, <2>1, <2>3 DEF Bijection, Surjection
  <2>5. IsFiniteSet(1 .. m) /\ Cardinality(1 .. m) = m
    BY FS_Interval
  <2>6. ExistsBijection(1 .. m, part)
    BY <2>4 DEF ExistsBijection
  <2> QED
    BY <2>5, <2>6, FS_Bijection
<1>3. Cardinality(rows) = n
  BY <1>2
<1>4. ASSUME NEW j \in 1 .. n
      PROVE  Cardinality(Behind(rows, list[j])) = j - 1
  <2>1. ASSUME NEW i \in 1 .. n
        PROVE  list[i] \in Behind(rows, list[j]) <=> i <= j - 1
    <3>1. CASE i < j
      BY <3>1 DEF Behind
    <3>2. CASE i = j
      BY <3>2, FollowsIsOrder DEF Behind
    <3>3. CASE j < i
      BY <3>3, FollowsIsOrder DEF Behind
    <3> QED
      BY <3>1, <3>2, <3>3
  <2>2. j - 1 \in 0 .. n /\ Behind(rows, list[j]) \subseteq rows
    BY DEF Behind
  <2> QED
    BY <2>1, <2>2, <1>2
<1>5. ASSUME NEW i \in 1 .. n
      PROVE  Ordered(rows)[i] = list[i]
  <2>1. Ordered(rows)[i] = CHOOSE row \in rows : Cardinality(Behind(rows, row)) = i - 1
    BY <1>3 DEF Ordered, Behind
  <2>2. \A row \in rows : Cardinality(Behind(rows, row)) = i - 1 => row = list[i]
    BY <1>4
  <2>3. list[i] \in rows /\ Cardinality(Behind(rows, list[i])) = i - 1
    BY <1>4
  <2> QED
    BY <2>1, <2>2, <2>3
<1>6. /\ DOMAIN Ordered(rows) = 1 .. Cardinality(rows)
      /\ Ordered(rows) = [i \in DOMAIN Ordered(rows) |-> Ordered(rows)[i]]
  BY OrderedShape
<1>7. list = [i \in 1 .. n |-> list[i]]
  OBVIOUS
<1> QED
  BY <1>3, <1>5, <1>6, <1>7


\* The points of a budget, in the domain and in SQL.
LEMMA SamePoints ==
    ASSUME NEW selected \in 0 .. 3, NEW tier \in 0 .. 3
    PROVE  BudgetCase(selected)[tier] = BudgetPoints(Abs(selected - tier))
           /\ BudgetCase(selected)[tier] \in Nat
<1>1. selected \in {0, 1, 2, 3} /\ tier \in {0, 1, 2, 3}
  OBVIOUS
<1> QED
  BY <1>1 DEF BudgetCase, BudgetPoints, Abs

\* The two scores are one number.
LEMMA SameScore ==
    ASSUME NEW x \in Seeded \union Imported, NEW p \in PreferenceRows(BOOLEAN)
    PROVE  SqlScore(x, p) = PreferenceScore(x, p) /\ SqlScore(x, p) \in Nat
<1>1. /\ {s \in Facts[x].styles : s \in p.styles} = p.styles \intersect Facts[x].styles
      /\ {i \in Facts[x].interests : i \in p.interests} = p.interests \intersect Facts[x].interests
  OBVIOUS
<1>2. /\ Cardinality(p.styles \intersect Facts[x].styles) \in Nat
      /\ Cardinality(p.interests \intersect Facts[x].interests) \in Nat
  BY FactsAssumption, FS_Intersection, FS_CardinalityType
<1>3. p.budget # NoBudget =>
         /\ BudgetCase(p.budget)[Facts[x].budget] = BudgetPoints(Abs(p.budget - Facts[x].budget))
         /\ BudgetCase(p.budget)[Facts[x].budget] \in Nat
  <2>1. p.budget \in 0 .. 4 /\ Facts[x].budget \in 0 .. 3
    BY FactsAssumption DEF PreferenceRows, NoBudget
  <2> QED
    BY <2>1, SamePoints DEF NoBudget
<1>4. SqlScore(x, p) = PreferenceScore(x, p)
  BY <1>1, <1>3 DEF SqlScore, PreferenceScore
<1>5. SqlScore(x, p) \in Nat
  <2> DEFINE a == Cardinality(p.styles \intersect Facts[x].styles)
             b == Cardinality(p.interests \intersect Facts[x].interests)
             c == IF p.budget = NoBudget THEN 0 ELSE BudgetCase(p.budget)[Facts[x].budget]
  <2>1. a \in Nat /\ b \in Nat /\ c \in Nat
    BY <1>2, <1>3
  <2>2. SqlScore(x, p) = 30 * a + 12 * b + c
    BY <1>1 DEF SqlScore
  <2> HIDE DEF a, b, c
  <2> QED
    BY <2>1, <2>2
<1> QED
  BY <1>4, <1>5

\* The entry of a row, and that its key is a key and its own.
LEMMA RowsAreKeyed ==
    ASSUME NEW list \in Lists, NEW p \in PreferenceRows(BOOLEAN),
           NEW x, NEW y, Listed(list, p, x), Listed(list, p, y)
    PROVE  LET r == PageRow(list, p, x)
               q == PageRow(list, p, y)
           IN /\ Keyed(r) /\ Entry(r) = x
              /\ x # y => r # q /\ (Follows(r, q) \/ Follows(q, r))
<1> DEFINE r == PageRow(list, p, x)
           q == PageRow(list, p, y)
<1>1. CASE list.kind = "places"
  <2>1. /\ x \in OldPlaces \union NewPlaces /\ Parent[x] = list.arg
        /\ y \in OldPlaces \union NewPlaces /\ Parent[y] = list.arg
    BY <1>1 DEF Listed
  <2>2. r = <<PlaceRank[x], 0, 0, x>> /\ q = <<PlaceRank[y], 0, 0, y>>
    BY <1>1 DEF PageRow
  <2>3. PlaceRank[x] \in Nat /\ PlaceRank[y] \in Nat /\ (x # y => PlaceRank[x] # PlaceRank[y])
    BY <2>1, PlacesAssumption
  <2> HIDE DEF r, q
  <2>4. Keyed(r) /\ Entry(r) = x
    BY <2>2, <2>3 DEF Keyed, Entry
  <2>5. x # y => r[1] > q[1] \/ q[1] > r[1]
    BY <2>2, <2>3
  <2> QED
    BY <2>2, <2>3, <2>4, <2>5, FollowsMeans DEF r, q
<1>2. CASE list.kind # "places"
  <2>1. /\ x \in Seeded \union Imported /\ y \in Seeded \union Imported
    BY <1>2 DEF Listed
  <2>2. /\ r = <<SqlRank(x, list.kind, p), Facts[x].editorial, Facts[x].slug, x>>
        /\ q = <<SqlRank(y, list.kind, p), Facts[y].editorial, Facts[y].slug, y>>
    BY <1>2 DEF PageRow
  <2>3. list.kind \in {"suggested", "popular", "featured"}
    BY <1>2 DEF Lists
  <2>4. SqlRank(x, list.kind, p) \in Int /\ SqlRank(y, list.kind, p) \in Int
    BY <2>1, <2>3, SameScore, FactsAssumption DEF SqlRank
  <2>5. /\ Facts[x].editorial \in Int /\ Facts[x].slug \in Int
        /\ Facts[y].editorial \in Int /\ Facts[y].slug \in Int
        /\ x # y => Facts[x].slug # Facts[y].slug
    BY <2>1, FactsAssumption
  <2> HIDE DEF r, q
  <2>6. Keyed(r) /\ Entry(r) = x
    BY <2>2, <2>4, <2>5 DEF Keyed, Entry
  <2>7. x # y => r # q /\ (Follows(r, q) \/ Follows(q, r))
    <3> SUFFICES ASSUME x # y
                 PROVE  r # q /\ (Follows(r, q) \/ Follows(q, r))
      OBVIOUS
    <3>1. Keyed(q) /\ r[3] # q[3]
      BY <2>2, <2>4, <2>5 DEF Keyed
    <3> QED
      BY <3>1, <2>6, FollowsMeans DEF Keyed
  <2> QED
    BY <2>6, <2>7 DEF r, q
<1> QED
  BY <1>1, <1>2

\* The rows of a list can be put in order, and every entry of them has one.
LEMMA PageRowsLinear ==
    ASSUME NEW list \in Lists, NEW p \in PreferenceRows(BOOLEAN), NEW entries
    PROVE  /\ Linear(PageRows(list, p, entries))
           /\ \A row \in PageRows(list, p, entries) :
                 /\ Entry(row) \in entries /\ Listed(list, p, Entry(row))
                 /\ row = PageRow(list, p, Entry(row))
           /\ \A x \in entries : Listed(list, p, x) =>
                 PageRow(list, p, x) \in PageRows(list, p, entries) /\ Entry(PageRow(list, p, x)) = x
<1> DEFINE rows == PageRows(list, p, entries)
           chosen == {y \in entries : Listed(list, p, y)}
           f == [x \in chosen |-> PageRow(list, p, x)]
<1>1. rows = {PageRow(list, p, x) : x \in chosen}
  BY DEF PageRows
<1>2. \A x \in chosen : Keyed(PageRow(list, p, x)) /\ Entry(PageRow(list, p, x)) = x
  BY RowsAreKeyed
<1>3. IsFiniteSet(chosen)
  <2>1. chosen \subseteq (Seeded \union Imported) \/ chosen \subseteq (OldPlaces \union NewPlaces)
    BY DEF Listed
  <2> QED
    BY <2>1, FactsAssumption, PlacesAssumption, FS_Subset
<1>4. IsFiniteSet(rows)
  <2>1. f \in Surjection(chosen, rows)
    BY <1>1 DEF Surjection
  <2> QED
    BY <2>1, <1>3, FS_Surjection
<1>5. ASSUME NEW r \in rows, NEW q \in rows, r # q
      PROVE  Follows(r, q) \/ Follows(q, r)
  <2>1. PICK x \in chosen : r = PageRow(list, p, x)
    BY <1>1
  <2>2. PICK y \in chosen : q = PageRow(list, p, y)
    BY <1>1
  <2> QED
    BY <2>1, <2>2, <1>5, RowsAreKeyed
<1> QED
  BY <1>1, <1>2, <1>4, <1>5 DEF Linear

\* The list of the entries that Ordered makes of their rows.
LEMMA OrderedEntries ==
    ASSUME NEW list \in Lists, NEW p \in PreferenceRows(BOOLEAN), NEW entries
    PROVE  LET s == Entries(Ordered(PageRows(list, p, entries)))
               chosen == {x \in entries : Listed(list, p, x)}
           IN /\ s \in Seq(chosen) /\ Range(s) = chosen
              /\ Ordered(PageRows(list, p, entries)) \in Seq(PageRows(list, p, entries))
              /\ \A i, j \in 1 .. Len(s) :
                    i < j => Follows(PageRow(list, p, s[j]), PageRow(list, p, s[i]))
              /\ Len(s) = Len(Ordered(PageRows(list, p, entries)))
              /\ \A i \in 1 .. Len(s) : Ordered(PageRows(list, p, entries))[i] = PageRow(list, p, s[i])
<1> DEFINE rows == PageRows(list, p, entries)
           o == Ordered(rows)
           s == Entries(o)
           n == Cardinality(rows)
           chosen == {x \in entries : Listed(list, p, x)}
<1>1. /\ n \in Nat /\ o \in [1 .. n -> rows]
      /\ \A i, j \in 1 .. n : i < j => Follows(o[j], o[i])
      /\ \A r \in rows : \E i \in 1 .. n : o[i] = r
  BY PageRowsLinear, OrderedEnumerates
<1>2. /\ \A row \in rows : Entry(row) \in chosen /\ row = PageRow(list, p, Entry(row))
      /\ \A x \in chosen : PageRow(list, p, x) \in rows /\ Entry(PageRow(list, p, x)) = x
  BY PageRowsLinear
<1>3. s = [i \in 1 .. n |-> Entry(o[i])]
  BY <1>1 DEF Entries
<1> HIDE DEF rows, o, s, n, chosen
<1>4. s \in [1 .. n -> chosen]
  BY <1>1, <1>2, <1>3
<1>5. s \in Seq(chosen) /\ Len(s) = n /\ o \in Seq(rows) /\ Len(o) = n
  BY <1>1, <1>4, LenProperties
<1>6. \A i \in 1 .. n : o[i] = PageRow(list, p, s[i])
  BY <1>1, <1>2, <1>3
<1>7. \A x \in chosen : \E i \in 1 .. n : s[i] = x
  BY <1>1, <1>2, <1>3
<1>8. Range(s) = chosen
  BY <1>4, <1>7 DEF Range
<1> QED
  BY <1>1, <1>5, <1>6, <1>8 DEF rows, o, s, n, chosen

\* A sequence of listed entries in the order of the list is the list of them.
LEMMA SortedEntries ==
    ASSUME NEW list \in Lists, NEW p \in PreferenceRows(BOOLEAN), NEW S, NEW s \in Seq(S),
           \A i \in 1 .. Len(s) : Listed(list, p, s[i]),
           \A i, j \in 1 .. Len(s) :
              i < j => Follows(PageRow(list, p, s[j]), PageRow(list, p, s[i]))
    PROVE  Entries(Ordered(PageRows(list, p, Range(s)))) = s
<1> DEFINE n == Len(s)
           rows == PageRows(list, p, Range(s))
           o == [i \in 1 .. n |-> PageRow(list, p, s[i])]
<1>1. n \in Nat /\ s \in [1 .. n -> S] /\ Range(s) = {s[i] : i \in 1 .. n}
  BY LenProperties, RangeEquality
<1>2. o \in [1 .. n -> rows]
  BY <1>1 DEF PageRows
<1>3. \A i \in 1 .. n : Keyed(o[i]) /\ Entry(o[i]) = s[i]
  BY <1>1, RowsAreKeyed
<1>4. \A r \in rows : \E i \in 1 .. n : o[i] = r
  BY <1>1 DEF PageRows
<1>5. \A i, j \in 1 .. n : i < j => Follows(o[j], o[i])
  OBVIOUS
<1> HIDE DEF n, o, rows
<1>6. Ordered(rows) = o
  BY <1>1, <1>2, <1>3, <1>4, <1>5, OrderedIsItself
<1>7. DOMAIN o = 1 .. n /\ Entries(o) = [i \in 1 .. n |-> s[i]]
  BY <1>2, <1>3 DEF Entries
<1> QED
  BY <1>1, <1>6, <1>7 DEF n, rows


------------------------------------------------------------------------------
(* The lists of the reader, in SQL and in the domain.                        *)

\* A set of destinations and places as a database may have them.
Within(d) == d.destinations \subseteq Seeded \union Imported /\ d.places \subseteq OldPlaces \union NewPlaces

\* The list is of one of its kinds.
LEMMA ListKinds ==
    ASSUME NEW list \in Lists
    PROVE  /\ list.kind \in {"suggested", "popular", "featured", "places"}
           /\ list.kind = "suggested" => list.arg \in {"default", "local", "international", "both"}
           /\ list.kind \in {"popular", "featured"} => list.arg = "both"
BY DEF Lists

\* The scope that is filtered by is one of the three.
LEMMA ScopeKinds ==
    ASSUME NEW list \in Lists, NEW p \in PreferenceRows(BOOLEAN)
    PROVE  list.kind = "suggested" => Scope(list, p) \in {"both", "local", "international"}
BY ListKinds DEF Scope, PreferenceRows

\* The filters of the two rankings are the same.
LEMMA SameFilter ==
    ASSUME NEW x \in Seeded \union Imported, NEW p \in PreferenceRows(BOOLEAN),
           NEW scope \in {"both", "local", "international"}
    PROVE  InCollection(x, "suggested", scope, p)
              <=> Ready(p) /\ MatchesScope(x, scope, p.home) /\ -PreferenceScore(x, p) < 0
<1>1. InCollection(x, "suggested", scope, p) <=>
         /\ Ready(p)
         /\ scope # "both" => p.home # "none" /\ ((Facts[x].country = p.home) = (scope = "local"))
         /\ SqlScore(x, p) > 0
  BY DEF InCollection
<1>2. SqlScore(x, p) > 0 <=> -PreferenceScore(x, p) < 0
  BY SameScore
<1>3. (scope # "both" => p.home # "none" /\ ((Facts[x].country = p.home) = (scope = "local")))
         <=> MatchesScope(x, scope, p.home)
  BY DEF MatchesScope
<1> QED
  BY <1>1, <1>2, <1>3

\* An empty set of rows makes an empty list.
LEMMA EmptyList == Entries(Ordered({})) = <<>>
<1>1. DOMAIN Ordered({}) = 1 .. Cardinality({})
  BY DEF Ordered
<1>2. DOMAIN Ordered({}) = {}
  BY <1>1, FS_EmptySet
<1>3. Entries(Ordered({})) = [i \in {} |-> Entry(Ordered({})[i])]
  BY <1>2 DEF Entries
<1> QED
  BY <1>3

\* The reference is the list of the entries' rows.
LEMMA ReferenceLists ==
    ASSUME NEW list \in Lists, NEW p \in PreferenceRows(BOOLEAN), NEW entries,
           entries \subseteq (IF list.kind = "places"
                              THEN {x \in OldPlaces \union NewPlaces : Parent[x] = list.arg}
                              ELSE Seeded \union Imported)
    PROVE  Reference(list, p, entries) = Entries(Ordered(PageRows(list, p, entries)))
<1>1. CASE list.kind = "places"
  <2>1. \A x \in entries : Listed(list, p, x) /\ PageRow(list, p, x) = <<PlaceRank[x], 0, 0, x>>
    BY <1>1 DEF Listed, PageRow
  <2>2. PageRows(list, p, entries) = {<<PlaceRank[x], 0, 0, x>> : x \in entries}
    BY <2>1 DEF PageRows
  <2> QED
    BY <1>1, <2>2 DEF Reference
<1>2. CASE list.kind = "popular"
  <2>1. \A x \in entries : /\ Listed(list, p, x) <=> Facts[x].popular # NoRank
                           /\ PageRow(list, p, x) =
                                 <<Facts[x].popular, Facts[x].editorial, Facts[x].slug, x>>
    BY <1>2 DEF Listed, PageRow, InCollection, SqlRank
  <2>2. PageRows(list, p, entries) =
           {<<Facts[x].popular, Facts[x].editorial, Facts[x].slug, x>> :
               x \in {y \in entries : Facts[y].popular # NoRank}}
    BY <2>1 DEF PageRows
  <2> QED
    BY <1>2, <2>2 DEF Reference, RankPopular, RankBy
<1>3. CASE list.kind = "featured"
  <2>1. \A x \in entries : /\ Listed(list, p, x) <=> Facts[x].featured # NoRank
                           /\ PageRow(list, p, x) =
                                 <<Facts[x].featured, Facts[x].editorial, Facts[x].slug, x>>
    BY <1>3 DEF Listed, PageRow, InCollection, SqlRank
  <2>2. PageRows(list, p, entries) =
           {<<Facts[x].featured, Facts[x].editorial, Facts[x].slug, x>> :
               x \in {y \in entries : Facts[y].featured # NoRank}}
    BY <2>1 DEF PageRows
  <2> QED
    BY <1>3, <2>2 DEF Reference, RankFeatured, RankBy
<1>4. CASE list.kind = "suggested"
  <2> DEFINE scope == Scope(list, p)
             scored == {<<-PreferenceScore(x, p), Facts[x].editorial, Facts[x].slug, x>> :
                           x \in {y \in entries : MatchesScope(y, scope, p.home)}}
  <2>1. scope \in {"both", "local", "international"}
    BY <1>4, ScopeKinds
  <2> HIDE DEF scope
  <2>2. \A x \in entries :
           /\ Listed(list, p, x) <=>
                 Ready(p) /\ MatchesScope(x, scope, p.home) /\ -PreferenceScore(x, p) < 0
           /\ PageRow(list, p, x) =
                 <<-PreferenceScore(x, p), Facts[x].editorial, Facts[x].slug, x>>
    BY <1>4, <2>1, SameFilter, SameScore DEF Listed, PageRow, SqlRank, scope
  <2>3. CASE ~Ready(p)
    <3>1. PageRows(list, p, entries) = {}
      BY <2>2, <2>3 DEF PageRows
    <3> QED
      BY <1>4, <2>3, <3>1, EmptyList DEF Reference, RankSuggested
  <2>4. CASE Ready(p)
    <3>1. PageRows(list, p, entries) = {row \in scored : row[1] < 0}
      BY <2>2, <2>4 DEF PageRows
    <3> QED
      BY <1>4, <2>4, <3>1 DEF Reference, RankSuggested, scope
  <2> QED
    BY <2>3, <2>4
<1> QED
  BY <1>1, <1>2, <1>3, <1>4, ListKinds

\* The rows of the database are those of what it has of the list.
LEMMA RowsOfLists ==
    ASSUME NEW list \in Lists, NEW p \in PreferenceRows(BOOLEAN), Within(db)
    PROVE  RowsOf(list, p) = PageRows(list, p, Candidates(list, db))
<1>1. CASE list.kind = "places"
  <2>1. \A x \in db.places : /\ Listed(list, p, x) <=> Parent[x] = list.arg
                             /\ PageRow(list, p, x) = <<PlaceRank[x], 0, 0, x>>
    BY <1>1 DEF Listed, PageRow, Within
  <2> QED
    BY <1>1, <2>1 DEF RowsOf, PageRows, Candidates
<1>2. CASE list.kind # "places"
  <2>1. Cards(db) \subseteq Seeded \union Imported
    BY DEF Cards, Published, Within
  <2>2. \A x \in Cards(db) :
           /\ Listed(list, p, x) <=> InCollection(x, list.kind, Scope(list, p), p)
           /\ PageRow(list, p, x) =
                 <<SqlRank(x, list.kind, p), Facts[x].editorial, Facts[x].slug, x>>
    BY <1>2, <2>1 DEF Listed, PageRow
  <2>3. RowsOf(list, p) = {<<SqlRank(x, list.kind, p), Facts[x].editorial, Facts[x].slug, x>> :
                              x \in {y \in Cards(db) : InCollection(y, list.kind, Scope(list, p), p)}}
    BY <1>2 DEF RowsOf, Ranked
  <2> QED
    BY <1>2, <2>2, <2>3 DEF PageRows, Candidates
<1> QED
  BY <1>1, <1>2

\* What is shown of a database is what it has of the list.
LEMMA ShownIsListed ==
    ASSUME NEW d, Within(d), reader.list \in Lists, reader.snapshot \in PreferenceRows(BOOLEAN)
    PROVE  Shown(d) = {x \in Candidates(reader.list, d) : Listed(reader.list, reader.snapshot, x)}
<1> DEFINE list == reader.list
           p == reader.snapshot
           entries == IF list.kind = "places" THEN {x \in d.places : Parent[x] = list.arg}
                      ELSE Cards(d)
<1>1. Shown(d) = Range(Reference(list, p, entries))
  BY DEF Shown
<1>2. entries \subseteq (IF list.kind = "places"
                         THEN {x \in OldPlaces \union NewPlaces : Parent[x] = list.arg}
                         ELSE Seeded \union Imported)
  BY DEF Within, Cards, Published
<1>3. Range(Reference(list, p, entries)) = {x \in entries : Listed(list, p, x)}
  <2>1. Reference(list, p, entries) = Entries(Ordered(PageRows(list, p, entries)))
    BY <1>2, ReferenceLists
  <2> HIDE DEF list, p, entries
  <2>2. list \in Lists /\ p \in PreferenceRows(BOOLEAN)
    BY DEF list, p
  <2>3. Range(Entries(Ordered(PageRows(list, p, entries)))) = {x \in entries : Listed(list, p, x)}
    BY <2>2, OrderedEntries
  <2> QED
    BY <2>1, <2>3
<1>4. {x \in entries : Listed(list, p, x)} = {x \in Candidates(list, d) : Listed(list, p, x)}
  BY DEF Candidates, Listed
<1> QED
  BY <1>1, <1>3, <1>4

\* Lists under one context are the same list.
LEMMA SameContext ==
    ASSUME NEW list \in Lists, NEW p \in PreferenceRows(BOOLEAN), NEW q \in PreferenceRows(BOOLEAN),
           Context(list, p) = Context(list, q), NEW x
    PROVE  /\ Listed(list, p, x) = Listed(list, q, x)
           /\ Listed(list, p, x) => PageRow(list, p, x) = PageRow(list, q, x)
<1>1. CASE list.kind # "suggested"
  BY <1>1, ListKinds DEF Listed, PageRow, InCollection, SqlRank
<1>2. CASE list.kind = "suggested"
  <2>1. /\ Scope(list, p) = Scope(list, q) /\ p.styles = q.styles /\ p.interests = q.interests
        /\ p.budget = q.budget /\ p.pace = q.pace /\ p.home = q.home
    BY <1>2 DEF Context
  <2>2. Ready(p) = Ready(q) /\ SqlScore(x, p) = SqlScore(x, q)
    BY <2>1 DEF Ready, SqlScore
  <2>3. Listed(list, p, x) = Listed(list, q, x)
    BY <1>2, <2>1, <2>2 DEF Listed, InCollection
  <2>4. PageRow(list, p, x) = PageRow(list, q, x)
    BY <1>2, <2>2 DEF PageRow, SqlRank
  <2> QED
    BY <2>3, <2>4
<1> QED
  BY <1>1, <1>2


\* A cursor stands for the row that it was taken from.
LEMMA FollowsKey ==
    ASSUME NEW row, NEW q, Keyed(q)
    PROVE  (Follows(row, KeyOf(q)) <=> Follows(row, q)) /\ KeyOf(q) # NoCursor
<1>1. KeyOf(q) = <<q[1], q[2], q[3]>>
  BY DEF KeyOf
<1>2. KeyOf(q)[1] = q[1] /\ KeyOf(q)[2] = q[2] /\ KeyOf(q)[3] = q[3]
  BY <1>1
<1>3. KeyOf(q) # <<>>
  <2>1. Len(<<q[1], q[2], q[3]>>) = 3 /\ Len(<<>>) = 0
    OBVIOUS
  <2> QED
    BY <1>1, <2>1
<1> QED
  BY <1>2, <1>3, FollowsMeans DEF NoCursor

\* The first entries of a list, as many as a page holds.
LEMMA FirstEntries ==
    ASSUME NEW R, NEW o \in Seq(R), NEW S, Entries(o) \in Seq(S),
           NEW limit \in Nat \ {0}
    PROVE  LET more == Len(o) > limit
               items == IF more THEN SubSeq(o, 1, limit) ELSE o
               m == IF more THEN limit ELSE Len(o)
           IN /\ m \in 0 .. Len(o) /\ (more => m >= 1 /\ Last(items) = o[m])
              /\ Entries(items) \in Seq(S) /\ Len(Entries(items)) = m
              /\ \A i \in 1 .. m : Entries(items)[i] = Entries(o)[i]
<1>1. Len(o) \in Nat /\ DOMAIN o = 1 .. Len(o) /\ o \in [1 .. Len(o) -> R]
  BY LenProperties
<1>2. Entries(o) = [i \in 1 .. Len(o) |-> Entry(o[i])]
  BY <1>1 DEF Entries
<1>3. Len(Entries(o)) = Len(o) /\ Entries(o) \in [1 .. Len(o) -> S]
  BY <1>1, <1>2, LenProperties
<1>4. CASE Len(o) > limit
  <2> DEFINE t == SubSeq(o, 1, limit)
  <2>1. t \in Seq(R) /\ Len(t) = limit /\ \A i \in 1 .. limit : t[i] = o[i]
    <3>1. \A i \in 1 .. limit : o[i] \in R
      BY <1>1, <1>4
    <3> QED
      BY <3>1, SubSeqProperties
  <2> HIDE DEF t
  <2>2. DOMAIN t = 1 .. limit
    BY <2>1, LenProperties
  <2>3. Entries(t) = [i \in 1 .. limit |-> Entry(t[i])]
    BY <2>2 DEF Entries
  <2>4. \A i \in 1 .. limit : Entries(t)[i] = Entries(o)[i]
    BY <1>1, <1>2, <1>4, <2>1, <2>3
  <2>5. Entries(t) \in [1 .. limit -> S]
    BY <1>1, <1>3, <1>4, <2>3, <2>4
  <2>6. Entries(t) \in Seq(S) /\ Len(Entries(t)) = limit
    BY <2>5, LenProperties
  <2>7. Last(t) = o[limit]
    BY <2>1 DEF Last
  <2> QED
    BY <1>1, <1>4, <2>4, <2>6, <2>7 DEF t
<1>5. CASE ~(Len(o) > limit)
  BY <1>1, <1>3, <1>5
<1> QED
  BY <1>4, <1>5

\* Every database that is sound has entries of the catalogue only.
LEMMA SoundIsWithin ==
    ASSUME NEW d, NEW r, Sound(d, r)
    PROVE  Within(d)
BY DEF Sound, Within, DestinationsAt, PlacesAt

\* A new client has asked for nothing.
LEMMA PagesInit == CatalogueInit => PagesSound
<1> SUFFICES ASSUME CatalogueInit
             PROVE  PagesSound
  OBVIOUS
<1>1. reader = NoReader
  BY DEF CatalogueInit
<1>2. /\ reader.stage = "idle" /\ reader.list = [kind |-> "popular", arg |-> "both"]
      /\ reader.snapshot = NoPreference /\ reader.seen = <<>>
  BY <1>1 DEF NoReader
<1>3. NoPreference \in PreferenceRows(BOOLEAN)
  BY NoPreferenceIsOneChoice DEF OneChoice
<1>4. reader.list \in Lists
  BY <1>2 DEF Lists
<1>5. reader.seen \in Seq(AllEntries) /\ Len(reader.seen) = 0
  BY <1>2, EmptySeq
<1> QED
  BY <1>1, <1>2, <1>3, <1>4, <1>5 DEF PagesSound, ReaderShape, SeenSound, CursorSound, SteadySound

\* What others do takes entries from the list, or adds some that are not counted.
LEMMA ReaderKept ==
    ASSUME PagesSound, Within(db), Within(db'), UNCHANGED reader,
           Watch \/ UNCHANGED <<db, steady>>
    PROVE  PagesSound'
<1>1. (ReaderShape /\ SeenSound /\ CursorSound)'
  BY DEF PagesSound, ReaderShape, SeenSound, CursorSound, ReaderRow
<1>2. CASE UNCHANGED <<db, steady>>
  BY <1>1, <1>2 DEF PagesSound, SteadySound, ReaderRow
<1>3. CASE Watch
  <2>1. CASE steady' = {}
    BY <1>1, <2>1 DEF PagesSound, SteadySound
  <2>2. CASE db' = db /\ steady' = steady
    BY <1>1, <2>2 DEF PagesSound, SteadySound, ReaderRow
  <2>3. CASE steady' = steady \intersect Shown(db')
    <3>1. Shown(db') = {x \in Candidates(reader.list, db') : Listed(reader.list, reader.snapshot, x)}
      BY ShownIsListed DEF PagesSound, ReaderShape
    <3>2. SteadySound'
      BY <2>3, <3>1 DEF PagesSound, SteadySound, ReaderRow
    <3> QED
      BY <1>1, <3>2 DEF PagesSound
  <2> QED
    BY <1>3, <2>1, <2>2, <2>3 DEF Watch
<1> QED
  BY <1>2, <1>3

\* A listing begins with nothing shown.
LEMMA StartSound ==
    ASSUME PagesSound, NEW list \in Lists, StartListing(list), Watch
    PROVE  PagesSound'
<1>1. reader' = [NoReader EXCEPT !.stage = "ask", !.list = list]
  BY DEF StartListing
<1>2. /\ reader'.stage = "ask" /\ reader'.list = list /\ DOMAIN reader' = DOMAIN NoReader
      /\ reader'.snapshot = NoPreference /\ reader'.seen = <<>> /\ reader'.cursor = NoCursor
  BY <1>1 DEF NoReader
<1>3. NoPreference \in PreferenceRows(BOOLEAN)
  BY NoPreferenceIsOneChoice DEF OneChoice
<1>4. reader'.seen \in Seq(AllEntries) /\ Len(reader'.seen) = 0
  BY <1>2, EmptySeq
<1>5. steady' = {}
  BY <1>2 DEF Watch
<1> QED
  BY <1>2, <1>3, <1>4, <1>5 DEF PagesSound, ReaderShape, SeenSound, CursorSound, SteadySound

\* A page is asked for under the context of those before it, or not at all.
LEMMA AskSound ==
    ASSUME PagesSound, db.preference \in PreferenceRows(BOOLEAN), Ask, Watch
    PROVE  PagesSound'
<1> DEFINE list == reader.list
           p == SnapshotFor(list)
           context == Context(list, p)
<1>1. /\ reader.stage = "ask" /\ db' = db
      /\ \/ reader' = [reader EXCEPT !.stage = "idle"]
         \/ /\ reader.cursor # NoCursor => context = reader.context
            /\ reader' = [reader EXCEPT !.stage = "page", !.snapshot = p, !.context = context]
  BY DEF Ask
<1>2. p \in PreferenceRows(BOOLEAN)
  BY NoPreferenceIsOneChoice DEF SnapshotFor, OneChoice
<1>3. DOMAIN reader = {"stage", "list", "snapshot", "context", "cursor", "seen"}
  BY DEF PagesSound, ReaderShape, NoReader
<1>4. CASE reader' = [reader EXCEPT !.stage = "idle"]
  <2>1. /\ reader'.stage = "idle" /\ reader'.list = reader.list /\ reader'.seen = reader.seen
        /\ reader'.snapshot = reader.snapshot /\ DOMAIN reader' = DOMAIN reader
    BY <1>3, <1>4
  <2> QED
    BY <2>1 DEF PagesSound, ReaderShape, SeenSound, CursorSound, SteadySound, ReaderRow
<1>5. CASE /\ reader.cursor # NoCursor => context = reader.context
           /\ reader' = [reader EXCEPT !.stage = "page", !.snapshot = p, !.context = context]
  <2>1. /\ reader'.stage = "page" /\ reader'.list = list /\ reader'.seen = reader.seen
        /\ reader'.snapshot = p /\ reader'.context = context /\ reader'.cursor = reader.cursor
        /\ DOMAIN reader' = DOMAIN reader
    BY <1>3, <1>5
  <2>2. ReaderShape'
    BY <1>2, <2>1 DEF PagesSound, ReaderShape
  <2>3. CASE reader.cursor = NoCursor
    <3>1. reader.seen = <<>> /\ Len(reader.seen) = 0
      BY <1>1, <2>3, EmptySeq DEF PagesSound, CursorSound
    <3>2. steady' = {}
      BY <2>1, <2>3 DEF Watch
    <3> QED
      BY <2>1, <2>2, <2>3, <3>1, <3>2 DEF PagesSound, SeenSound, CursorSound, SteadySound
  <2>4. CASE reader.cursor # NoCursor
    <3>1. context = Context(list, reader.snapshot)
      BY <1>1, <1>5, <2>4 DEF PagesSound, CursorSound
    <3>2. \A x : /\ Listed(list, p, x) = Listed(list, reader.snapshot, x)
                 /\ Listed(list, reader.snapshot, x) =>
                       PageRow(list, p, x) = PageRow(list, reader.snapshot, x)
      <4>1. list \in Lists /\ reader.snapshot \in PreferenceRows(BOOLEAN)
        BY DEF PagesSound, ReaderShape
      <4> QED
        BY <1>2, <3>1, <4>1, SameContext
    <3>3. steady' = steady
      BY <1>1, <2>1, <2>4 DEF Watch
    <3>4. SeenSound'
      BY <2>1, <3>2 DEF PagesSound, SeenSound, ReaderRow
    <3>5. CursorSound'
      <4>1. /\ reader.seen # <<>> /\ reader.cursor = KeyOf(ReaderRow(reader.seen[Len(reader.seen)]))
        BY <1>1, <2>4 DEF PagesSound, CursorSound
      <4>2. Len(reader.seen) \in 1 .. Len(reader.seen)
        BY <4>1, EmptySeq DEF PagesSound, ReaderShape
      <4>3. Listed(list, reader.snapshot, reader.seen[Len(reader.seen)])
        BY <4>2 DEF PagesSound, SeenSound
      <4> QED
        BY <2>1, <2>4, <3>2, <4>1, <4>3 DEF CursorSound, ReaderRow
    <3>6. SteadySound'
      BY <1>1, <2>1, <2>4, <3>2, <3>3 DEF PagesSound, SteadySound, ReaderRow
    <3> QED
      BY <2>2, <3>4, <3>5, <3>6 DEF PagesSound
  <2> QED
    BY <2>3, <2>4
<1> QED
  BY <1>1, <1>4, <1>5


\* What is behind the cursor, as entries of the list.
Remaining ==
    {x \in Candidates(reader.list, db) :
        reader.cursor = NoCursor \/ Follows(ReaderRow(x), reader.cursor)}

\* The statement of a page reads their rows.
LEMMA RowsRemaining ==
    ASSUME reader.list \in Lists, reader.snapshot \in PreferenceRows(BOOLEAN), Within(db)
    PROVE  RowsAfter(reader.list, reader.snapshot, reader.cursor)
              = Ordered(PageRows(reader.list, reader.snapshot, Remaining))
<1> DEFINE list == reader.list
           p == reader.snapshot
           behind(row) == reader.cursor = NoCursor \/ Follows(row, reader.cursor)
<1>1. RowsOf(list, p) = PageRows(list, p, Candidates(list, db))
  BY RowsOfLists
<1>2. {row \in PageRows(list, p, Candidates(list, db)) : behind(row)} = PageRows(list, p, Remaining)
  <2> HIDE DEF behind
  <2>1. Remaining = {x \in Candidates(list, db) : behind(PageRow(list, p, x))}
    BY DEF Remaining, behind, ReaderRow
  <2> QED
    BY <2>1 DEF PageRows
<1> QED
  BY <1>1, <1>2 DEF RowsAfter

\* Entries e that begin the list s of what remains.
Begins(s, e) ==
    /\ s \in Seq({x \in Remaining : Listed(reader.list, reader.snapshot, x)})
    /\ \A i, j \in 1 .. Len(s) : i < j => Follows(ReaderRow(s[j]), ReaderRow(s[i]))
    /\ e \in Seq(AllEntries) /\ Len(e) \in 0 .. Len(s) /\ \A i \in 1 .. Len(e) : e[i] = s[i]

\* What a page adds continues what has been seen.
LEMMA SeenExtended ==
    ASSUME ReaderShape, SeenSound, CursorSound, reader.stage = "page",
           NEW s, NEW e, Begins(s, e)
    PROVE  LET t == reader.seen \o e
               m == Len(e)
           IN /\ t \in Seq(AllEntries) /\ Len(t) = Len(reader.seen) + m
              /\ \A i \in 1 .. Len(t) : Listed(reader.list, reader.snapshot, t[i])
              /\ \A i, j \in 1 .. Len(t) : i < j => Follows(ReaderRow(t[j]), ReaderRow(t[i]))
              /\ Range(t) = Range(reader.seen) \union {s[i] : i \in 1 .. m}
              /\ m >= 1 => t # <<>> /\ t[Len(t)] = s[m]
<1> DEFINE t == reader.seen \o e
           k == Len(reader.seen)
           m == Len(e)
<1>0. /\ s \in Seq({x \in Remaining : Listed(reader.list, reader.snapshot, x)})
      /\ \A i, j \in 1 .. Len(s) : i < j => Follows(ReaderRow(s[j]), ReaderRow(s[i]))
      /\ e \in Seq(AllEntries) /\ m \in 0 .. Len(s) /\ \A i \in 1 .. m : e[i] = s[i]
  BY DEF Begins
<1>1. reader.seen \in Seq(AllEntries) /\ k \in Nat
  BY LenProperties DEF ReaderShape
<1>2. /\ t \in Seq(AllEntries) /\ Len(t) = k + m
      /\ \A i \in 1 .. k + m : t[i] = IF i <= k THEN reader.seen[i] ELSE e[i - k]
  BY <1>0, <1>1, ConcatProperties
<1>3. Len(s) \in Nat /\ \A i \in 1 .. Len(s) : s[i] \in Remaining
                        /\ Listed(reader.list, reader.snapshot, s[i])
  BY <1>0, LenProperties
<1> HIDE DEF t
<1>4. /\ \A i \in 1 .. k : t[i] = reader.seen[i]
      /\ \A i \in k + 1 .. k + m : i - k \in 1 .. m /\ t[i] = s[i - k]
  <2>1. m \in Nat
    BY <1>0, <1>3
  <2>2. ASSUME NEW i \in 1 .. k
        PROVE  t[i] = reader.seen[i]
    <3>1. i \in 1 .. k + m /\ i <= k
      BY <1>1, <2>1
    <3> QED
      BY <1>2, <3>1
  <2>3. ASSUME NEW i \in k + 1 .. k + m
        PROVE  i - k \in 1 .. m /\ t[i] = s[i - k]
    <3>1. i \in 1 .. k + m /\ ~(i <= k) /\ i - k \in 1 .. m
      BY <1>1, <2>1
    <3>2. t[i] = e[i - k]
      BY <1>2, <3>1
    <3> QED
      BY <1>0, <3>1, <3>2
  <2> QED
    BY <2>2, <2>3
<1>5. ASSUME NEW i \in 1 .. k + m
      PROVE  Listed(reader.list, reader.snapshot, t[i]) /\ Keyed(ReaderRow(t[i]))
  <2>1. Listed(reader.list, reader.snapshot, t[i])
    <3>1. CASE i <= k
      BY <1>1, <1>4, <3>1 DEF SeenSound
    <3>2. CASE i > k
      BY <1>0, <1>1, <1>3, <1>4, <3>2
    <3> QED
      BY <1>1, <3>1, <3>2
  <2> QED
    BY <2>1, RowsAreKeyed DEF ReaderShape, ReaderRow
<1>6. ASSUME NEW i \in 1 .. k + m, NEW j \in 1 .. k + m, i < j
      PROVE  Follows(ReaderRow(t[j]), ReaderRow(t[i]))
  <2>1. CASE j <= k
    BY <1>1, <1>4, <1>6, <2>1 DEF SeenSound
  <2>2. CASE i > k
    <3>1. i \in k + 1 .. k + m /\ j \in k + 1 .. k + m
      BY <1>1, <1>6, <2>2
    <3>2. i - k \in 1 .. Len(s) /\ j - k \in 1 .. Len(s) /\ i - k < j - k
      BY <1>0, <1>1, <1>3, <1>6, <3>1
    <3> QED
      BY <1>0, <1>4, <3>1, <3>2
  <2>3. CASE i <= k /\ k < j
    <3>1. k >= 1 /\ k \in 1 .. k + m /\ i \in 1 .. k
      BY <1>0, <1>1, <1>3, <2>3
    <3>2. reader.cursor # NoCursor
      BY <3>1, EmptySeq DEF CursorSound
    <3>3. reader.cursor = KeyOf(ReaderRow(reader.seen[k])) /\ t[k] = reader.seen[k]
      BY <1>4, <3>1, <3>2 DEF CursorSound
    <3>4. j \in k + 1 .. k + m
      BY <1>1, <2>3
    <3>5. t[j] \in Remaining
      BY <1>0, <1>3, <1>4, <3>4
    <3>6. Follows(ReaderRow(t[j]), reader.cursor)
      BY <3>2, <3>5 DEF Remaining
    <3>7. Follows(ReaderRow(t[j]), ReaderRow(t[k]))
      BY <1>5, <3>1, <3>3, <3>6, FollowsKey
    <3>8. CASE i = k
      BY <3>7, <3>8
    <3>9. CASE i < k
      <4>1. Follows(ReaderRow(t[k]), ReaderRow(t[i]))
        BY <1>4, <3>1, <3>9 DEF SeenSound
      <4> QED
        BY <1>5, <3>1, <3>7, <4>1, FollowsIsOrder
    <3> QED
      BY <1>1, <2>3, <3>8, <3>9
  <2> QED
    BY <1>1, <2>1, <2>2, <2>3
<1>7. Range(t) = Range(reader.seen) \union {s[i] : i \in 1 .. m}
  <2>1. Range(t) = Range(reader.seen) \union Range(e)
    BY <1>0, <1>1, RangeConcatenation DEF t
  <2>2. Range(e) = {e[i] : i \in 1 .. m}
    BY <1>0, RangeEquality
  <2>3. {e[i] : i \in 1 .. m} = {s[i] : i \in 1 .. m}
    BY <1>0
  <2> QED
    BY <2>1, <2>2, <2>3
<1>8. m >= 1 => t # <<>> /\ t[Len(t)] = s[m]
  <2> SUFFICES ASSUME m >= 1
               PROVE  t # <<>> /\ t[Len(t)] = s[m]
    OBVIOUS
  <2>1. k + m \in k + 1 .. k + m /\ (k + m) - k = m /\ Len(t) # 0
    BY <1>0, <1>1, <1>2, <1>3
  <2> QED
    BY <1>2, <1>4, <2>1, EmptySeq
<1> QED
  BY <1>2, <1>5, <1>6, <1>7, <1>8 DEF t

\* A page shows the first of what remains, and its cursor leaves out nothing else.
LEMMA PageSound ==
    ASSUME PagesSound, Within(db), NEW limit \in Nat \ {0}, Page(limit), Watch
    PROVE  PagesSound'
<1> DEFINE list == reader.list
           p == reader.snapshot
           rows == RowsAfter(list, p, reader.cursor)
           more == Len(rows) > limit
           items == IF more THEN SubSeq(rows, 1, limit) ELSE rows
           m == IF more THEN limit ELSE Len(rows)
           s == Entries(rows)
           chosen == {x \in Remaining : Listed(list, p, x)}
<1>1. /\ ReaderShape /\ SeenSound /\ CursorSound /\ SteadySound
      /\ list \in Lists /\ p \in PreferenceRows(BOOLEAN)
  BY DEF PagesSound, ReaderShape
<1>2. /\ reader.stage = "page" /\ db' = db
      /\ reader' = [reader EXCEPT !.stage = IF more THEN "ask" ELSE "done",
                                  !.cursor = IF more THEN KeyOf(Last(items)) ELSE @,
                                  !.seen = @ \o Entries(items)]
  BY DEF Page
<1>3. rows = Ordered(PageRows(list, p, Remaining))
  BY <1>1, RowsRemaining
<1>4. /\ s \in Seq(chosen) /\ Range(s) = chosen /\ Len(s) = Len(rows)
      /\ rows \in Seq(PageRows(list, p, Remaining))
      /\ \A i, j \in 1 .. Len(s) : i < j => Follows(ReaderRow(s[j]), ReaderRow(s[i]))
      /\ \A i \in 1 .. Len(s) : rows[i] = ReaderRow(s[i])
  BY <1>1, <1>3, OrderedEntries DEF ReaderRow
<1>5. chosen \subseteq AllEntries
  BY DEF Listed, AllEntries
<1>6. s \in Seq(AllEntries)
  BY <1>4, <1>5, SeqMonotonic
<1>7. /\ m \in 0 .. Len(rows) /\ (more => m >= 1 /\ Last(items) = rows[m])
      /\ Entries(items) \in Seq(AllEntries) /\ Len(Entries(items)) = m
      /\ \A i \in 1 .. m : Entries(items)[i] = s[i]
  BY <1>4, <1>6, FirstEntries
<1>8. Len(rows) \in Nat /\ (~more => m = Len(rows))
  BY <1>4, LenProperties
<1> DEFINE t == reader.seen \o Entries(items)
<1>9. /\ t \in Seq(AllEntries)
      /\ \A i \in 1 .. Len(t) : Listed(list, p, t[i])
      /\ \A i, j \in 1 .. Len(t) : i < j => Follows(ReaderRow(t[j]), ReaderRow(t[i]))
      /\ Range(t) = Range(reader.seen) \union {s[i] : i \in 1 .. m}
      /\ m >= 1 => t # <<>> /\ t[Len(t)] = s[m]
  <2> DEFINE e == Entries(items)
  <2>1. Begins(s, e) /\ Len(e) = m
    BY <1>4, <1>7 DEF Begins
  <2> HIDE DEF e, items, m, s, rows, more
  <2>2. LET u == reader.seen \o e
        IN /\ u \in Seq(AllEntries)
           /\ \A i \in 1 .. Len(u) : Listed(reader.list, reader.snapshot, u[i])
           /\ \A i, j \in 1 .. Len(u) : i < j => Follows(ReaderRow(u[j]), ReaderRow(u[i]))
           /\ Range(u) = Range(reader.seen) \union {s[i] : i \in 1 .. Len(e)}
           /\ Len(e) >= 1 => u # <<>> /\ u[Len(u)] = s[Len(e)]
    BY <1>1, <1>2, <2>1, SeenExtended
  <2> QED
    BY <2>1, <2>2 DEF e
<1>10. DOMAIN reader = {"stage", "list", "snapshot", "context", "cursor", "seen"}
  BY <1>1 DEF ReaderShape, NoReader
<1> HIDE DEF t, items, m, s, rows, more, chosen
<1>11. /\ reader'.stage = (IF more THEN "ask" ELSE "done") /\ reader'.list = list
       /\ reader'.snapshot = p /\ reader'.context = reader.context /\ reader'.seen = t
       /\ reader'.cursor = (IF more THEN KeyOf(Last(items)) ELSE reader.cursor)
       /\ DOMAIN reader' = DOMAIN reader
  BY <1>2, <1>10 DEF t
<1>12. ReaderShape'
  BY <1>1, <1>9, <1>11 DEF ReaderShape
<1>13. SeenSound'
  BY <1>9, <1>11 DEF SeenSound, ReaderRow
<1>14. more => /\ m \in 1 .. Len(s) /\ Keyed(ReaderRow(s[m]))
               /\ reader'.cursor = KeyOf(ReaderRow(s[m])) /\ reader'.cursor # NoCursor
  <2> SUFFICES ASSUME more
               PROVE  /\ m \in 1 .. Len(s) /\ Keyed(ReaderRow(s[m]))
                      /\ reader'.cursor = KeyOf(ReaderRow(s[m])) /\ reader'.cursor # NoCursor
    OBVIOUS
  <2>1. m \in 1 .. Len(s)
    BY <1>4, <1>7, <1>8
  <2>2. Listed(list, p, s[m])
    BY <2>1, <1>4, LenProperties DEF chosen
  <2>3. Keyed(ReaderRow(s[m]))
    BY <1>1, <2>2, RowsAreKeyed DEF ReaderRow
  <2> QED
    BY <1>4, <1>7, <1>11, <2>1, <2>3, FollowsKey
<1>15. CursorSound'
  <2>1. CASE more
    BY <1>1, <1>2, <1>7, <1>9, <1>11, <1>14, <2>1 DEF CursorSound, ReaderRow
  <2>2. CASE ~more
    BY <1>11, <2>2 DEF CursorSound
  <2> QED
    BY <2>1, <2>2
<1>16. ASSUME NEW x \in steady'
       PROVE  /\ x \in Candidates(list, db) /\ Listed(list, p, x)
              /\ x \in Range(reader.seen) \/ x \in chosen
  <2>1. CASE reader.cursor = NoCursor
    <3>1. steady' = Shown(db)
      BY <1>2, <1>11, <1>14, <2>1 DEF Watch
    <3>2. Shown(db) = {y \in Candidates(list, db) : Listed(list, p, y)}
      BY <1>1, ShownIsListed
    <3> QED
      BY <1>16, <2>1, <3>1, <3>2 DEF chosen, Remaining
  <2>2. CASE reader.cursor # NoCursor
    <3>1. steady' = steady
      BY <1>2, <1>11, <1>14, <2>2 DEF Watch
    <3>2. /\ x \in Candidates(list, db) /\ Listed(list, p, x)
          /\ x \in Range(reader.seen) \/ Follows(ReaderRow(x), reader.cursor)
      BY <1>1, <1>2, <1>16, <2>2, <3>1 DEF SteadySound
    <3> QED
      BY <3>2 DEF chosen, Remaining
  <2> QED
    BY <2>1, <2>2
<1>17. ASSUME NEW x \in chosen
       PROVE  x \in Range(t) \/ (more /\ Follows(ReaderRow(x), reader'.cursor))
  <2>0. Range(s) = {s[i] : i \in 1 .. Len(s)}
    BY <1>4, RangeEquality
  <2>1. PICK i \in 1 .. Len(s) : s[i] = x
    BY <1>4, <2>0
  <2>2. CASE i <= m
    BY <1>9, <2>1, <2>2
  <2>3. CASE i > m
    <3>1. more
      BY <1>4, <1>7, <1>8, <2>3
    <3>2. Follows(ReaderRow(x), ReaderRow(s[m]))
      BY <1>4, <1>14, <2>1, <2>3, <3>1
    <3> QED
      BY <1>14, <3>1, <3>2, FollowsKey
  <2> QED
    BY <1>4, <1>7, <1>8, <2>2, <2>3
<1>18. SteadySound'
  <2>1. Range(reader.seen) \subseteq Range(t)
    BY <1>9
  <2>2. CASE more
    <3>1. reader'.stage = "ask" /\ reader'.cursor # NoCursor
      BY <1>11, <1>14, <2>2
    <3>2. \A x \in steady' : /\ x \in Candidates(list, db) /\ Listed(list, p, x)
                             /\ x \in Range(t) \/ Follows(ReaderRow(x), reader'.cursor)
      BY <1>16, <1>17, <2>1
    <3> QED
      BY <1>2, <1>11, <3>1, <3>2 DEF SteadySound, ReaderRow
  <2>3. CASE ~more
    <3>1. steady' \subseteq Range(t)
      BY <1>16, <1>17, <2>1, <2>3
    <3> QED
      BY <1>11, <2>3, <3>1 DEF SteadySound
  <2> QED
    BY <2>2, <2>3
<1> QED
  BY <1>12, <1>13, <1>15, <1>18 DEF PagesSound

\* Every step keeps the pages sound over sound rows.
LEMMA PagesNext ==
    CatalogueInv /\ CatalogueInv' /\ PagesSound /\ [CatalogueNext]_catalogueVars => PagesSound'
<1> SUFFICES ASSUME CatalogueInv, CatalogueInv', PagesSound, [CatalogueNext]_catalogueVars
             PROVE  PagesSound'
  OBVIOUS
<1>1. Within(db) /\ Within(db') /\ db.preference \in PreferenceRows(BOOLEAN)
  <2>1. Sound(db, db.revision) /\ Sound(db', db'.revision) /\ OneChoice(db.preference)
    BY DEF CatalogueInv
  <2> QED
    BY <2>1, SoundIsWithin DEF OneChoice
<1>2. CASE UNCHANGED catalogueVars
  BY <1>1, <1>2, ReaderKept DEF catalogueVars
<1>3. CASE CatalogueNext
  <2>1. Watch /\ Step
    BY <1>3 DEF CatalogueNext
  <2>2. CASE UNCHANGED reader
    BY <1>1, <2>1, <2>2, ReaderKept
  <2>3. ASSUME NEW list \in Lists, StartListing(list)
        PROVE  PagesSound'
    BY <2>1, <2>3, StartSound
  <2>4. CASE Ask
    BY <1>1, <2>1, <2>4, AskSound
  <2>5. ASSUME NEW limit \in PageSizes, Page(limit)
        PROVE  PagesSound'
    BY <1>1, <2>1, <2>5, ReaderAssumption, PageSound
  <2> QED
    BY <2>1, <2>2, <2>3, <2>4, <2>5
       DEF Step, Upsert, DeleteTags, CommitChoice, RollbackChoice, PlanImport, Upload, Attach,
           StopImport, Toggle, Migrate
<1> QED
  BY <1>2, <1>3

\* What the client has seen, the cursor it holds and what has been listed throughout
\* belong together in every state, whatever happens between two statements of a listing.
THEOREM PagesInvariance == CatalogueSpec => []PagesSound
<1>1. CatalogueSpec => []CatalogueInv
  BY CatalogueInvariance
<1> QED
  BY <1>1, PagesInit, PagesNext, PTL DEF CatalogueSpec

\* The pages of list_destinations and list_places, put together, are the domain's ranking
\* without repetition and without a gap, for any catalogue, any page sizes and any changes
\* of the catalogue and of the preferences between two pages.
THEOREM PagesAreComplete == CatalogueSpec => []PagesComplete
<1>1. PagesSound => PagesComplete
  <2> SUFFICES ASSUME PagesSound
               PROVE  PagesComplete
    OBVIOUS
  <2> DEFINE list == reader.list
             p == reader.snapshot
             s == reader.seen
  <2>1. /\ list \in Lists /\ p \in PreferenceRows(BOOLEAN) /\ s \in Seq(AllEntries)
        /\ \A i \in 1 .. Len(s) : Listed(list, p, s[i])
        /\ \A i, j \in 1 .. Len(s) :
              i < j => Follows(PageRow(list, p, s[j]), PageRow(list, p, s[i]))
    BY DEF PagesSound, ReaderShape, SeenSound, ReaderRow
  <2>2. reader.stage = "done" => steady \subseteq Range(s)
    BY DEF PagesSound, SteadySound
  <2> HIDE DEF list, p, s
  <2>3. Entries(Ordered(PageRows(list, p, Range(s)))) = s
    BY <2>1, SortedEntries
  <2>4. \A x \in Range(s) : Listed(list, p, x)
    BY <2>1, RangeEquality
  <2>5. Range(s) \subseteq (IF list.kind = "places"
                            THEN {x \in OldPlaces \union NewPlaces : Parent[x] = list.arg}
                            ELSE Seeded \union Imported)
    BY <2>4 DEF Listed
  <2>6. Reference(list, p, Range(s)) = s
    BY <2>1, <2>3, <2>5, ReferenceLists
  <2> QED
    BY <2>2, <2>6 DEF PagesComplete, list, p, s
<1> QED
  BY <1>1, PagesInvariance, PTL
==============================================================================
