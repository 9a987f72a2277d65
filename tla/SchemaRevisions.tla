-------------------------- MODULE SchemaRevisions --------------------------
(***************************************************************************)
(* The migrations of alembic/versions as lists of statements on schema     *)
(* objects.  A table stands for its primary key and for what create_table  *)
(* declares inline; columns, constraints, indexes and foreign keys are     *)
(* objects of their own when a later statement names them or when a drop   *)
(* of the referenced table depends on them.  Rows are the matter of        *)
(* CatalogueMigrations.                                                    *)
(***************************************************************************)
EXTENDS Naturals, Sequences, SequencesExt

Table(t) == <<t>>
Column(t, c) == <<t, "column", <<c>>>>
Constraint(t, c) == <<t, "constraint", <<c>>>>
Index(t, i) == <<t, "index", i>>
References(t, r) == <<t, "references", r>>

\* A check constraint that is created or dropped under a plain name gets the
\* naming convention's prefix; op.f(name) is taken as it is.
Conventional(t, c) == <<t, "constraint", <<"ck", t>> \o c>>

Creates(objects) == [i \in DOMAIN objects |-> [do |-> "create", object |-> objects[i]]]
Drops(objects) == [i \in DOMAIN objects |-> [do |-> "drop", object |-> objects[i]]]

\* The schema of a transaction that PostgreSQL has aborted.
Aborted == {<<"aborted">>}

Applicable(schema, s) ==
    CASE s.do = "create" ->
            /\ s.object \notin schema
            /\ Len(s.object) = 1 \/ Table(s.object[1]) \in schema
            /\ (Len(s.object) = 3 /\ s.object[2] = "references") => Table(s.object[3]) \in schema
      [] s.do = "drop" ->
            /\ s.object \in schema
            /\ Len(s.object) = 1 =>
                  \A o \in schema : (Len(o) = 3 /\ o[2] = "references" /\ o[3] = s.object[1])
                                       => o[1] = s.object[1]
      [] s.do = "rename" -> s.object \in schema /\ s.to \notin schema

Removes(s, o) ==
    CASE s.do = "drop" -> IF Len(s.object) = 1 THEN o[1] = s.object[1] ELSE o = s.object
      [] s.do = "rename" -> o = s.object
      [] OTHER -> FALSE

Added(s) == CASE s.do = "create" -> {s.object} [] s.do = "rename" -> {s.to} [] OTHER -> {}

\* The schema before the i-th statement; no migration creates again what it drops.
Before(statements, schema, i) ==
    {o \in schema \union UNION {Added(statements[j]) : j \in 1 .. i - 1} :
        \A j \in 1 .. i - 1 : ~Removes(statements[j], o)}

\* The statements of one migration; one that fails aborts it.
Execute(statements, schema) ==
    IF schema # Aborted /\ \A i \in DOMAIN statements : Applicable(Before(statements, schema, i), statements[i])
    THEN Before(statements, schema, Len(statements) + 1) ELSE Aborted
-----------------------------------------------------------------------------
\* 30f8e0bdc666
CreateUsers == Creates(<<Table("users")>>)
DropUsers == Drops(<<Table("users")>>)

\* 2c5b31990a03
CreateAuthSessions ==
    Creates(<<Table("auth_sessions"), References("auth_sessions", "auth_sessions"),
              References("auth_sessions", "users"), Index("auth_sessions", "expires_at"),
              Index("auth_sessions", "token_family"), Index("auth_sessions", "user_revoked")>>)
DropAuthSessions ==
    Drops(<<Index("auth_sessions", "user_revoked"), Index("auth_sessions", "token_family"),
            Index("auth_sessions", "expires_at"), Table("auth_sessions")>>)

\* 0b78ccc3c382
CreateConversations ==
    Creates(<<Table("conversations"), References("conversations", "users"),
              Index("conversations", "user_updated_at"),
              Table("messages"), References("messages", "conversations"),
              References("messages", "messages"), Index("messages", "conversation_created_at")>>)
DropConversations ==
    Drops(<<Index("messages", "conversation_created_at"), Table("messages"),
            Index("conversations", "user_updated_at"), Table("conversations")>>)

\* 8232604507a7
OneReply == <<Constraint("messages", "uq_messages_reply_to_message_id")>>
CreateOneReply == Creates(OneReply)
DropOneReply == Drops(OneReply)

\* 4f7571eb0cd0
CreateAssistantRuns ==
    Creates(<<Table("assistant_runs"), References("assistant_runs", "messages"),
              Index("assistant_runs", "status_lease")>>)
DropAssistantRuns == Drops(<<Index("assistant_runs", "status_lease"), Table("assistant_runs")>>)

\* 7e785b650b71
CreateTrips ==
    Creates(<<Table("trips"), References("trips", "users"),
              Index("trips", "user_status_start_date"), Index("trips", "user_updated_at")>>)
DropTrips ==
    Drops(<<Index("trips", "user_updated_at"), Index("trips", "user_status_start_date"),
            Table("trips")>>)

\* db5b0ae0df09
CreateItineraries ==
    Creates(<<Table("itineraries"), References("itineraries", "trips"),
              Index("itineraries", "trip_created_at"), Index("itineraries", "one_saved_per_trip"),
              Table("itinerary_items"), References("itinerary_items", "itineraries")>>)
DropItineraries ==
    Drops(<<Table("itinerary_items"), Index("itineraries", "one_saved_per_trip"),
            Index("itineraries", "trip_created_at"), Table("itineraries")>>)

\* 4bd392a8d0c1
TripContext ==
    <<Column("messages", "trip_id"), References("messages", "trips"),
      Constraint("messages", "ck_messages_trip_context_user_only"),
      Index("messages", "trip_created_at")>>
AddTripContext == Creates(TripContext)
RemoveTripContext == Drops(Reverse(TripContext))

\* fbc765d13a3b
AddSourceMessage ==
    Creates(<<Column("itineraries", "source_message_id"),
              Constraint("itineraries", "uq_itineraries_source_message"),
              References("itineraries", "messages")>>)
RemoveSourceMessage ==
    Drops(<<References("itineraries", "messages"),
            Constraint("itineraries", "uq_itineraries_source_message"),
            Column("itineraries", "source_message_id")>>)

\* 91d3f4a6c8b2
LocationColumns == <<"location_provider", "provider_location_id", "canonical_name",
                     "country_code", "latitude", "longitude">>
LocationChecks == <<"location_complete", "latitude_range", "longitude_range">>
LocationOf(prefix) ==
    [i \in DOMAIN LocationColumns |-> <<"trips", "column", <<prefix, LocationColumns[i]>>>>]
        \o [i \in DOMAIN LocationChecks |-> Conventional("trips", <<prefix, LocationChecks[i]>>)]
AddLocations == Creates(LocationOf("origin") \o LocationOf("destination"))
RemoveLocations == Drops(Reverse(LocationOf("destination")) \o Reverse(LocationOf("origin")))

\* a61c9e4b2d77
StructuredContent == <<Column("messages", "structured_content"),
                       Conventional("messages", <<"structured_content_assistant_only">>)>>
AddStructuredContent == Creates(StructuredContent)
RemoveStructuredContent == Drops(Reverse(StructuredContent))

\* c3d9a4e71f20
CreatePreferences ==
    Creates(<<Table("user_preferences"), Column("user_preferences", "travel_style"),
              Constraint("user_preferences", "ck_user_preferences_travel_style"),
              References("user_preferences", "users"),
              Table("user_interests"), References("user_interests", "user_preferences")>>)
DropPreferences == Drops(<<Table("user_interests"), Table("user_preferences")>>)

\* e8b4f2c91a60
CreateDestinations ==
    Creates(<<Table("destinations"), Column("destinations", "image_url"),
              Column("destinations", "image_alt"), Index("destinations", "published_editorial"),
              Index("destinations", "published_featured"),
              Index("destinations", "published_popular"),
              Table("destination_styles"), References("destination_styles", "destinations"),
              Table("destination_interests"), References("destination_interests", "destinations")>>)
DropDestinations ==
    Drops(<<Table("destination_interests"), Table("destination_styles"),
            Index("destinations", "published_popular"),
            Index("destinations", "published_featured"),
            Index("destinations", "published_editorial"), Table("destinations")>>)

\* f2a7c5d83b10
Legacy == <<<<"messages", <<"structured_content_assistant_only">>>>>>
            \o [i \in 1 .. 6 |->
                   <<"trips", <<IF i <= 3 THEN "origin" ELSE "destination",
                                LocationChecks[((i - 1) % 3) + 1]>>>>]
Normalized(n) == <<n[1], "constraint", n[2]>>
NormalizeNames ==
    [i \in DOMAIN Legacy |-> [do |-> "rename", object |-> Conventional(Legacy[i][1], Legacy[i][2]),
                              to |-> Normalized(Legacy[i])]]

RestoreNames ==
    [i \in DOMAIN Legacy |-> [do |-> "rename", object |-> Normalized(Legacy[i]),
                              to |-> Conventional(Legacy[i][1], Legacy[i][2])]]

\* d4f8a2c7e910
StyleColumn == <<Constraint("user_preferences", "ck_user_preferences_travel_style"),
                 Column("user_preferences", "travel_style")>>
UserTravelStyles == <<Table("user_travel_styles"), References("user_travel_styles", "user_preferences")>>
DetailColumns == <<"destination_type", "full_description", "map_zoom">>
DetailChecks == <<"ck_destinations_destination_type", "ck_destinations_full_description_length",
                  "ck_destinations_map_zoom_range">>
Details == [i \in DOMAIN DetailColumns |-> Column("destinations", DetailColumns[i])]
             \o [i \in DOMAIN DetailChecks |-> Constraint("destinations", DetailChecks[i])]
MediaTables ==
    <<Table("media_assets"), Table("destination_places"),
      References("destination_places", "destinations"),
      Index("destination_places", "published_order"),
      Table("destination_media"), References("destination_media", "destinations"),
      References("destination_media", "media_assets"), Index("destination_media", "one_cover"),
      Table("destination_place_media"), References("destination_place_media", "destination_places"),
      References("destination_place_media", "media_assets"),
      Index("destination_place_media", "one_cover")>>
ImageColumns == <<Column("destinations", "image_alt"), Column("destinations", "image_url")>>
ExpandCatalogue ==
    Creates(UserTravelStyles) \o Drops(StyleColumn) \o Creates(Details) \o Creates(MediaTables)
        \o Drops(ImageColumns)
DropMedia ==
    Drops(<<Index("destination_place_media", "one_cover"), Table("destination_place_media"),
            Index("destination_media", "one_cover"), Table("destination_media"),
            Index("destination_places", "published_order"), Table("destination_places"),
            Table("media_assets")>>)
ReduceCatalogue ==
    Creates(Reverse(ImageColumns)) \o DropMedia \o Drops(Reverse(Details))
        \o Creates(Reverse(StyleColumn)) \o Drops(<<Table("user_travel_styles")>>)

\* b7e2f9a41063
Seeks == <<Index("destinations", "popular_seek"), Index("destinations", "featured_seek"),
                 Index("destinations", "country_published")>>
CreateSeekIndexes == Creates(Seeks)
DropSeekIndexes == Drops(Reverse(Seeks))

\* ab72c4e91035
PlanningColumns ==
    <<Column("conversations", "planning_state"), Column("conversations", "planning_trip_id"),
      Column("conversations", "planning_lease_token"),
      Column("conversations", "planning_lease_expires_at"), References("conversations", "trips")>>
AddPlanning == Creates(PlanningColumns)
RemovePlanning == Drops(Reverse(PlanningColumns))

\* c8e3a9f21064
AddActivityImages == Creates(<<Column("itinerary_items", "image")>>)
RemoveActivityImages == Drops(<<Column("itinerary_items", "image")>>)

\* d92af5b43107
TimeZones == <<Column("itinerary_items", "start_time_zone"), Column("itinerary_items", "end_time_zone")>>
BoundGeneration ==
    Creates(<<Column("messages", "generation_deferred")>> \o TimeZones
            \o <<Column("messages", "turn_number"), Index("messages", "conversation_turn"),
                 Table("generation_leases"), References("generation_leases", "users"),
                 Index("generation_leases", "expires_at"), Index("generation_leases", "user_id"),
                 Table("generation_usage"), References("generation_usage", "users"),
                 Index("generation_usage", "day")>>)
UnboundGeneration ==
    Drops(<<Column("messages", "generation_deferred")>> \o TimeZones
          \o <<Table("generation_usage"), Table("generation_leases"),
               Index("messages", "conversation_turn"), Column("messages", "turn_number")>>)

\* e71c09ab624f
LeaseMessage == <<Column("generation_leases", "message_id"),
                  Constraint("generation_leases", "uq_generation_leases_user_message")>>
DeduplicateLeases == Creates(LeaseMessage)
RemoveDeduplication == Drops(Reverse(LeaseMessage))
-----------------------------------------------------------------------------
Upgrades ==
    <<CreateUsers, CreateAuthSessions, CreateConversations, CreateOneReply, CreateAssistantRuns,
      CreateTrips, CreateItineraries, AddTripContext, AddSourceMessage, AddLocations,
      AddStructuredContent, CreatePreferences, CreateDestinations, NormalizeNames, <<>>,
      ExpandCatalogue, CreateSeekIndexes, <<>>, AddPlanning, AddActivityImages, BoundGeneration,
      DeduplicateLeases>>
Downgrades ==
    <<DropUsers, DropAuthSessions, DropConversations, DropOneReply, DropAssistantRuns,
      DropTrips, DropItineraries, RemoveTripContext, RemoveSourceMessage, RemoveLocations,
      RemoveStructuredContent, DropPreferences, DropDestinations, RestoreNames, <<>>,
      ReduceCatalogue, DropSeekIndexes, <<>>, RemovePlanning, RemoveActivityImages,
      UnboundGeneration, RemoveDeduplication>>

Latest == Len(Upgrades)

\* The revisions that CatalogueMigrations and DestinationCatalogue name.
Preferences == 12
Seeds == 13
Images == 15
Expansion == 16
SeekIndexes == 17
Import == 18

\* The schema of a database that was only ever upgraded, revision by revision
\* from the empty one.
Schemas ==
    FoldLeft(LAMBDA schemas, statements : Append(schemas, Execute(statements, Last(schemas))),
             <<{}>>, Upgrades)
SchemaAt(r) == Schemas[r + 1]

\* What each downgrade makes of the expected schema.
Reverted ==
    FoldLeft(LAMBDA schemas, statements :
                Append(schemas, Execute(statements, SchemaAt(Len(schemas) + 1))),
             <<>>, Downgrades)

Upgrade(schema, r) ==
    IF schema = SchemaAt(r - 1) THEN SchemaAt(r) ELSE Execute(Upgrades[r], schema)
Downgrade(schema, r) ==
    IF schema = SchemaAt(r) THEN Reverted[r] ELSE Execute(Downgrades[r], schema)
=============================================================================
