---------------------- MODULE MC_DestinationCatalogue ----------------------
(***************************************************************************)
(* Two seeded destinations and two of the manifest, one old place and      *)
(* three new ones of which two share a parent; the manifest's folder holds *)
(* two photos of one owner with the same bytes.                            *)
(***************************************************************************)
EXTENDS DestinationCatalogue

Parents == "kachura" :> "skardu" @@ "fort" :> "bali" @@ "port" :> "rome" @@ "forum" :> "rome"

Destination(country, budget, styles, interests, editorial, popular, featured, slug) ==
    [country |-> country, budget |-> budget, styles |-> styles, interests |-> interests,
     editorial |-> editorial, popular |-> popular, featured |-> featured, slug |-> slug]

CatalogueFacts ==
    "skardu" :> Destination("PK", 1, {1, 3}, {1, 2}, 2, 1, 2, 4)
      @@ "bali" :> Destination("ID", 1, {2}, {3}, 1, 1, NoRank, 1)
      @@ "rome" :> Destination("IT", 3, {2, 3}, {2}, 2, NoRank, NoRank, 3)
      @@ "murree" :> Destination("PK", 0, {2}, {1}, 4, NoRank, NoRank, 2)

Ranks == "kachura" :> 1 @@ "fort" :> 1 @@ "port" :> 1 @@ "forum" :> 2

Photo(owner, slot, bytes) == [owner |-> owner, slot |-> slot, bytes |-> bytes]

FirstFolder ==
    <<Photo("rome", 0, "a"), Photo("rome", 1, "b"), Photo("rome", 2, "a"), Photo("murree", 0, "a")>>
NewCovers == <<Photo("rome", 0, "c"), Photo("skardu", 0, "a")>>

Choice(styles, interests, budget, pace, scope, home) ==
    [exists |-> TRUE, styles |-> styles, interests |-> interests, budget |-> budget,
     pace |-> pace, scope |-> scope, home |-> home]

OnboardingChoices ==
    {Choice({2, 3}, {1}, 3, "packed", "both", "PK"), Choice({1}, {2, 3}, 1, "relaxed", "local", "PK")}

Folders == {FirstFolder, NewCovers}
=============================================================================
