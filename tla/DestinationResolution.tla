------------------------- MODULE DestinationResolution -------------------------
(* How the text of a destination becomes a published city: recognition of     *)
(* countries with spelling proposals, the precedence of published cities over *)
(* countries, and the city options of a country.  Texts are values; that two  *)
(* spellings are the same text after normalization is part of the constants.  *)
EXTENDS Integers, FiniteSets

CONSTANTS
    Countries, Cities,
    NameOf,         \* the name of every country and of every city
    CountryOf,      \* the country of every city
    Rank,           \* the order in which cities are suggested
    CodeOrder,      \* the order of the countries by their codes
    Exactly,        \* the countries that a text names or abbreviates
    Nearly          \* the countries whose names a text misspells

ASSUME PlaceAssumption ==
    /\ Cities \cap Countries = {}
    /\ CountryOf \in [Cities -> Countries]
    /\ Rank \in [Cities -> Nat] /\ CodeOrder \in [Countries -> Nat]
    /\ \A text \in DOMAIN Exactly : Exactly[text] \subseteq Countries
    /\ \A text \in DOMAIN Nearly : Nearly[text] \subseteq Countries
    /\ \A k \in Countries : NameOf[k] \in DOMAIN Exactly /\ Exactly[NameOf[k]] = {k}

MaxSuggestions == 3     \* MAX_CITY_SUGGESTIONS
MaxProposals == 3       \* countries that are asked about

------------------------------------------------------------------------------
\* CountryRecognitionService.recognize: an exact name, or, where a misspelling may be meant,
\* the countries it may mean.
CountriesNamed(text) == IF text \in DOMAIN Exactly THEN Exactly[text] ELSE {}
CountriesMeant(text) == IF text \in DOMAIN Nearly THEN Nearly[text] ELSE {}

Recognized(countries, status) ==
    [status |-> IF countries = {} THEN "not_recognized"
                ELSE IF Cardinality(countries) > 1 THEN "ambiguous" ELSE status,
     matches |-> countries]

Recognize(text, typo) ==
    IF CountriesNamed(text) # {} \/ ~typo
    THEN Recognized(CountriesNamed(text), "exact")
    ELSE Recognized(CountriesMeant(text), "confirmation_required")

\* find_published_cities, anywhere or in a country.
PublishedCities(text, within, published) ==
    {c \in published : NameOf[c] = text /\ CountryOf[c] \in within}

\* CitySuggestionService.suggest: the first published cities of a country.
Suggested(country, published) ==
    LET cities == {c \in published : CountryOf[c] = country} IN
    {c \in cities : Cardinality({d \in cities : Rank[d] < Rank[c]}) < MaxSuggestions}

FirstByCode(countries) ==
    {k \in countries : Cardinality({j \in countries : CodeOrder[j] < CodeOrder[k]}) < MaxProposals}

\* prepare_country: a published city takes precedence over a country, unless another country
\* has its name: then the user is asked which of the first countries is meant.
PrepareCountry(text, published) ==
    LET recognition == Recognize(text, TRUE)
        cities == PublishedCities(text, Countries, published)
        proposals == recognition.matches \cup {CountryOf[c] : c \in cities} IN
    IF recognition.status = "not_recognized" \/ cities = {} THEN recognition
    ELSE IF recognition.status # "confirmation_required" /\ Cardinality(proposals) > 1
         THEN [status |-> "ambiguous", matches |-> FirstByCode(proposals)]
         ELSE [status |-> "not_recognized", matches |-> {}]

\* PendingDestinationSelection: the options of a country, which may still be a guess.
CityChoice(country, published, guess) ==
    [country |-> country, options |-> Suggested(country, published), confirm |-> guess]
==============================================================================
