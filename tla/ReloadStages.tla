---------------------------- MODULE ReloadStages ----------------------------
(***************************************************************************)
(* The stages of the orchestrated reload: the registry of enrichment       *)
(* stages (ingestion/stage-definitions.ts) and the list RELOAD_STAGES      *)
(* derived from it (ingestion/stages.ts).  Of a definition this keeps what *)
(* decides when it runs: its deps, its lanes, and the client it requires   *)
(* (without which it is skipped).                                          *)
(***************************************************************************)
EXTENDS Naturals, Sequences, FiniteSets, Functions, SequencesExt

NoClient == "none"

Definition(name, deps, resources, requires) ==
    [name |-> name, deps |-> deps, resources |-> resources, requires |-> requires]

(* STAGE_DEFINITIONS, in the registry's order. *)
Lyrics == Definition("lyrics", {"releases"}, {}, NoClient)
Nationality ==
    Definition("nationality", {"releases", "mb-artist-id", "track-recording-artists"},
               {"discogs", "musicbrainz", "wikidata"}, "musicbrainz")
MasterData == Definition("master-data", {"releases"}, {"discogs"}, "discogs")
MbReleaseEvents ==
    Definition("mb-release-events", {"master-data"}, {"musicbrainz"}, "musicbrainz")
TrackMusicBrainz ==
    Definition("track-musicbrainz", {"releases"}, {"musicbrainz", "track"}, "musicbrainz")
TrackWorks ==
    Definition("track-works", {"track-musicbrainz"}, {"musicbrainz", "track"}, "musicbrainz")
TrackRecordingArtists ==
    Definition("track-recording-artists", {"track-musicbrainz", "mb-artist-id"},
               {"musicbrainz", "track"}, "musicbrainz")
TrackRecordingPlaces ==
    Definition("track-recording-places", {"track-musicbrainz"},
               {"musicbrainz", "track"}, "musicbrainz")
TrackRecordingLineage ==
    Definition("track-recording-lineage", {"track-musicbrainz"},
               {"musicbrainz", "track"}, "musicbrainz")
TrackAcousticBrainz ==
    Definition("track-acousticbrainz", {"track-musicbrainz"}, {"track"}, NoClient)
TrackDeezer == Definition("track-deezer", {"track-musicbrainz"}, {"track"}, NoClient)
ArtistProfiles == Definition("artist-profiles", {"releases"}, {"discogs"}, "discogs")
ArtistGenres == Definition("artist-genres", {"releases"}, {}, NoClient)
LabelHierarchy == Definition("label-hierarchy", {"releases"}, {"discogs"}, "discogs")
GroupMembers == Definition("group-members", {"releases"}, {"discogs"}, "discogs")
(* A slip: a dual-axis writer that only waits for the releases. *)
PersonReconciliationEarly ==
    Definition("person-reconciliation", {"releases"}, {}, NoClient)

PersonReconciliation ==
    Definition("person-reconciliation", {"artist-genres", "group-members"}, {}, NoClient)
MbArtistId == Definition("mb-artist-id", {"releases"}, {"musicbrainz"}, "musicbrainz")
SongwriterReconciliation ==
    Definition("songwriter-reconciliation",
               {"track-works", "mb-artist-id", "person-reconciliation",
                "nationality", "artist-wikidata"}, {}, NoClient)
ArtistWikidata ==
    Definition("artist-wikidata", {"releases"}, {"wikidata", "discogs"}, "wikidata")
ArtistInfluences == Definition("artist-influences", {"artist-wikidata"}, {}, NoClient)
BandMembership == Definition("band-membership", {"artist-wikidata"}, {}, NoClient)

STAGE_DEFINITIONS ==
    << Lyrics, Nationality, MasterData, MbReleaseEvents, TrackMusicBrainz, TrackWorks,
       TrackRecordingArtists, TrackRecordingPlaces, TrackRecordingLineage,
       TrackAcousticBrainz, TrackDeezer, ArtistProfiles, ArtistGenres, LabelHierarchy,
       GroupMembers, PersonReconciliation, MbArtistId, SongwriterReconciliation,
       ArtistWikidata, ArtistInfluences, BandMembership >>

RELOAD_ORDER ==
    << "master-data", "artist-profiles", "artist-genres", "label-hierarchy",
       "group-members", "person-reconciliation", "track-musicbrainz", "track-works",
       "mb-release-events", "lyrics", "track-acousticbrainz", "track-deezer",
       "mb-artist-id", "track-recording-artists", "track-recording-places",
       "track-recording-lineage", "nationality", "artist-wikidata",
       "artist-influences", "band-membership", "songwriter-reconciliation" >>

STAGE_DEFINITION_BY_NAME ==
    [n \in {d.name : d \in Range(STAGE_DEFINITIONS)} |->
        CHOOSE d \in Range(STAGE_DEFINITIONS) : d.name = n]

RELEASES_DESCRIPTOR == Definition("releases", {}, {"discogs"}, "discogs")

RELOAD_STAGES_BEFORE_VERIFY ==
    <<RELEASES_DESCRIPTOR>> \o
    [i \in DOMAIN RELOAD_ORDER |-> STAGE_DEFINITION_BY_NAME[RELOAD_ORDER[i]]]

VERIFY_DESCRIPTOR ==
    Definition("verify", {s.name : s \in Range(RELOAD_STAGES_BEFORE_VERIFY)}, {}, NoClient)

RELOAD_STAGES == Append(RELOAD_STAGES_BEFORE_VERIFY, VERIFY_DESCRIPTOR)

(* toStageDescriptor and RELEASES_DESCRIPTOR.run: the stages that return   *)
(* null, hence are skipped, when only these clients are configured.        *)
SkippedStages(clients) ==
    {s.name : s \in {r \in Range(RELOAD_STAGES) : r.requires \notin clients \cup {NoClient}}}

=============================================================================
