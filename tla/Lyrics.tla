--------------------------------- MODULE Lyrics ---------------------------------
(***************************************************************************)
(* The lyrics of the tracks and the verdict on each (lyricsStatus).  The   *)
(* service enriches from LRCLIB and, with a token, Genius; the same code   *)
(* is run from a workstation over the same graph by lyrics-enrich-local,   *)
(* which ignores the staleness window and no guard of the service sees.    *)
(* A run reads its candidates once; each track is looked up and written    *)
(* later, by one query, several at a time.                                 *)
(*                                                                         *)
(* Lyrics are named by the source of their text.                           *)
(***************************************************************************)
EXTENDS Naturals, FiniteSets

CONSTANTS
    Tracks,
    HasGenius,   \* the processes with a GENIUS_TOKEN
    MaxStarts,   \* bound: runs and resets
    None

Sources == {"lrclib", "genius"}
Terminal == {"instrumental", "probable-instrumental"}
Statuses == Terminal \cup {None, "resolved", "low-confidence", "not-found"}
Processes == {"service", "script"}

ASSUME LyricsAssumption ==
    /\ IsFiniteSet(Tracks) /\ HasGenius \subseteq Processes /\ MaxStarts \in Nat
    /\ None \notin Sources \cup Terminal \cup {"resolved", "low-confidence", "not-found"}

VARIABLES
    lyrics,      \* Track.lyrics, by the source of the text
    status,      \* Track.lyricsStatus
    source,      \* Track.lyricsSource
    confidence,  \* Track.lyricsConfidence: at or above the gate, or below
    fetched,     \* the tracks with a lyricsFetchedAt
    voice,       \* Track.voiceInstrumental, which track-acousticbrainz writes
    running,     \* the processes with a run in progress
    todo,        \* per process, the rows of its run it has not settled
    clearing,    \* POST /lyrics/clear-genius is past its guard
    touched,     \* history: tracks another process wrote since the run read them
    raced,       \* history: tracks written by a run that had read them before that
    starts

track == <<lyrics, status, source, confidence, fetched>>
lyricsVars == <<track, voice, running, todo, clearing, touched, raced, starts>>

LyricsInit ==
    /\ lyrics = [t \in Tracks |-> None] /\ status = [t \in Tracks |-> None]
    /\ source = [t \in Tracks |-> None] /\ confidence = [t \in Tracks |-> None]
    /\ fetched = {}
    /\ voice = [t \in Tracks |-> None]
    /\ running = {} /\ todo = [p \in Processes |-> {}]
    /\ clearing = FALSE
    /\ touched = [p \in Processes |-> {}] /\ raced = {}
    /\ starts = 0

-----------------------------------------------------------------------------
(* A stamp within the window hides a track from the service, and from the  *)
(* script none: it sets the window to 0 days.                              *)
Candidates(p, aged) ==
    {t \in Tracks :
        /\ lyrics[t] = None /\ status[t] \notin Terminal
        /\ p = "service" => t \notin fetched \ aged}

Row(t) == [track |-> t, voice |-> voice[t]]

(* POST /lyrics/enrich, the lyrics stage of a reload and of an ingestion,  *)
(* of which the service runs one at a time; or the script.                 *)
StartRun(p) ==
    /\ p \notin running /\ starts < MaxStarts
    /\ starts' = starts + 1
    /\ \E aged \in SUBSET fetched :
        /\ Candidates(p, aged) # {}
        /\ todo' = [todo EXCEPT ![p] = {Row(t) : t \in Candidates(p, aged)}]
    /\ running' = running \cup {p}
    /\ touched' = [touched EXCEPT ![p] = {}]
    /\ UNCHANGED <<track, voice, clearing, raced>>

-----------------------------------------------------------------------------
(* What a source may answer.  The breaker of LRCLIB, when open, reads as   *)
(* no record, that of Genius as no hit; a request that fails throws.       *)
LrclibAnswers == {"no-record", "no-lyrics", "instrumental", "match", "mismatch", "throws"}

(* Genius' first hit: not a song, another artist or a title below the gate *)
(* is no hit, and so is a page without valid lyrics.                       *)
GeniusAnswers(p) ==
    IF p \in HasGenius THEN {"no-hit", "match", "mismatch", "throws"} ELSE {"no-hit"}

(* Scored against the row's title, artist and duration; missing durations  *)
(* and artists count in its favour.                                        *)
IsConfidentMatch(answer) == answer = "match"

GradeMatch(from, answer) ==
    [status |-> IF IsConfidentMatch(answer) THEN "resolved" ELSE "low-confidence", source |-> from]

Verdict(kind) == [status |-> kind, source |-> None]

(* The order of resolve: what LRCLIB has, else the voice signal of the     *)
(* row, else Genius.                                                       *)
ResolveLyrics(row, lrclib, genius) ==
    CASE lrclib \in {"match", "mismatch"} -> GradeMatch("lrclib", lrclib)
      [] lrclib = "instrumental"          -> Verdict("instrumental")
      [] lrclib \in {"no-record", "no-lyrics"} ->
            IF row.voice = "instrumental" THEN Verdict("probable-instrumental")
            ELSE IF genius = "no-hit" THEN Verdict("not-found")
            ELSE GradeMatch("genius", genius)

Throws(row, lrclib, genius) ==
    \/ lrclib = "throws"
    \/ lrclib \in {"no-record", "no-lyrics"} /\ row.voice # "instrumental" /\ genius = "throws"

(* A slip: the source is written with a doubt only.                        *)
SetTrackLyricsUnsourced(t, v) ==
    /\ lyrics' = [lyrics EXCEPT ![t] = v.source]
    /\ status' = [status EXCEPT ![t] = "resolved"]
    /\ source' = [source EXCEPT ![t] = IF @ = None THEN v.source ELSE @]
    /\ confidence' = [confidence EXCEPT ![t] = "high"]

(* setTrackLyrics stores the text, its source and the score.               *)
SetTrackLyrics(t, v) ==
    /\ lyrics' = [lyrics EXCEPT ![t] = v.source]
    /\ status' = [status EXCEPT ![t] = "resolved"]
    /\ source' = [source EXCEPT ![t] = v.source]
    /\ confidence' = [confidence EXCEPT ![t] = "high"]

(* markTrackLowConfidence stores the source and the score, not the text.   *)
MarkLowConfidence(t, v) ==
    /\ status' = [status EXCEPT ![t] = "low-confidence"]
    /\ source' = [source EXCEPT ![t] = v.source]
    /\ confidence' = [confidence EXCEPT ![t] = "low"]
    /\ UNCHANGED lyrics

(* The other verdicts set the status alone.                                *)
SetLyricsStatus(t, v) ==
    /\ status' = [status EXCEPT ![t] = v.status]
    /\ UNCHANGED <<lyrics, source, confidence>>

WriteVerdict(t, v) ==
    /\ fetched' = fetched \cup {t}
    /\ \/ v.status = "resolved" /\ SetTrackLyrics(t, v)
       \/ v.status = "low-confidence" /\ MarkLowConfidence(t, v)
       \/ v.source = None /\ SetLyricsStatus(t, v)

Others(p, t) == [q \in Processes |-> IF q = p THEN touched[q] ELSE touched[q] \cup {t}]

SettleRow(p) ==
    /\ \E row \in todo[p], lrclib \in LrclibAnswers, genius \in GeniusAnswers(p) :
        /\ ~Throws(row, lrclib, genius)
        /\ WriteVerdict(row.track, ResolveLyrics(row, lrclib, genius))
        /\ todo' = [todo EXCEPT ![p] = @ \ {row}]
        /\ touched' = Others(p, row.track)
        /\ raced' = IF row.track \in touched[p] THEN raced \cup {row.track} ELSE raced
    /\ UNCHANGED <<voice, running, clearing, starts>>

(* A track whose lookup or write fails, once the sweep has given it up,    *)
(* stays as it was; and a run ends early on shutdown or death.             *)
Drop(p) ==
    /\ \E row \in todo[p] : todo' = [todo EXCEPT ![p] = @ \ {row}]
    /\ UNCHANGED <<track, voice, running, clearing, touched, raced, starts>>

EndRun(p) ==
    /\ p \in running
    /\ running' = running \ {p}
    /\ todo' = [todo EXCEPT ![p] = {}]
    /\ UNCHANGED <<track, voice, clearing, touched, raced, starts>>

-----------------------------------------------------------------------------
(* POST /lyrics/clear-genius: refused while the service writes, but it     *)
(* holds no flag, so that a run may start before its query is executed.    *)
RequestClear ==
    /\ "service" \notin running /\ ~clearing /\ starts < MaxStarts
    /\ starts' = starts + 1
    /\ clearing' = TRUE
    /\ UNCHANGED <<track, voice, running, todo, touched, raced>>

FromGenius == {t \in Tracks : source[t] = "genius"}

Cleared(f) == [t \in Tracks |-> IF t \in FromGenius THEN None ELSE f[t]]

(* A slip: the status is left.                                             *)
ClearLyricsOnly ==
    /\ clearing /\ clearing' = FALSE
    /\ lyrics' = Cleared(lyrics) /\ source' = Cleared(source)
    /\ confidence' = Cleared(confidence)
    /\ fetched' = fetched \ FromGenius
    /\ touched' = [p \in Processes |-> touched[p] \cup FromGenius]
    /\ UNCHANGED <<status, voice, running, todo, raced, starts>>

ClearGeniusLyrics ==
    /\ clearing /\ clearing' = FALSE
    /\ lyrics' = Cleared(lyrics) /\ status' = Cleared(status)
    /\ source' = Cleared(source) /\ confidence' = Cleared(confidence)
    /\ fetched' = fetched \ FromGenius
    /\ touched' = [p \in Processes |-> touched[p] \cup FromGenius]
    /\ UNCHANGED <<voice, running, todo, raced, starts>>

(* track-acousticbrainz classifies a track, or clears what it had.         *)
Classify ==
    /\ \E t \in Tracks, v \in {None, "voice", "instrumental"} :
        /\ v # voice[t]
        /\ voice' = [voice EXCEPT ![t] = v]
    /\ UNCHANGED <<track, running, todo, clearing, touched, raced, starts>>

LyricsNext ==
    \/ \E p \in Processes : StartRun(p) \/ SettleRow(p) \/ Drop(p) \/ EndRun(p)
    \/ RequestClear \/ ClearGeniusLyrics \/ Classify

LyricsSpec == LyricsInit /\ [][LyricsNext]_lyricsVars
-----------------------------------------------------------------------------
(* A track is resolved exactly when it has lyrics (the funnel of /stats),  *)
(* and what a resolved track says of the source and the score is true of   *)
(* its text, through verdicts that replace each other, runs that die and   *)
(* clears that fall into a run.  The exception is the track a run writes   *)
(* although another process wrote it after the run had read it.            *)
FunnelHolds ==
    \A t \in Tracks \ raced :
        /\ status[t] = "resolved" <=> lyrics[t] # None
        /\ lyrics[t] # None => source[t] = lyrics[t] /\ confidence[t] = "high"

(* Lyrics of LRCLIB are never removed or replaced: clearing what Genius    *)
(* brought must not take them, whatever doubtful match of Genius the track *)
(* carried before.  Same exception.                                        *)
LrclibLyricsKept ==
    [][\A t \in Tracks \ raced' : lyrics[t] = "lrclib" => lyrics'[t] = "lrclib"]_lyricsVars

=============================================================================
