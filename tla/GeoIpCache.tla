------------------------------ MODULE GeoIpCache ------------------------------
(***************************************************************************)
(* The GeoIP database that is kept in a file between the starts of the     *)
(* process: a start compares the etag beside the file with the server's,   *)
(* downloads a newer database, and maps what it has.  The etag is written  *)
(* when the headers are there, the database when the body is.  After a     *)
(* failure both files are to be removed, and whether that works or not the *)
(* next of five attempts begins.  The process may die at any point, and    *)
(* may be started again.                                                   *)
(*                                                                         *)
(* A database is known by its version, which its etag stands for; a file   *)
(* that was written in part has none, and cannot be parsed.                *)
(***************************************************************************)
EXTENDS Integers

CONSTANTS
    Attempts,       \* attempts of one start (5)
    MaxVersion,     \* bound: versions the server publishes
    MaxCrashes      \* bound: starts that are cut off

ASSUME GeoIpConstants == {Attempts, MaxVersion, MaxCrashes} \subseteq Nat \ {0}

VARIABLES
    published,      \* the version the server has
    db, etag,       \* the two files
    phase,          \* where the start is
    attempt,        \* the number of the attempt
    fetched,        \* the version of the response being read
    reader,         \* what lookups are answered from
    newest,         \* what was published when the start began
    failed,         \* history: whether anything has failed in this start
    stuck,          \* history: the database on disk is one that could not be removed
    crashes

files == <<db, etag>>
startVars == <<attempt, fetched, reader, newest, failed>>
geoVars == <<published, files, phase, startVars, stuck, crashes>>

Absent == 0
Partial == -1
Versions == Nat \ {0}

Phases == {"stopped", "checking", "requesting", "writingEtag", "reading", "unpacking",
           "mapping", "removingDb", "removingEtag", "up"}

GeoInit ==
    /\ published = 1
    /\ db = Absent /\ etag = Absent
    /\ phase = "stopped"
    /\ attempt = 0 /\ fetched = Absent /\ reader = Absent /\ newest = Absent
    /\ failed = FALSE /\ stuck = FALSE
    /\ crashes = 0

-----------------------------------------------------------------------------
(* One start: try_init *)

Start ==
    /\ phase = "stopped"
    /\ phase' = "checking"
    /\ attempt' = 1
    /\ newest' = published
    /\ failed' = FALSE
    /\ UNCHANGED <<published, files, fetched, reader, stuck, crashes>>

\* Mutant: a database without an etag file is taken for a new one to be fetched only if
\* the server has the version that is on disk.
ShouldDownloadSame == db = Absent \/ (etag # Absent /\ published = etag)

\* should_download_database, with the answer of the server.
ShouldDownload == db = Absent \/ (etag # Absent /\ published # etag)

Check ==
    /\ phase = "checking"
    /\ phase' = IF ShouldDownload THEN "requesting" ELSE "mapping"
    /\ UNCHANGED <<published, files, startVars, stuck, crashes>>

\* Whether there is a database cannot be told, and one is downloaded; or the server does
\* not tell its etag or that of the database cannot be read, and what is there has to do.
CheckFails ==
    /\ phase = "checking"
    /\ db # Absent
    /\ \/ phase' = "requesting"
       \/ etag # Absent /\ phase' = "mapping"
    /\ failed' = TRUE
    /\ UNCHANGED <<published, files, attempt, fetched, reader, newest, stuck, crashes>>

\* The headers are there: the etag of before gives way to an empty file.
Respond ==
    /\ phase = "requesting"
    /\ phase' = "writingEtag"
    /\ fetched' = published
    /\ etag' = Partial
    /\ UNCHANGED <<published, db, attempt, reader, newest, failed, stuck, crashes>>

\* Mutant: the etag is not that of the response, the server is asked for it.
WriteEtagOfServer ==
    /\ phase = "writingEtag"
    /\ phase' = "reading"
    /\ etag' = published
    /\ UNCHANGED <<published, db, startVars, stuck, crashes>>

WriteEtag ==
    /\ phase = "writingEtag"
    /\ phase' = "reading"
    /\ etag' = fetched
    /\ UNCHANGED <<published, db, startVars, stuck, crashes>>

\* The body is there: the file of before gives way to an empty one.
BeginUnpack ==
    /\ phase = "reading"
    /\ phase' = "unpacking"
    /\ db' = Partial
    /\ stuck' = FALSE
    /\ UNCHANGED <<published, etag, startVars, crashes>>

Unpack ==
    /\ phase = "unpacking"
    /\ phase' = "mapping"
    /\ db' = fetched
    /\ UNCHANGED <<published, etag, startVars, stuck, crashes>>

\* The request, the body, the archive or a write is no good.
DownloadFails ==
    /\ phase \in {"requesting", "writingEtag", "reading", "unpacking"}
    /\ phase' = "removingDb"
    /\ failed' = TRUE
    /\ UNCHANGED <<published, files, attempt, fetched, reader, newest, stuck, crashes>>

\* Mutant: a file that is no database ends the attempts.
MapGivesUp ==
    /\ phase = "mapping"
    /\ phase' = "up"
    /\ reader' = IF db \in Versions THEN db ELSE Absent
    /\ UNCHANGED <<published, files, attempt, fetched, newest, failed, stuck, crashes>>

\* The file is mapped and parsed, or is not a database.
Map ==
    /\ phase = "mapping"
    /\ IF db \in Versions
       THEN phase' = "up" /\ reader' = db
       ELSE phase' = "removingDb" /\ UNCHANGED reader
    /\ UNCHANGED <<published, files, attempt, fetched, newest, failed, stuck, crashes>>

\* The file cannot be opened or locked.
MapFails ==
    /\ phase = "mapping"
    /\ phase' = "removingDb"
    /\ failed' = TRUE
    /\ UNCHANGED <<published, files, attempt, fetched, reader, newest, stuck, crashes>>

\* Mutant: only the etag is removed.
RemoveDbKept ==
    /\ phase = "removingDb"
    /\ phase' = "removingEtag"
    /\ UNCHANGED <<published, files, startVars, stuck, crashes>>

RemoveDb ==
    /\ phase = "removingDb"
    /\ phase' = "removingEtag"
    /\ db' = Absent
    /\ stuck' = FALSE
    /\ UNCHANGED <<published, etag, startVars, crashes>>

\* The database stays, which is logged, and the etag is removed all the same.
RemoveDbFails ==
    /\ phase = "removingDb"
    /\ db # Absent
    /\ phase' = "removingEtag"
    /\ failed' = TRUE
    /\ stuck' = TRUE
    /\ UNCHANGED <<published, files, attempt, fetched, reader, newest, crashes>>

\* Mutant: the fifth attempt is followed by another one.
NextAttemptForever ==
    /\ phase' = "checking"
    /\ attempt' = IF attempt < Attempts THEN attempt + 1 ELSE attempt

NextAttempt ==
    IF attempt < Attempts
    THEN phase' = "checking" /\ attempt' = attempt + 1
    ELSE phase' = "up" /\ UNCHANGED attempt

RemoveEtag ==
    /\ phase = "removingEtag"
    /\ etag' = Absent
    /\ NextAttempt
    /\ UNCHANGED <<published, db, fetched, reader, newest, failed, stuck, crashes>>

\* The etag stays, which is logged.
RemoveEtagFails ==
    /\ phase = "removingEtag"
    /\ etag # Absent
    /\ NextAttempt
    /\ failed' = TRUE
    /\ UNCHANGED <<published, files, fetched, reader, newest, stuck, crashes>>

-----------------------------------------------------------------------------
(* The world *)

Publish ==
    /\ published < MaxVersion
    /\ published' = published + 1
    /\ UNCHANGED <<files, phase, startVars, stuck, crashes>>

Down ==
    /\ phase' = "stopped"
    /\ attempt' = 0 /\ fetched' = Absent /\ reader' = Absent /\ newest' = Absent
    /\ failed' = FALSE
    /\ UNCHANGED <<published, files, stuck>>

Stop == phase = "up" /\ Down /\ UNCHANGED crashes

Crash ==
    /\ phase \notin {"stopped", "up"}
    /\ crashes < MaxCrashes
    /\ Down
    /\ crashes' = crashes + 1

-----------------------------------------------------------------------------
StartStep == \/ Check \/ CheckFails \/ Respond \/ WriteEtag \/ BeginUnpack \/ Unpack
             \/ DownloadFails \/ Map \/ MapFails
             \/ RemoveDb \/ RemoveDbFails \/ RemoveEtag \/ RemoveEtagFails

GeoNext == Start \/ StartStep \/ Publish \/ Stop \/ Crash

\* A start that has begun goes on; requests are answered or fail.
GeoSpec == GeoInit /\ [][GeoNext]_geoVars
GeoFairSpec == GeoSpec /\ WF_geoVars(StartStep)

-----------------------------------------------------------------------------
(* Properties *)

\* Every variable has its type.
GeoTypeOK ==
    /\ published \in Versions
    /\ {db, etag} \subseteq Versions \cup {Absent, Partial}
    /\ {fetched, reader, newest} \subseteq Versions \cup {Absent}
    /\ phase \in Phases
    /\ attempt \in 0..Attempts
    /\ failed \in BOOLEAN /\ stuck \in BOOLEAN
    /\ crashes \in Nat

\* A database on disk has an etag to compare it with, after any crash, unless it is one
\* that could not be removed: without one it would be kept for good (geoip.rs:187-198).
\* An etag that cannot be removed does no harm.
CachedHasEtag == db # Absent /\ ~stuck => etag # Absent

\* Between two starts, and while a reader is in use, the etag is that of the database,
\* unless a start was cut off in between or the database could not be removed
\* (geoip.rs:276-292, 203, 54).
EtagIsOfDatabase ==
    crashes = 0 /\ ~stuck /\ phase \in {"stopped", "checking", "up"} /\ db # Absent =>
        etag = db

\* A start in which nothing fails ends with a database, whatever earlier ones have left on
\* disk that were cut off or could not remove it (geoip.rs:53, "remove files so that the
\* download will trigger again").
CleanStartLoads == phase = "up" /\ ~failed /\ Attempts > 1 => reader # Absent

\* And with one that is not older than what was published when it began (geoip.rs:144,
\* "GeoLite2 database up to date").
CleanStartIsCurrent == phase = "up" /\ ~failed /\ Attempts > 1 => reader >= newest
CurrentUnlessCutOff == crashes = 0 /\ ~stuck => CleanStartIsCurrent

\* Every start ends, with a database or without one (geoip.rs:44, 75).
StartEnds == phase = "checking" ~> phase \in {"up", "stopped"}
=============================================================================
