----------------------------- MODULE GeoIpProofs -----------------------------
(***************************************************************************)
(* For any number of attempts, versions, starts that are cut off and       *)
(* removals that fail: the files never lock the process out of a database, *)
(* and what is served is current unless a start was cut off or the file on *)
(* disk is one that could not be removed.                                  *)
(***************************************************************************)
EXTENDS GeoIpCache, TLAPS

\* A response is being read from the headers to the end of the archive.
Reading == phase \in {"writingEtag", "reading", "unpacking"}

\* Where a start is neither writing the files nor removing them.
Settled == phase \in {"stopped", "checking", "requesting", "mapping", "up"}

\* What is being read is not older than what was published when the start began, and is
\* written down as the etag before the body is read; the attempts of a start count from one.
Progressing ==
    /\ Reading => fetched \in Versions /\ etag # Absent /\ fetched >= newest
    /\ phase \in {"reading", "unpacking"} => etag = fetched
    /\ newest <= published
    /\ phase # "stopped" => attempt \in 1..Attempts

\* A database gets its etag first, and loses it last, unless it cannot be removed: then it
\* is there, until it is removed after all or another one takes its place.
Paired ==
    /\ db # Absent /\ ~stuck => etag # Absent
    /\ phase = "removingEtag" /\ ~stuck => db = Absent
    /\ stuck => db # Absent

\* Without a crash or a database that stays, the files belong together wherever they are not
\* being replaced.
Matching == crashes = 0 /\ ~stuck /\ Settled /\ db # Absent => etag = db

\* A start in which nothing fails can be misled by what is on disk once, at its first
\* attempt.
Recovering ==
    ~failed =>
        /\ phase \in {"removingDb", "removingEtag"} => attempt = 1
        /\ phase = "removingEtag" => db = Absent
        /\ attempt > 1 /\ phase = "checking" => db = Absent
        /\ attempt > 1 /\ phase = "mapping" => db \in Versions
        /\ phase = "up" /\ Attempts > 1 => reader \in Versions

\* Without a crash or a database that stays it maps what is current.
Current ==
    crashes = 0 /\ ~stuck /\ ~failed =>
        /\ phase = "mapping" => db \in Versions /\ db >= newest
        /\ phase = "up" /\ Attempts > 1 => reader >= newest

GeoInv == GeoTypeOK /\ Progressing /\ Paired /\ Matching /\ Recovering /\ Current

-----------------------------------------------------------------------------
\* The first start finds an empty cache.
LEMMA GeoInvInit == GeoInit => GeoInv
<1> SUFFICES ASSUME GeoInit PROVE GeoInv
  OBVIOUS
<1> USE GeoIpConstants DEF GeoInit, Versions, Absent, Partial
<1>1. GeoTypeOK
  <2>1. failed \in BOOLEAN /\ stuck \in BOOLEAN
    OBVIOUS
  <2> QED
    BY <2>1 DEF GeoTypeOK, Phases
<1>2. Progressing /\ Paired
  BY DEF Progressing, Paired, Reading
<1>3. Matching /\ Recovering /\ Current
  BY DEF Matching, Recovering, Current
<1> QED
  BY <1>1, <1>2, <1>3 DEF GeoInv

\* Every step of a start keeps the invariant, a removal that fails and a crash in the middle
\* of it included.
LEMMA GeoInvStep == GeoInv /\ [GeoNext]_geoVars => GeoInv'
<1> SUFFICES ASSUME GeoInv, [GeoNext]_geoVars PROVE GeoInv'
  OBVIOUS
<1> Attempts \in Nat /\ Attempts > 0
  BY GeoIpConstants
<1> USE DEF GeoInv, GeoTypeOK, Progressing, Paired, Matching, Recovering, Current,
            Reading, Settled, Phases, Versions, Absent, Partial, files, startVars
<1>1. CASE Start
  <2>1. failed' \in BOOLEAN
    BY <1>1 DEF Start
  <2> QED
    BY <1>1, <2>1 DEF Start
<1>2. CASE Check
  BY <1>2 DEF Check, ShouldDownload
<1>3. CASE CheckFails
  BY <1>3 DEF CheckFails
<1>4. CASE Respond
  BY <1>4 DEF Respond
<1>5. CASE WriteEtag \/ BeginUnpack
  <2>1. stuck' \in BOOLEAN
    BY <1>5 DEF WriteEtag, BeginUnpack
  <2> QED
    BY <1>5, <2>1 DEF WriteEtag, BeginUnpack
<1>6. CASE Unpack
  BY <1>6 DEF Unpack
<1>7. CASE DownloadFails
  BY <1>7 DEF DownloadFails
<1>8. CASE Map
  BY <1>8 DEF Map
<1>9. CASE MapFails
  BY <1>9 DEF MapFails
<1>10. CASE RemoveDb \/ RemoveDbFails
  <2>1. failed' \in BOOLEAN /\ stuck' \in BOOLEAN
    BY <1>10 DEF RemoveDb, RemoveDbFails
  <2> QED
    BY <1>10, <2>1 DEF RemoveDb, RemoveDbFails
<1>11. CASE RemoveEtag \/ RemoveEtagFails
  <2>1. failed' \in BOOLEAN
    BY <1>11 DEF RemoveEtag, RemoveEtagFails
  <2> QED
    BY <1>11, <2>1 DEF RemoveEtag, RemoveEtagFails, NextAttempt
<1>12. CASE Publish
  BY <1>12 DEF Publish
<1>13. CASE Stop \/ Crash
  <2>1. failed' \in BOOLEAN
    BY <1>13 DEF Stop, Crash, Down
  <2>2. crashes' \in Nat /\ (crashes' = 0 => crashes = 0)
    BY <1>13 DEF Stop, Crash
  <2>3. GeoTypeOK'
    BY <1>13, <2>1, <2>2 DEF Stop, Crash, Down
  <2>4. Progressing' /\ Paired' /\ Matching'
    BY <1>13, <2>2 DEF Stop, Crash, Down
  <2>5. Recovering' /\ Current'
    BY <1>13, <2>2 DEF Stop, Crash, Down
  <2> QED
    BY <2>3, <2>4, <2>5
<1>14. CASE UNCHANGED geoVars
  BY <1>14 DEF geoVars
<1> QED
  BY <1>1, <1>2, <1>3, <1>4, <1>5, <1>6, <1>7, <1>8, <1>9, <1>10, <1>11, <1>12, <1>13, <1>14
     DEF GeoNext, StartStep

\* The invariant of the cache, types included, holds in every reachable state.
THEOREM GeoInvHolds == GeoSpec => []GeoInv
<1> QED
  BY GeoInvInit, GeoInvStep, PTL DEF GeoSpec

\* After any crash and any failure a database on disk has an etag to compare it with, as
\* long as it is not one that could not be removed (geoip.rs:54-71, 187-198).
THEOREM NeverWithoutEtag == GeoSpec => []CachedHasEtag
<1>1. GeoInv => CachedHasEtag
  BY DEF GeoInv, Paired, CachedHasEtag
<1> QED
  BY <1>1, GeoInvHolds, PTL

\* The etag is that of the database, unless a start was cut off or the database could not be
\* removed; whether the etag could be removed does not matter (geoip.rs:54-71, 276-292).
THEOREM EtagMatches == GeoSpec => []EtagIsOfDatabase
<1>1. GeoInv => EtagIsOfDatabase
  BY DEF GeoInv, Matching, Settled, EtagIsOfDatabase
<1> QED
  BY <1>1, GeoInvHolds, PTL

\* A start in which nothing fails ends with a database, whatever it found on disk: files of
\* starts that were cut off, or that could not be removed, included (geoip.rs:44-73).
THEOREM AlwaysRecovers == GeoSpec => []CleanStartLoads
<1>1. GeoInv => CleanStartLoads
  BY DEF GeoInv, Recovering, CleanStartLoads, Versions, Absent
<1> QED
  BY <1>1, GeoInvHolds, PTL

\* And with a current one, unless a start was cut off or the database on disk is one that
\* could not be removed (geoip.rs:54-61, 144).
THEOREM ServesCurrent == GeoSpec => []CurrentUnlessCutOff
<1>1. GeoInv => CurrentUnlessCutOff
  BY DEF GeoInv, Current, CurrentUnlessCutOff, CleanStartIsCurrent
<1> QED
  BY <1>1, GeoInvHolds, PTL
=============================================================================
