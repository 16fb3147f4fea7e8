-------------------------------- MODULE Ledger --------------------------------
(***************************************************************************)
(* What outlives a crawl beside its catalog: the arrival dates in          *)
(* assets.json and firstseen.json, and the crawl history.  The part of     *)
(* fetchAndStoreAssets after the coverage gate (cmd/dataservice/main.go),  *)
(* with the files of internal/storage read and written one at a time, and  *)
(* the webserver's /stats page, which reads the history and may move it    *)
(* aside.  The index, published before any of this, is module Publisher's. *)
(*                                                                         *)
(* Dates are the numbers of the crawls that gave them; 0 is stock older    *)
(* than the feature.                                                       *)
(***************************************************************************)
EXTENDS Naturals, Sequences, FiniteSets, Functions, SequencesExt

CONSTANTS
    Assets,       \* game ids
    OldStock,     \* those listed when the feature came, without dates
    ForgetAfter,  \* firstSeenForgetAfter (6 in the code)
    MaxHistory,   \* maxHistoryEntries (104 in the code)
    MaxCrawls,    \* bound: crawls that pass the coverage gate
    MaxFaults     \* bound: writes lost, files damaged or unreadable

ASSUME LedgerBounds ==
    /\ IsFiniteSet(Assets) /\ OldStock \subseteq Assets
    /\ {ForgetAfter, MaxHistory} \subseteq Nat \ {0}
    /\ {MaxCrawls, MaxFaults} \subseteq Nat

VARIABLES
    assets,     \* assets.json: the FirstSeen of every listed id
    firstSeen,  \* firstseen.json: a file of [first, missed] records
    history,    \* history.json: a file of crawl records
    pc,         \* the crawl's next step
    crawl,      \* its number, by which it dates newcomers
    current,    \* the ids it found, with their dates once stamped
    previous,   \* the assets.json it read
    merged,     \* the map it will store
    web,        \* the /stats request: "idle", or about to move a file aside
    faults,
    \* What happened, for the properties:
    publishes,  \* how many crawls have stored their assets
    date,       \* the date each id was last listed with
    away,       \* how many publishes in a row have missed it since
    blind,      \* the publishes whose crawl could not read the last one
    lost,       \* the publishes whose record was not written
    since       \* the last one due when the history was last damaged or moved

files == <<assets, firstSeen, history>>
locals == <<crawl, current, previous, merged>>
memory == <<publishes, date, away, blind, lost, since>>
vars == <<files, pc, locals, web, faults, memory>>

\* A JSON file: missing, good with its contents, or not parseable.
File(contents) == [state |-> "good", is |-> contents]
NoFile == [state |-> "missing", is |-> <<>>]
BadFile == [state |-> "corrupt", is |-> <<>>]

Never == MaxCrawls + 1
NoMap == <<>>

Init ==
    /\ assets = [a \in OldStock |-> 0]
    /\ firstSeen = NoFile /\ history = NoFile
    /\ pc = "idle"
    /\ crawl = 0 /\ current = NoMap /\ previous = NoMap /\ merged = NoMap
    /\ web = "idle" /\ faults = 0
    /\ publishes = 0
    /\ date = [a \in Assets |-> IF a \in OldStock THEN 0 ELSE Never]
    /\ away = [a \in Assets |-> 0]
    /\ blind = {} /\ lost = {} /\ since = 0

Fault == faults < MaxFaults /\ faults' = faults + 1

\* The last publish whose record is due.
Due == IF pc \in {"map", "history"} THEN publishes - 1 ELSE publishes
-----------------------------------------------------------------------------
(* stampFirstSeen, as functions of id.                                     *)

\* What is remembered: the map, completed from the last publish.
Remembered(known, prev) ==
    [a \in DOMAIN known \cup DOMAIN prev |->
        IF a \in DOMAIN known THEN known[a] ELSE [first |-> prev[a], missed |-> 0]]

Stamped(known, prev, found, now) ==
    LET rec == Remembered(known, prev)
    IN  [a \in found |-> IF a \in DOMAIN rec THEN rec[a].first ELSE now]

\* Mutant: an id the crawl missed is forgotten at once.
MergedOfFound(known, prev, found, now) ==
    [a \in found |-> [first |-> Stamped(known, prev, found, now)[a], missed |-> 0]]

\* The map to store: ids the crawl missed stay until they have been missed
\* ForgetAfter times in a row.
Merged(known, prev, found, now) ==
    LET rec == Remembered(known, prev)
        kept == {a \in DOMAIN rec \ found : rec[a].missed + 1 < ForgetAfter}
    IN  [a \in found \cup kept |->
            IF a \in found
              THEN [first |-> Stamped(known, prev, found, now)[a], missed |-> 0]
              ELSE [rec[a] EXCEPT !.missed = @ + 1]]
-----------------------------------------------------------------------------
(* A crawl that has passed the coverage gate.                              *)

\* GetAssets; an error leaves nothing to compare with.
ReadPrevious ==
    /\ pc = "idle" /\ crawl < MaxCrawls
    /\ crawl' = crawl + 1
    /\ \E found \in SUBSET Assets \ {{}} : current' = [a \in found |-> Never]
    /\ \/ previous' = assets /\ blind' = blind \ {publishes + 1} /\ UNCHANGED faults
       \/ previous' = NoMap /\ blind' = blind \cup {publishes + 1} /\ Fault
    /\ pc' = "stamp"
    /\ UNCHANGED <<files, merged, web, publishes, date, away, lost, since>>

\* GetFirstSeen and stampFirstSeen.  What is there and does not parse, or
\* cannot be read, is moved aside, if that works.
Stamp ==
    /\ pc = "stamp"
    /\ \E known \in {firstSeen.is, NoMap} :
          /\ current' = Stamped(known, previous, DOMAIN current, crawl)
          /\ merged' = Merged(known, previous, DOMAIN current, crawl)
          /\ \/ known = firstSeen.is /\ firstSeen.state # "corrupt" /\ UNCHANGED <<firstSeen, faults>>
             \/ known = NoMap /\ firstSeen.state = "corrupt"
                /\ firstSeen' \in {NoFile, firstSeen} /\ UNCHANGED faults
             \/ known = NoMap /\ firstSeen.state = "good"
                /\ firstSeen' \in {NoFile, firstSeen} /\ Fault
    /\ pc' = "assets"
    /\ UNCHANGED <<assets, history, crawl, previous, web, memory>>

\* PutAssets, once the index is published.
PutAssets ==
    /\ pc = "assets"
    /\ assets' = current
    /\ publishes' = publishes + 1
    /\ date' = [a \in Assets |-> IF a \in DOMAIN current THEN current[a] ELSE date[a]]
    /\ away' = [a \in Assets |-> IF a \in DOMAIN current THEN 0 ELSE away[a] + 1]
    /\ pc' = "map"
    /\ UNCHANGED <<firstSeen, history, locals, web, faults, blind, lost, since>>

\* PutFirstSeen, whose failure does not fail the publish.
PutFirstSeen ==
    /\ pc = "map"
    /\ \/ firstSeen' = File(merged) /\ UNCHANGED faults
       \/ Fault /\ UNCHANGED firstSeen
    /\ pc' = "history"
    /\ UNCHANGED <<assets, history, locals, web, memory>>

Record(before, now) ==
    [nth |-> publishes, indexed |-> Cardinality(now),
     new |-> Cardinality(now \ before), removed |-> Cardinality(before \ now)]

Trim(s) == IF Len(s) > MaxHistory THEN SubSeq(s, Len(s) - MaxHistory + 1, Len(s)) ELSE s

\* Mutant: a history that does not parse stays, and is added to nevermore.
PutHistoryOnlyIfRead(entry) ==
    \/ /\ history' = IF history.state = "corrupt" THEN history
                      ELSE File(Trim(Append(history.is, entry)))
       /\ UNCHANGED <<faults, lost, since>>
    \/ history.state = "good" /\ history' = File(<<entry>>) /\ since' = Due /\ Fault /\ UNCHANGED lost
    \/ history.state # "missing" /\ history' = NoFile /\ since' = Due /\ Fault /\ lost' = lost \cup {publishes}
    \/ UNCHANGED <<history, since>> /\ Fault /\ lost' = lost \cup {publishes}

\* PutHistory: GetHistory, which moves what does not parse or cannot be read
\* aside, and the write, of which either may fail.
PutHistory(entry) ==
    \/ /\ history' = File(Trim(Append(history.is, entry)))
       /\ UNCHANGED <<faults, lost, since>>
    \/ history.state = "good" /\ history' = File(<<entry>>) /\ since' = Due /\ Fault /\ UNCHANGED lost
    \/ history.state # "missing" /\ history' = NoFile /\ since' = Due /\ Fault /\ lost' = lost \cup {publishes}
    \/ UNCHANGED <<history, since>> /\ Fault /\ lost' = lost \cup {publishes}

\* Mutant: compared with the assets.json that is there by now.
RecordAgainstStored ==
    /\ pc = "history"
    /\ PutHistory(Record(DOMAIN assets, DOMAIN current))
    /\ pc' = "idle"
    /\ UNCHANGED <<assets, firstSeen, locals, web, publishes, date, away, blind>>

\* What the crawl read as the last publish's list is what it compares with.
RecordCrawlCompletion ==
    /\ pc = "history"
    /\ PutHistory(Record(DOMAIN previous, DOMAIN current))
    /\ pc' = "idle"
    /\ UNCHANGED <<assets, firstSeen, locals, web, publishes, date, away, blind>>

\* The index cannot be built or published, PutAssets fails, or the process
\* dies; once the assets are stored that costs a write.
GiveUp ==
    /\ pc # "idle"
    /\ IF pc \in {"map", "history"}
         THEN Fault /\ lost' = lost \cup {publishes}
         ELSE UNCHANGED <<faults, lost>>
    /\ pc' = "idle"
    /\ UNCHANGED <<files, locals, web, publishes, date, away, blind, since>>
-----------------------------------------------------------------------------
(* Around it.                                                              *)

Damage ==
    /\ Fault
    /\ \/ firstSeen.state = "good" /\ firstSeen' = BadFile /\ UNCHANGED <<history, since>>
       \/ history.state = "good" /\ history' = BadFile /\ since' = Due /\ UNCHANGED firstSeen
    /\ UNCHANGED <<assets, pc, locals, web, publishes, date, away, blind, lost>>

\* GetHistory for /stats: it read a file that does not parse,
WebReads ==
    /\ web = "idle" /\ history.state = "corrupt"
    /\ web' = "aside"
    /\ UNCHANGED <<files, pc, locals, faults, memory>>

\* and moves aside what is there now, which may be a later file.
WebMovesAside ==
    /\ web = "aside"
    /\ \/ history' = NoFile /\ since' = Due
       \/ UNCHANGED <<history, since>>
    /\ web' = "idle"
    /\ UNCHANGED <<assets, firstSeen, pc, locals, faults, publishes, date, away, blind, lost>>

Next ==
    \/ ReadPrevious \/ Stamp \/ PutAssets \/ PutFirstSeen \/ RecordCrawlCompletion
    \/ GiveUp \/ Damage \/ WebReads \/ WebMovesAside

Spec == Init /\ [][Next]_vars
-----------------------------------------------------------------------------
(* Properties.                                                             *)

\* The comment of firstSeenForgetAfter and stampFirstSeen: an asset listed by
\* two publishes in a row keeps its date, whichever one write is lost or file
\* damaged; without faults, so does one that was missed less than ForgetAfter
\* times in a row, and one missed as often or never listed is a newcomer.
\* Stock older than the feature is never taken for new.
DatesKept ==
    [][pc = "assets" /\ pc' = "map" =>
         \A a \in DOMAIN assets' :
             /\ a \in DOMAIN assets /\ faults <= 1 /\ (publishes > 0 \/ previous = assets) =>
                  assets'[a] = assets[a]
             /\ faults = 0 =>
                  assets'[a] = IF date[a] # Never /\ away[a] < ForgetAfter THEN date[a] ELSE crawl]_vars

\* The history adds up, whatever is lost on the way: it holds every publish that
\* should be in it - one of the last MaxHistory, later than the last damage to
\* the file, and not one whose own record could not be written - in order; and
\* the entries of two consecutive publishes differ by what the later one says is
\* new and gone, unless its crawl could not read what it compares with.
HistoryAddsUp ==
    LET s == history.is
    IN  /\ Len(s) <= MaxHistory
        /\ \A i, j \in DOMAIN s : i < j => s[i].nth < s[j].nth
        /\ \A n \in since + 1..Due :
              n + MaxHistory > Due /\ n \notin lost => \E i \in DOMAIN s : s[i].nth = n
        /\ \A i \in DOMAIN s \ {1} :
              s[i].nth = s[i - 1].nth + 1 /\ s[i].nth \notin blind =>
                  s[i].indexed + s[i].removed = s[i - 1].indexed + s[i].new
==============================================================================
