----------------------- MODULE FundamentalsCollector -----------------------
(***************************************************************************)
(* The two collectors of fundamentals, scripts/collect_official_filings.py  *)
(* over research/filings.py and scripts/collect_top_fundamentals.py over    *)
(* research/web_collector.py.  Both replace records of one list,            *)
(* snapshots.json: read, merge, write a temporary file, rename.  Runs of    *)
(* them overlap, and may die at any step.                                   *)
(*                                                                         *)
(* A document is its type and the values it states for two metrics; what    *)
(* the web search answers is one record or an error.  The temporary file    *)
(* has one name; open files behave as in DatasetFiles.                      *)
(***************************************************************************)
EXTENDS Integers, Sequences, SequencesExt

CONSTANTS
  Collectors,   \* script invocations, each at most once
  Listings,     \* what is collected: EXCHANGE:INSTRUMENT
  Manifests,    \* the entries the official collector may be given
  Ranking,      \* rank_liquid_instruments, the web collector's list
  Documents     \* what a source_url may serve: [type, growth, other]

ASSUME ListsAssumption == Manifests \subseteq Seq(Listings) /\ Ranking \in Seq(Listings)
ASSUME DocumentsAssumption ==
  \A d \in Documents : /\ d.type \in {"structured", "pdf", "unsupported"}
                       /\ {d.growth, d.other} \subseteq Seq(Nat)

VARIABLES
  store,       \* snapshots.json
  temp,        \* snapshots.json.tmp
  raw,         \* data/fundamentals/raw, by name
  collector,   \* each run's place and locals
  cutNames     \* history: names whose writing was cut

collectVars == <<store, temp, raw, collector, cutNames>>

NoList == [of |-> "none", records |-> <<>>]
TornList == [of |-> "torn", records |-> <<>>]
Stored(records) == [of |-> "list", records |-> records]
KeysOf(records) == {records[n].key : n \in DOMAIN records}

NoRecord == [source |-> "none"]
Absent == [type |-> "absent"]
Partial == [type |-> "partial"]

-----------------------------------------------------------------------------
(* One document: collect_official_filing, _parse_facts, _reject_conflicts *)

Missing == -1
StatedOnce(values) == IF values = <<>> THEN Missing ELSE Head(values)

\* A structured document that states two values of a metric is refused; of a PDF
\* only the first headline of the growth is read.
Parses(document) ==
  \/ document.type = "pdf"
  \/ /\ document.type = "structured"
     /\ \A values \in {document.growth, document.other} : \A n \in DOMAIN values : values[n] = values[1]

Official(key, document) ==
  [key |-> key, source |-> "official", document |-> document,
   growth |-> StatedOnce(document.growth),
   other |-> IF document.type = "pdf" THEN Missing ELSE StatedOnce(document.other)]

\* collect_snapshot
Researched(key) == [key |-> key, source |-> "web"]

\* Broken variant: archived under the instrument alone.
RawName_ByKey(key, document) == <<key, "filing">>

RawName(key, document) == <<key, document>>

-----------------------------------------------------------------------------
(* The list: write_snapshot, append_snapshot *)

\* Broken variant: the new record is always appended.
Merged_Appending(records, record) == Append(records, record)

Merged(records, record) ==
  IF record.key \in KeysOf(records)
  THEN ReplaceAt(records, SelectInSeq(records, LAMBDA other : other.key = record.key), record)
  ELSE Append(records, record)

-----------------------------------------------------------------------------
(* A run *)

\* place is where the temporary file it has open is by now; alone: no other run
\* was between its read and its rename since this one's read.
NoCollector == [phase |-> "idle", script |-> "none", refresh |-> FALSE, list |-> <<>>,
                completed |-> {}, found |-> {}, record |-> NoRecord, content |-> NoList,
                place |-> "closed", alone |-> TRUE]

WritesList(r) == collector[r].phase \in {"open", "fill", "replace"}
CollectorAt(r, phase) == collector[r].phase = phase
EntryOf(r) == Head(collector[r].list)

CollectorEnds(r, phase) == collector' = [collector EXCEPT ![r] = [NoCollector EXCEPT !.phase = phase]]
\* The exception of one entry is logged, and the next entry follows.
NextEntry(c) == [c EXCEPT !.phase = "next", !.list = Tail(@), !.record = NoRecord,
                          !.content = NoList, !.place = "closed", !.alone = TRUE]

\* Unless it refreshes, the official collector looks into the store first
\* (_existing_keys), and dies of a torn one; found is what a run saw when it
\* looked.
StartCollector(r) ==
  /\ CollectorAt(r, "idle")
  /\ \E script \in {"official", "web"}, refresh \in BOOLEAN :
       \E list \in IF script = "web" THEN {Ranking} ELSE Manifests :
         LET looks == script = "official" /\ ~refresh
             had == IF looks THEN KeysOf(store.records) ELSE {}
         IN IF looks /\ store = TornList
            THEN CollectorEnds(r, "failed")
            ELSE collector' = [collector EXCEPT ![r] =
                   [NoCollector EXCEPT !.phase = "next", !.script = script, !.refresh = refresh,
                      !.list = list, !.found = had, !.completed = had]]
  /\ UNCHANGED <<store, temp, raw, cutNames>>

\* The top of the loop.  The web collector looks into the store here, outside of
\* its try (_snapshot_exists).
TakeEntry(r) ==
  /\ CollectorAt(r, "next")
  /\ LET c == collector[r]
         looks == c.script = "web" /\ ~c.refresh
     IN IF c.list = <<>> THEN CollectorEnds(r, "done")
        ELSE IF looks /\ store = TornList THEN CollectorEnds(r, "failed")
        ELSE IF \/ c.script = "official" /\ EntryOf(r) \in c.completed
                \/ looks /\ EntryOf(r) \in KeysOf(store.records)
        THEN collector' = [collector EXCEPT ![r].list = Tail(@)]
        ELSE collector' = [collector EXCEPT
               ![r].phase = "fetch",
               ![r].found = IF looks THEN KeysOf(store.records) ELSE @]
  /\ UNCHANGED <<store, temp, raw, cutNames>>

\* The fetch, the parser or the checks of the answer may raise.
FetchDocument(r) ==
  /\ CollectorAt(r, "fetch")
  /\ \/ collector' = [collector EXCEPT ![r] = NextEntry(@)]
     \/ /\ collector[r].script = "official"
        /\ \E document \in Documents :
             /\ Parses(document)
             /\ collector' = [collector EXCEPT ![r].phase = "archive",
                                               ![r].record = Official(EntryOf(r), document)]
     \/ /\ collector[r].script = "web"
        /\ collector' = [collector EXCEPT ![r].phase = "read", ![r].record = Researched(EntryOf(r))]
  /\ UNCHANGED <<store, temp, raw, cutNames>>

NameOf(r) == RawName(collector[r].record.key, collector[r].record.document)
Archived(name) == IF name \in DOMAIN raw THEN raw[name] ELSE Absent

\* `if not raw_path.exists()', and the opening of the file.
Archive(r) ==
  /\ CollectorAt(r, "archive")
  /\ IF Archived(NameOf(r)) = Absent
     THEN /\ raw' = [raw EXCEPT ![NameOf(r)] = Partial]
          /\ collector' = [collector EXCEPT ![r].phase = "fill raw"]
     ELSE /\ collector' = [collector EXCEPT ![r].phase = "read"]
          /\ UNCHANGED raw
  /\ UNCHANGED <<store, temp, cutNames>>

\* The body is written, or the write raises and the entry fails.
FillRaw(r) ==
  /\ CollectorAt(r, "fill raw")
  /\ \/ /\ raw' = [raw EXCEPT ![NameOf(r)] = collector[r].record.document]
        /\ collector' = [collector EXCEPT ![r].phase = "read"]
        /\ UNCHANGED cutNames
     \/ /\ cutNames' = cutNames \cup {NameOf(r)}
        /\ collector' = [collector EXCEPT ![r] = NextEntry(@)]
        /\ UNCHANGED raw
  /\ UNCHANGED <<store, temp>>

ReadStore(r) ==
  /\ CollectorAt(r, "read")
  /\ LET others == {q \in Collectors \ {r} : WritesList(q)}
         c == collector[r]
         mine == IF store = TornList THEN NextEntry(c)
                 ELSE [c EXCEPT !.phase = "open", !.alone = (others = {}),
                                !.content = Stored(Merged(store.records, c.record))]
     IN collector' = [q \in Collectors |->
          IF q = r THEN mine
          ELSE IF q \in others THEN [collector[q] EXCEPT !.alone = FALSE] ELSE collector[q]]
  /\ UNCHANGED <<store, temp, raw, cutNames>>

OpenTemp(r) ==
  /\ CollectorAt(r, "open")
  /\ temp' = TornList
  /\ collector' = [collector EXCEPT ![r].phase = "fill", ![r].place = "temp"]
  /\ UNCHANGED <<store, raw, cutNames>>

FillTemp(r) ==
  /\ CollectorAt(r, "fill")
  /\ LET c == collector[r]
     IN /\ temp' = IF c.place = "temp" THEN c.content ELSE temp
        /\ store' = IF c.place = "destination" THEN c.content ELSE store
  /\ collector' = [collector EXCEPT ![r].phase = "replace", ![r].place = "closed"]
  /\ UNCHANGED <<raw, cutNames>>

\* The rename moves the files others have open; without a file it raises.
Rename(r) ==
  /\ CollectorAt(r, "replace")
  /\ LET moved(place) == CASE place = "temp" -> "destination"
                           [] place = "destination" -> "gone"
                           [] OTHER -> place
         mine == NextEntry(IF temp = NoList THEN collector[r]
                           ELSE [collector[r] EXCEPT !.completed = @ \cup {EntryOf(r)}])
     IN collector' = [q \in Collectors |->
          IF q = r THEN mine
          ELSE IF temp = NoList THEN collector[q]
          ELSE [collector[q] EXCEPT !.place = moved(@)]]
  /\ store' = IF temp = NoList THEN store ELSE temp
  /\ temp' = NoList
  /\ UNCHANGED <<raw, cutNames>>

Die(r) ==
  /\ collector[r].phase \notin {"idle", "done", "failed", "dead"}
  /\ cutNames' = IF CollectorAt(r, "fill raw") THEN cutNames \cup {NameOf(r)} ELSE cutNames
  /\ CollectorEnds(r, "dead")
  /\ UNCHANGED <<store, temp, raw>>

NothingCollected ==
  /\ temp = NoList
  /\ raw = [name \in {RawName(key, document) : key \in Listings, document \in Documents} |-> Absent]
  /\ collector = [r \in Collectors |-> NoCollector]
  /\ cutNames = {}

\* A list the web collector wrote, or none.
CollectInit ==
  /\ NothingCollected
  /\ store \in {NoList} \cup {Stored(<<Researched(key)>>) : key \in Listings}

CollectStep ==
  \E r \in Collectors :
    \/ StartCollector(r) \/ TakeEntry(r) \/ FetchDocument(r) \/ Archive(r) \/ FillRaw(r)
    \/ ReadStore(r) \/ OpenTemp(r) \/ FillTemp(r) \/ Rename(r) \/ Die(r)

-----------------------------------------------------------------------------
(* Properties *)

\* A run whose write no other run came between changes one record: the list
\* stays whole, without two records of an instrument (which the loader refuses,
\* portfolio/fundamentals.py), and every other record stays.  Without --refresh
\* it replaces nothing that it saw when it looked: at its start, or, the web
\* collector, before the entry.
KeepsRecords(r) ==
  (CollectorAt(r, "replace") /\ collector[r].alone /\ store' # store) =>
    LET record == collector[r].record
        before == ToSet(store.records)
        after == ToSet(store'.records)
    IN /\ store # TornList /\ store'.of = "list"
       /\ \A n, m \in DOMAIN store'.records :
            store'.records[n].key = store'.records[m].key => n = m
       /\ after = {other \in before : other.key # record.key} \cup {record}
       /\ ~collector[r].refresh => record.key \notin collector[r].found
RecordsAreKept == [][\A r \in Collectors : KeepsRecords(r)]_collectVars

\* "Raw responses are archived", docs/fundamentals-source-policy.md: the document
\* of every official record of the list is in the archive, whole unless its
\* writing was cut or still goes on; and what the record says is stated by it and,
\* but for a PDF, not contradicted by it.
RecordsAreBacked ==
  \A n \in DOMAIN store.records :
    LET record == store.records[n]
        name == RawName(record.key, record.document)
        stated(value, values) == value # Missing => value \in ToSet(values)
    IN record.source = "official" =>
         /\ \/ raw[name] = record.document
            \/ /\ raw[name] = Partial
               /\ \/ name \in cutNames
                  \/ \E r \in Collectors : CollectorAt(r, "fill raw") /\ NameOf(r) = name
         /\ stated(record.growth, record.document.growth)
         /\ stated(record.other, record.document.other)
         /\ record.document.type = "structured" =>
              \A m, k \in DOMAIN record.document.growth :
                record.document.growth[m] = record.document.growth[k]
=============================================================================
