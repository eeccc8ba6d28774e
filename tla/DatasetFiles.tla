---------------------------- MODULE DatasetFiles ----------------------------
(***************************************************************************)
(* One dataset on disk and how it is fetched, checked and replaced: the     *)
(* Kite provider (data/providers/kite.py), validate_bars                    *)
(* (data/validation.py), and the write-then-rename of the dataset and its    *)
(* manifest (data/ingestion.py, data/manifest.py).                          *)
(*                                                                         *)
(* A temporary file has one name, whoever writes it: `path + ".tmp"'.  A    *)
(* second writer that opens it truncates the first one's file, and a rename *)
(* moves the file under the hands of a writer that still has it open, which *)
(* goes on writing at the destination (POSIX; on Windows the rename of an   *)
(* open file raises, and the run ends there).                               *)
(***************************************************************************)
EXTENDS Integers, Sequences, FiniteSets, SequencesExt

CONSTANTS
  Runs,          \* script invocations, each at most once
  Instruments,   \* instruments a token may stand for
  FirstDate,     \* --history-start
  LastDate,      \* bound: the last date a fetch asks for
  MaxSpan        \* _MAX_DAYS_PER_REQUEST of the timeframe

ASSUME DatesAssumption == FirstDate \in Nat /\ LastDate \in Nat /\ FirstDate <= LastDate
ASSUME MaxSpanAssumption == MaxSpan \in Nat \ {0}
\* The marks of a missing and of a torn file are no instruments.
ASSUME InstrumentsAssumption == {"none", "torn"} \cap Instruments = {}

VARIABLES
  files,     \* the destination of each kind of file
  temps,     \* the temporary file of each kind
  handle     \* where the file is that a run has open

fileVars == <<files, temps, handle>>

-----------------------------------------------------------------------------
(* Fetching: historical_bars *)

\* _chunk_date_range: consecutive ranges of at most MaxSpan dates.
Chunks(start, end) ==
  LET count == (end - start) \div MaxSpan + 1
  IN [n \in 1..count |->
        LET first == start + (n - 1) * MaxSpan
        IN [first |-> first,
            last |-> IF first + MaxSpan - 1 < end THEN first + MaxSpan - 1 ELSE end]]

\* The broker's candle of a date, and a candle no market could have made.
Sound(date) == [date |-> date, open |-> 2, high |-> 3, low |-> 1, close |-> 2, volume |-> 1]
Unsound(date) == [Sound(date) EXCEPT !.high = 1]

\* _to_bar: a candle is dated by its start, and known when its day is over.
ToBar(candle) ==
  [date |-> candle.date, open |-> candle.open, high |-> candle.high, low |-> candle.low,
   close |-> candle.close, volume |-> candle.volume, available |-> candle.date + 1]

\* What the broker answers to one request: every date of the range, nothing,
\* its last candle twice, its candles in reverse, or an unsound candle.
Answers(chunk) ==
  LET sound == [n \in 1..chunk.last - chunk.first + 1 |-> Sound(chunk.first + n - 1)]
  IN {sound, <<>>, Append(sound, Last(sound)), Reverse(sound),
      [sound EXCEPT ![1] = Unsound(chunk.first)]}

\* historical_bars: the candles of the chunks, in the order of the requests.
\* The broker answers every request well, except perhaps one.
Fetches(end) ==
  LET chunks == Chunks(FirstDate, end)
      good(chunk) == [n \in 1..chunk.last - chunk.first + 1 |-> Sound(chunk.first + n - 1)]
      candles(odd, answer) ==
        FlattenSeq([n \in DOMAIN chunks |-> IF n = odd THEN answer ELSE good(chunks[n])])
      bars(all) == [n \in DOMAIN all |-> ToBar(all[n])]
  IN UNION {{bars(candles(odd, answer)) : answer \in Answers(chunks[odd])} : odd \in DOMAIN chunks}

-----------------------------------------------------------------------------
(* Validation: validate_bars on the bars of one instrument *)

Issues(bars) ==
  LET bar(n) == bars[n]
      top(n) == IF bars[n].open > bars[n].close THEN bars[n].open ELSE bars[n].close
      bottom(n) == IF bars[n].open < bars[n].close THEN bars[n].open ELSE bars[n].close
      some(code, P(_)) == IF \E n \in DOMAIN bars : P(n) THEN {code} ELSE {}
  IN (IF bars = <<>> THEN {"EMPTY_DATASET"} ELSE {})
     \cup some("DUPLICATE_BAR", LAMBDA n : \E m \in 1..n - 1 : bar(m).date = bar(n).date)
     \cup some("NON_INCREASING_TIME", LAMBDA n : n > 1 /\ bar(n).date <= bar(n - 1).date)
     \cup some("LOOKAHEAD_RISK", LAMBDA n : bar(n).available < bar(n).date)
     \cup some("NON_POSITIVE_PRICE",
               LAMBDA n : \E p \in {bar(n).open, bar(n).high, bar(n).low, bar(n).close} : p <= 0)
     \cup some("INVALID_OHLC", LAMBDA n : bar(n).high < top(n) \/ bar(n).low > bottom(n))
     \cup some("INVALID_RANGE", LAMBDA n : bar(n).high < bar(n).low)
     \cup some("NEGATIVE_VOLUME", LAMBDA n : bar(n).volume < 0)


\* report.is_valid
IsValid(bars) == Issues(bars) = {}

-----------------------------------------------------------------------------
(* Files *)

Kinds == {"data", "manifest"}
\* A dataset, and what a manifest describes with its digest, is the bars of an
\* instrument; NoFile is no file, Torn one whose writing has not ended.
Bar == [date : Int, open : Int, high : Int, low : Int, close : Int, volume : Int, available : Int]
NoFile == [of |-> "none", bars |-> <<>>]
Torn == [of |-> "torn", bars |-> <<>>]
IsContent(c) == c.of \in Instruments /\ \A n \in DOMAIN c.bars : c.bars[n] \in Bar

FilesTypeOK ==
  /\ DOMAIN files = Kinds /\ DOMAIN temps = Kinds
  /\ \A k \in Kinds : \A c \in {files[k], temps[k]} : c \in {NoFile, Torn} \/ IsContent(c)
  /\ handle \in [Runs -> {"closed", "temp", "destination", "gone"}]

\* A dataset the strategies may be run on: no date twice, none out of order,
\* every bar one the market could have made.
IsUsable(c) ==
  /\ IsContent(c)
  /\ c.bars # <<>>
  /\ \A n, m \in DOMAIN c.bars : n < m => c.bars[n].date < c.bars[m].date
  /\ \A n \in DOMAIN c.bars : c.bars[n] = ToBar(Sound(c.bars[n].date))

FilesInit ==
  /\ files = [k \in Kinds |-> NoFile]
  /\ temps = [k \in Kinds |-> NoFile]
  /\ handle = [r \in Runs |-> "closed"]

\* Broken variant: the destination is opened and written in place.
Open_InPlace(r, k) ==
  /\ files' = [files EXCEPT ![k] = Torn]
  /\ handle' = [handle EXCEPT ![r] = "destination"]
  /\ temps' = [temps EXCEPT ![k] = Torn]

\* write_bytes opens the temporary file and truncates it.
Open(r, k) ==
  /\ temps' = [temps EXCEPT ![k] = Torn]
  /\ handle' = [handle EXCEPT ![r] = "temp"]
  /\ UNCHANGED files

\* write_bytes writes the content where the file is by now, and closes it.
Fill(r, k, content) ==
  /\ temps' = IF handle[r] = "temp" THEN [temps EXCEPT ![k] = content] ELSE temps
  /\ files' = IF handle[r] = "destination" THEN [files EXCEPT ![k] = content] ELSE files
  /\ handle' = [handle EXCEPT ![r] = "closed"]

\* temp_path.replace(path): the files other runs have open move along.  others
\* are the runs that have a file of this kind open.
Swap(k, others) ==
  /\ temps[k] # NoFile
  /\ files' = [files EXCEPT ![k] = temps[k]]
  /\ temps' = [temps EXCEPT ![k] = NoFile]
  /\ handle' = [r \in Runs |->
       IF r \in others
       THEN CASE handle[r] = "temp" -> "destination"
              [] handle[r] = "destination" -> "gone"
              [] OTHER -> handle[r]
       ELSE handle[r]]
=============================================================================
