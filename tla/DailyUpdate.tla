---------------------------- MODULE DailyUpdate ----------------------------
(***************************************************************************)
(* The operator's data scripts on one dataset: run_daily_shadow_update.py    *)
(* (login, check of the token, backup, refresh, replay, reports),           *)
(* fetch_portfolio_universe.py (backup and refresh of each symbol) and      *)
(* fetch_kite_history.py (refresh only), composed with the login            *)
(* (KiteLogin) and the files (DatasetFiles).  Runs of the scripts overlap;   *)
(* a run may die at any step; the broker's token day may end at any moment. *)
(*                                                                         *)
(* The universe script's other symbols have other files and take no part.   *)
(* The replay is ShadowSession's: here it turns the loaded bars into a       *)
(* report about them.                                                       *)
(***************************************************************************)
EXTENDS KiteLogin, DatasetFiles

CONSTANTS
  Scripts,    \* the scripts that may be started
  Wanted,     \* the instrument whose symbol the scripts are given
  Unlisted    \* a token the instrument master does not have

ASSUME ScriptsAssumption == Scripts \subseteq {"daily", "universe", "fetch"}
ASSUME WantedAssumption == Wanted \in Instruments /\ Unlisted \notin Instruments
ASSUME DateBound == LastDate >= FirstDate + MaxDay

VARIABLES
  run,       \* each run's place and locals
  backups,   \* the datasets in _backups
  latest,    \* the date latest.md is about
  lost,      \* history: datasets a backed-up refresh replaced without a backup
  mixed,     \* history: two runs wrote at once, and no run has since alone
  cut        \* history: a run ended between the dataset and its manifest

vars == <<day, session, login, server, early, files, temps, handle,
          run, backups, latest, lost, mixed, cut>>

-----------------------------------------------------------------------------
(* Types *)

WritePhases == {"fill data", "swap data", "write manifest", "swap manifest"}
Ended == {"done", "failed", "crashed"}
Phases == {"idle", "credentials", "login", "verify", "backup", "fetch", "open data",
           "load", "report"} \cup WritePhases \cup Ended

\* issued is the day of the access token in use; stale: another run replaced
\* the dataset since this one's backup; alone: no other run wrote meanwhile.
NoRun == [phase |-> "idle", script |-> "none", token |-> Unlisted, issued |-> 0,
          content |-> NoFile, stale |-> FALSE, alone |-> TRUE]

TypeOK ==
  /\ LoginTypeOK
  /\ FilesTypeOK
  /\ \A r \in Runs :
       /\ run[r].phase \in Phases
       /\ run[r].script \in Scripts \cup {"none"}
       /\ run[r].token \in Instruments \cup {Unlisted}
       /\ run[r].issued \in 0..MaxDay
       /\ run[r].stale \in BOOLEAN /\ run[r].alone \in BOOLEAN
  /\ \A c \in backups \cup lost : IsContent(c)
  /\ mixed \in BOOLEAN /\ cut \in BOOLEAN

Init ==
  /\ LoginInit
  /\ FilesInit
  /\ run = [r \in Runs |-> NoRun]
  /\ backups = {} /\ lost = {}
  /\ latest = 0
  /\ mixed = FALSE /\ cut = FALSE

-----------------------------------------------------------------------------
(* Steps of a run *)

At(r, phase) == run[r].phase = phase
\* A run that ends keeps no locals; its command line is remembered if it was
\* the one that checks nothing.
Goto(r, phase) ==
  run' = [run EXCEPT ![r] =
    IF phase \notin Ended THEN [@ EXCEPT !.phase = phase]
    ELSE IF run[r].script = "fetch"
    THEN [NoRun EXCEPT !.phase = phase, !.script = "fetch", !.token = run[r].token]
    ELSE [NoRun EXCEPT !.phase = phase]]
Writing(r) == run[r].phase \in WritePhases
history == <<lost, mixed, cut>>

\* The command line: a script and its token.  The universe script resolves the
\* token of the symbol itself, from the instrument master.
Start(r) ==
  /\ At(r, "idle")
  /\ \E script \in Scripts, token \in Instruments \cup {Unlisted} :
       /\ script = "universe" => token = Wanted
       /\ run' = [run EXCEPT ![r].phase = "credentials", ![r].script = script, ![r].token = token]
  /\ UNCHANGED <<loginVars, fileVars, backups, latest, history>>

\* What follows the credentials: only the daily script checks its token, and
\* fetch_kite_history.py makes no backup.
AfterCredentials(script) ==
  CASE script = "daily" -> "verify" [] script = "universe" -> "backup" [] script = "fetch" -> "fetch"

\* _resolve_credentials: a fresh session, else the daily script with
\* --auto-login logs in, and the others return 2.  Only one process can bind
\* the callback port: a second login raises.  A token exported to the
\* environment, which the code takes unchecked, would only add runs that fail at
\* their first call.
Resolve(r) ==
  /\ At(r, "credentials")
  /\ \/ /\ Fresh(LoadedSession)
        /\ run' = [run EXCEPT ![r].phase = AfterCredentials(run[r].script),
                              ![r].issued = LoadedSession.issued]
        /\ UNCHANGED loginVars
     \/ /\ ~Fresh(LoadedSession) /\ run[r].script = "daily" /\ login = NoLogin
        /\ Goto(r, "login")
        /\ BeginLogin
     \/ /\ ~Fresh(LoadedSession)
        /\ Goto(r, "failed")
        /\ UNCHANGED loginVars
  /\ UNCHANGED <<fileVars, backups, latest, history>>

\* The server object goes with the call, or with the process.
ForgetLogin ==
  /\ login' = NoLogin
  /\ server' = [NoServer EXCEPT !.count = server.count]
  /\ early' = FALSE

\* authenticate_kite returns its session, or raises.
LoggedIn(r) ==
  /\ At(r, "login")
  /\ login.stage \in {"saved", "failed"}
  /\ IF login.stage = "saved"
     THEN run' = [run EXCEPT ![r].phase = "verify", ![r].issued = login.issued]
     ELSE Goto(r, "failed")
  /\ ForgetLogin
  /\ UNCHANGED <<session, fileVars, backups, latest, history>>

\* A call to the broker with a token of an earlier day raises.
Honoured(r) == run[r].issued = day

\* _verify_instrument_token: the token is on the master, under the symbol.
Matches(token) == token = Wanted

Verify(r) ==
  /\ At(r, "verify")
  /\ Goto(r, IF Honoured(r) /\ Matches(run[r].token) THEN "backup" ELSE "failed")
  /\ UNCHANGED <<loginVars, fileVars, backups, latest, history>>

\* Broken variant: a dataset without its manifest is not copied.
BackedUp_BothOnly(fs) ==
  IF fs["manifest"] = NoFile THEN {} ELSE {fs["data"]} \ {NoFile, Torn}

\* _backup_existing_dataset, _backup_dataset: each file that exists.  What is
\* kept here are the datasets one could go back to; the manifest is copied
\* beside them.
BackedUp(fs) == {fs["data"]} \ {NoFile, Torn}

Backup(r) ==
  /\ At(r, "backup")
  /\ backups' = backups \cup BackedUp(files)
  /\ run' = [run EXCEPT ![r].phase = "fetch", ![r].stale = FALSE]
  /\ UNCHANGED <<loginVars, fileVars, latest, history>>

\* The bars of each fetch that validate_bars lets through, and whether it may
\* refuse some.
ValidFetches == [end \in FirstDate..LastDate |-> {bars \in Fetches(end) : IsValid(bars)}]
MayRefuse == [end \in FirstDate..LastDate |-> ValidFetches[end] # Fetches(end)]

\* historical_bars up to today, then validate_bars: what is not valid raises,
\* before anything is written.
Fetch(r) ==
  /\ At(r, "fetch")
  /\ LET answered == Honoured(r) /\ run[r].token \in Instruments
         end == FirstDate + day
     IN \/ /\ answered
           /\ \E bars \in ValidFetches[end] :
                run' = [run EXCEPT ![r].phase = "open data",
                                   ![r].content = [of |-> run[r].token, bars |-> bars]]
        \/ /\ answered => MayRefuse[end]
           /\ Goto(r, "failed")
  /\ UNCHANGED <<loginVars, fileVars, backups, latest, history>>

\* The first write of the refresh: from here to its manifest's replacement the
\* run writes, alone or with the others that do.
OpenData(r) ==
  /\ At(r, "open data")
  /\ Open(r, "data")
  /\ LET others == {s \in Runs \ {r} : Writing(s)}
     IN run' = [s \in Runs |->
          CASE s = r -> [run[r] EXCEPT !.phase = "fill data", !.alone = (others = {})]
            [] s \in others -> [run[s] EXCEPT !.alone = FALSE]
            [] OTHER -> run[s]]
  /\ UNCHANGED <<loginVars, backups, latest, history>>

\* The dataset is another one now: it is not the one this run has backed up.
Staled(s) == [run[s] EXCEPT !.stale = run[s].phase \in {"fetch", "open data"} \cup WritePhases]

\* Under a run whose file has moved, the dataset itself is written.
FillData(r) ==
  /\ At(r, "fill data")
  /\ Fill(r, "data", run[r].content)
  /\ run' = [s \in Runs |->
       IF s = r THEN [run[r] EXCEPT !.phase = "swap data"]
       ELSE IF handle[r] = "destination" THEN Staled(s) ELSE run[s]]
  /\ UNCHANGED <<loginVars, backups, latest, history>>

\* The dataset is replaced.
SwapData(r) ==
  /\ At(r, "swap data")
  /\ Swap("data", {s \in Runs : At(s, "fill data")})
  /\ run' = [s \in Runs |-> IF s = r THEN [run[r] EXCEPT !.phase = "write manifest", !.stale = FALSE]
                                    ELSE Staled(s)]
  /\ lost' = lost \cup
       (IF run[r].script # "fetch" /\ ~run[r].stale
        THEN {files["data"]} \ ({NoFile, Torn} \cup backups) ELSE {})
  /\ UNCHANGED <<loginVars, backups, latest, mixed, cut>>

\* write_json's temporary file, opened and filled: nobody reads a manifest, so
\* what a torn one would do is left out.
WriteManifest(r) ==
  /\ At(r, "write manifest")
  /\ temps' = [temps EXCEPT !["manifest"] = run[r].content]
  /\ Goto(r, "swap manifest")
  /\ UNCHANGED <<loginVars, files, handle, backups, latest, history>>

\* Broken variant: the manifest is written for a new dataset only.
SwapManifest_FirstOnly(r) ==
  /\ At(r, "swap manifest")
  /\ temps["manifest"] # NoFile
  /\ files' = [files EXCEPT !["manifest"] = IF @ = NoFile THEN temps["manifest"] ELSE @]
  /\ temps' = [temps EXCEPT !["manifest"] = NoFile]
  /\ Goto(r, IF run[r].script = "daily" THEN "load" ELSE "done")
  /\ mixed' = ~run[r].alone
  /\ cut' = (cut /\ ~run[r].alone)
  /\ UNCHANGED <<loginVars, handle, backups, latest, lost>>

\* write_json has replaced the manifest: the refresh is complete.
SwapManifest(r) ==
  /\ At(r, "swap manifest")
  /\ Swap("manifest", {})
  /\ IF run[r].script = "daily"
     THEN run' = [run EXCEPT ![r].phase = "load", ![r].content = NoFile, ![r].alone = TRUE]
     ELSE Goto(r, "done")
  /\ mixed' = ~run[r].alone
  /\ cut' = (cut /\ ~run[r].alone)
  /\ UNCHANGED <<loginVars, backups, latest, lost>>

\* The rename raises FileNotFoundError: another run has taken the temporary
\* file.  No script catches it.
SwapFails(r) ==
  /\ \/ At(r, "swap data") /\ temps["data"] = NoFile
     \/ At(r, "swap manifest") /\ temps["manifest"] = NoFile
  /\ Goto(r, "failed")
  /\ mixed' = TRUE
  /\ cut' = (cut \/ At(r, "swap manifest"))
  /\ UNCHANGED <<loginVars, fileVars, backups, latest, lost>>

\* load_bars_json and the replay: a torn file does not parse.
Load(r) ==
  /\ At(r, "load")
  /\ IF files["data"] = Torn
     THEN Goto(r, "failed")
     ELSE run' = [run EXCEPT ![r].phase = "report", ![r].content = files["data"]]
  /\ UNCHANGED <<loginVars, fileVars, backups, latest, history>>

\* The replay's report, under the date of the last bar and as latest.md.
Report(r) ==
  /\ At(r, "report")
  /\ latest' = Last(run[r].content.bars).date
  /\ Goto(r, "done")
  /\ UNCHANGED <<loginVars, fileVars, backups, history>>

\* The process is killed, or an exception nobody catches ends it, at any step;
\* its login goes with it.
Crash(r) ==
  /\ run[r].phase \notin Ended \cup {"idle"}
  /\ Goto(r, "crashed")
  /\ handle' = [handle EXCEPT ![r] = "closed"]
  /\ IF At(r, "login")
     THEN ForgetLogin
     ELSE UNCHANGED <<login, server, early>>
  /\ mixed' = (mixed \/ (Writing(r) /\ ~run[r].alone))
  /\ cut' = (cut \/ run[r].phase \in {"write manifest", "swap manifest"})
  /\ UNCHANGED <<session, files, temps, backups, latest, lost>>

-----------------------------------------------------------------------------
(* Specification *)

\* ingest_historical_bars
Ingest(r) ==
  \/ Fetch(r) \/ OpenData(r) \/ FillData(r) \/ SwapData(r)
  \/ WriteManifest(r) \/ SwapManifest(r) \/ SwapFails(r)

\* The three main functions.
DailyStep(r) ==
  /\ run[r].script = "daily"
  /\ Resolve(r) \/ LoggedIn(r) \/ Verify(r) \/ Backup(r) \/ Ingest(r) \/ Load(r) \/ Report(r)
UniverseStep(r) == run[r].script = "universe" /\ (Resolve(r) \/ Backup(r) \/ Ingest(r))
FetchStep(r) == run[r].script = "fetch" /\ (Resolve(r) \/ Ingest(r))

RunStep(r) == DailyStep(r) \/ UniverseStep(r) \/ FetchStep(r)

Unmoved == <<fileVars, run, backups, latest, history>>

\* The broker's token day ends, and the exchange has one more date.
Tick ==
  /\ day < MaxDay
  /\ day' = day + 1
  /\ UNCHANGED <<loginVars, Unmoved>>

Login == LoginStep /\ UNCHANGED <<day, Unmoved>>
Browser == BrowserStep /\ UNCHANGED <<day, Unmoved>>

Next ==
  \/ \E r \in Runs : (Start(r) \/ RunStep(r) \/ Crash(r)) /\ UNCHANGED day
  \/ Login \/ Browser \/ Tick

\* A process that lives goes on: each script is one thread whose calls return,
\* and the login's wait has its timeout.  Only webbrowser.open may not return.
\* Nothing is assumed of the operator, the browser, its connections or the
\* calendar.
Fairness ==
  /\ WF_vars(Login /\ login.stage # "browser")
  /\ \A r \in Runs : WF_vars(RunStep(r) /\ UNCHANGED day)

Spec == Init /\ [][Next]_vars /\ Fairness

-----------------------------------------------------------------------------
(* Properties *)

\* What two runs that write at once may leave behind, until one has written
\* alone.
Entangled == mixed \/ \E r \in Runs : Writing(r) /\ ~run[r].alone

\* ingestion.py: "the destination is only ever fully-written content or the
\* prior file".  Whatever dies when, the dataset is one that validate_bars
\* let through, complete - unless two runs shared the temporary file.  And it
\* is of the instrument the symbol names: the daily script's check "must never
\* be able to silently corrupt the dataset again" - unless
\* fetch_kite_history.py, which does not check, was given another token.
IsTrue == Entangled \/ files["data"] = NoFile \/ IsUsable(files["data"])
IsTheWanted ==
  IsContent(files["data"]) /\ files["data"].of # Wanted =>
    \E r \in Runs : run[r].script = "fetch" /\ run[r].token = files["data"].of
DatasetIsSound == IsTrue /\ IsTheWanted

\* A dataset that a daily or universe refresh replaced can be restored from
\* its backup, also when the run before it died between the two files; only
\* one that another run put there after the backup was made cannot.
ReplacedIsBackedUp == lost = {}

\* The manifest describes the dataset beside it, except within a refresh, after
\* one that ended between the two replacements, and after two that wrote at
\* once; the next refresh that writes alone mends it.
ManifestDescribesData ==
  files["manifest"] = files["data"] \/ Entangled \/ cut
    \/ \E r \in Runs : run[r].phase \in {"write manifest", "swap manifest"}

\* The login waits for the command that opens the browser (kite_login.py:186),
\* or its shutdown for an open connection (:196): neither has a timeout.
Blocked(r) ==
  At(r, "login") /\ (login.stage = "browser" \/ (login.stage = "closing" /\ server.held))

\* A run that was started ends, though the browser may never answer, unless it
\* is blocked for ever in one of the login's two waits without a timeout.  The
\* wait for the callback is not among them, nor is any other step of a script.
UpdateEnds ==
  \A r \in Runs : (run[r].phase # "idle") ~> (run[r].phase \in Ended \/ []Blocked(r))
=============================================================================
