------------------------------- MODULE Config -------------------------------
(***************************************************************************)
(* Configuration: a flag over its environment variable over its default,   *)
(* the rules the assembled configuration must satisfy, and the scenario    *)
(* files a directory holds.  Models internal/config.                       *)
(*                                                                         *)
(* given.flag and given.env map a setting to {} or the value given;        *)
(* given.parses says whether every one of them parses.                     *)
(***************************************************************************)
EXTENDS Ordered

Settings == {"scenario", "scenario-root", "scenario-dir", "providers", "admin-port",
             "max-namespaces", "max-jobs", "journal-capacity", "shutdown-grace", "log-format"}

\* What newFlagSet declares when nothing is given: names is the set's own.
Defaults(names) ==
    [s \in Settings |->
        CASE s = "scenario" -> {"builtin:default"}
          [] s = "providers" -> {names}
          [] s = "admin-port" -> {8080}
          [] s = "max-namespaces" -> {1024}
          [] s = "max-jobs" -> {256}
          [] s = "journal-capacity" -> {1000}
          [] s = "shutdown-grace" -> {5}
          [] s = "log-format" -> {"json"}
          [] OTHER -> {""}]

\* Load's precedence: the environment is read only where no flag was given.
provided(given, s) == given.flag[s] # {} \/ given.env[s] # {}

setting(given, names, s) ==
    CHOOSE v \in (IF given.flag[s] # {} THEN given.flag[s]
                  ELSE IF given.env[s] # {} THEN given.env[s]
                  ELSE Defaults(names)[s]) : TRUE

\* normalizeScenarioSelection: a directory excludes the two settings that name
\* one scenario; otherwise the scenario must be one this build ships or a path.
normalizeScenarioSelection(given, names, builtins) ==
    IF provided(given, "scenario-dir")
    THEN /\ setting(given, names, "scenario-dir") # ""
         /\ ~ provided(given, "scenario") /\ ~ provided(given, "scenario-root")
    ELSE setting(given, names, "scenario") \in builtins \cup {"file"}

\* The highest port there is.
MaxPort == 65535

\* Mutant of validPorts: the admin port is not among the claimed ones.
BugValidPorts(admin, ports, enabled) ==
    \A n, m \in enabled : n # m /\ ports[n] # 0 => ports[n] # ports[m]

\* A port above 0 is claimed once among the listeners this process will bind;
\* a disabled listener claims nothing.
validPorts(admin, ports, enabled) ==
    /\ admin \in 0..MaxPort /\ \A n \in DOMAIN ports : ports[n] \in 0..MaxPort
    /\ \A n \in enabled : ports[n] # 0 =>
         /\ ports[n] # admin
         /\ \A m \in enabled \ {n} : ports[m] # ports[n]

\* validate: the bounds of what is left.
validate(given, names, ports, enabled) ==
    LET Of(s) == setting(given, names, s)
    IN  /\ validPorts(Of("admin-port"), ports, enabled)
        /\ Of("max-namespaces") >= 1 /\ Of("max-jobs") >= 1
        /\ Of("journal-capacity") >= 0 /\ Of("shutdown-grace") >= 0
        /\ Of("log-format") \in {"json", "text"}

\* Load: parsed, then assembled, then validated.
Load(given, names, ports, builtins) ==
    /\ given.parses
    /\ setting(given, names, "providers") \subseteq names
    /\ normalizeScenarioSelection(given, names, builtins)
    /\ validate(given, names, ports, setting(given, names, "providers"))

\* usageExitCode: a probe's caller reads any failure as unhealthy, not misuse.
usageExitCode(given) == IF given.mode = "healthcheck" THEN 1 ELSE 2

-----------------------------------------------------------------------------
(* The scenarios of a directory *)

\* scenarioName: a file that is hidden or has another extension is no scenario.
scenarioName(file) == IF file.hidden \/ ~ file.yaml THEN "" ELSE file.stem

isEntry(file) == scenarioName(file) # "" /\ file.regular

\* ScenarioEntries fails on a file it cannot stat, on two files of one name and
\* on a directory that holds none.  files is the listing in name order.
entriesFail(files) ==
    \/ \E i \in 1..Len(files) : scenarioName(files[i]) # "" /\ ~ files[i].readable
    \/ \E i, j \in 1..Len(files) :
         i # j /\ isEntry(files[i]) /\ isEntry(files[j]) /\ files[i].stem = files[j].stem
    \/ \A i \in 1..Len(files) : ~ isEntry(files[i])

ScenarioEntries(files) == Kept(files, {i \in 1..Len(files) : isEntry(files[i])})

\* The default of a directory: the one called default, or the only one there is.
DefaultScenarioEntry(entries, i) ==
    \/ entries[i].stem = "default"
    \/ Len(entries) = 1
=============================================================================
