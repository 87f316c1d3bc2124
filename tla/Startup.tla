------------------------------ MODULE Startup -------------------------------
(***************************************************************************)
(* The start of a daemon, src/bin/gearslothd: the configuration of module  *)
(* Configuration, then the controller's module and the databases, then the *)
(* components that the daemon runs (daemon/index.js).  The databases of a  *)
(* composite adapter are opened side by side, and any error, before or     *)
(* while they open, ends the process.                                      *)
(***************************************************************************)
EXTENDS Configuration, FiniteSets

CONSTANTS
  Controllers,  \* the names require() finds a controller module for
  Adapters      \* those it finds a database adapter for

VARIABLES
  opening,    \* the entries of dbopt whose database is being opened
  databases,  \* databases[id]: the entry that goes by this id (composite.js)
  components  \* the components running, in the order they were added

started == <<opening, databases, components>>
vars == <<configVars, started>>

StartupInit ==
  /\ Init /\ opening = {} /\ databases = Nothing /\ components = <<>>

Configuring == ConfigNext /\ UNCHANGED started

-----------------------------------------------------------------------------
(* An adapter that is not a composite opens one database, of no id.  An    *)
(* entry of a composite names one that is not a composite itself.          *)
Entries ==
  IF config.db # "composite" THEN <<[db |-> config.db, db_id |-> "none"]>>
  ELSE IF "dbopt" \in DOMAIN config THEN config.dbopt ELSE <<>>

(* dbconf.db is required; that db_id is missing is not noticed, it is then *)
(* undefined, and null is refused.                                         *)
Id(n) == IF "db_id" \in DOMAIN Entries[n] THEN Entries[n].db_id ELSE "undefined"

EntryOK(n) == "db" \in DOMAIN Entries[n] /\ Entries[n].db \in Adapters /\ Id(n) # "null"

(* resolveController, then initializeDb, which calls itself for each entry *)
(* of a composite.  That no return follows the report of a wrong entry     *)
(* (composite.js:165-167) makes no difference: the callback it reports to  *)
(* is initializeDb's, which throws.                                        *)
Resolves ==
  /\ config.controllername \in Controllers /\ config.db \in Adapters
  /\ Entries # <<>> /\ \A n \in DOMAIN Entries : EntryOK(n)

Resolve ==
  /\ phase = "configured" /\ Resolves
  /\ opening' = DOMAIN Entries /\ phase' = "opening"
  /\ UNCHANGED <<argv, disk, parser, config, databases, components>>

ResolveError ==
  /\ phase = "configured" /\ ~Resolves
  /\ Throw /\ UNCHANGED started

(* A database has been opened.  The entries come in any order, and of two  *)
(* with the same id the later one takes the place of the earlier.          *)
MutantKeyed(id, n) == [i \in {id} |-> n]

Keyed(id, n) == Merge(databases, [i \in {id} |-> n])

Opened(n) ==
  /\ phase = "opening" /\ n \in opening /\ opening' = opening \ {n}
  /\ databases' = Keyed(Id(n), n)
  /\ UNCHANGED <<configVars, components>>

OpenError(n) ==
  /\ phase = "opening" /\ n \in opening
  /\ Throw /\ UNCHANGED started

(* All are open: the daemon adds the components of its modes.              *)
IfOn(m) == IF On(config, m) THEN <<m>> ELSE <<>>

Enabled == IfOn("injector") \o IfOn("runner") \o IfOn("controller") \o IfOn("ejector")

Run ==
  /\ phase = "opening" /\ opening = {}
  /\ components' = Enabled /\ phase' = "running"
  /\ UNCHANGED <<argv, disk, parser, config, opening, databases>>

Exit ==
  /\ phase \in {"failed", "help"} /\ phase' = "exited"
  /\ UNCHANGED <<argv, disk, parser, config, started>>

Next ==
  \/ Configuring \/ Resolve \/ ResolveError
  \/ \E n \in opening : Opened(n) \/ OpenError(n)
  \/ Run \/ Exit

Spec == StartupInit /\ [][Next]_vars

(* One thread, and the opening of a database ends or fails.                *)
FairSpec == Spec /\ WF_vars(Next)
-----------------------------------------------------------------------------
Configured == phase \in {"configured", "opening", "running"}

TypeOK ==
  /\ argv \in Argvs /\ disk \in Disks /\ next \in 1..(Len(argv) + 1)
  /\ help \in BOOLEAN /\ pos \in {0, 1} /\ Len(file) <= 1
  /\ phase \in {"parsing", "parsed", "help", "configured", "opening", "running",
                "failed", "exited"}
  /\ Configured => opening \subseteq DOMAIN Entries

(* What the parts of the daemon rely on: somewhere to connect to, something *)
(* to run, and the name of a database adapter and of a controller.         *)
Usable ==
  Configured =>
    /\ DOMAIN config.servers # {}
    /\ \A n \in DOMAIN config.servers :
         config.servers[n].host # Junk /\ config.servers[n].port \in Ports
    /\ \E m \in Modes : On(config, m)
    /\ config.db \notin {Junk, ""} /\ config.controllername \notin {Junk, ""}

(* What the command line says, found without walking over it: the options  *)
(* are the arguments but for those that are the path of one, so the first, *)
(* and after each option the next but for its paths.                       *)
Letters(l, n) == {x \in DOMAIN argv[n].letters : argv[n].letters[x] = l}

PathsOf(n) == IF "letters" \in DOMAIN argv[n] THEN Cardinality(Letters("f", n)) ELSE 0

After(n) == n + 1 + PathsOf(n)

HasOptions(S) ==
  1 \in S /\ \A n \in S : After(n) <= Len(argv) => After(n) \in S

Options == {n \in 1..Len(argv) : \A S \in SUBSET (1..Len(argv)) : HasOptions(S) => n \in S}

With(field) == {n \in Options : field \in DOMAIN argv[n]}

Last(S) == CHOOSE n \in S : \A o \in S : o <= n

Names(l, flag) ==
  {n \in With("letters") : Letters(l, n) # {}} \cup {n \in With("flag") : argv[n].flag = flag}

LetterOf == [injector |-> "i", runner |-> "r", controller |-> "c", ejector |-> "e"]

OptionModes == {m \in Modes : Names(LetterOf[m], m) # {}}

Paths == With("file") \cup {n \in With("letters") : Letters("f", n) # {}}

Path(n) == IF n \in With("file") THEN argv[n].file ELSE Text(argv[n + PathsOf(n)])

FileSays ==
  IF Paths # {} /\ Path(Last(Paths)) # "" THEN disk[Path(Last(Paths))]
  ELSE IF Usual = {} THEN Nothing
  ELSE disk[ConfPaths[CHOOSE n \in Usual : \A o \in Usual : n <= o]]

JsonSays == IF With("conf") = {} THEN Nothing ELSE argv[Last(With("conf"))].conf

(* "Any configuration options loaded from a configuration file are         *)
(* overridden by options given in --conf command line argument which in    *)
(* turn are overwritten by other command line options" (config/index.js:   *)
(* 29-31).                                                                 *)
Below(f, default) ==
  IF f \in DOMAIN JsonSays THEN JsonSays[f]
  ELSE IF f \in DOMAIN FileSays THEN FileSays[f] ELSE default

Said(f, default) == IF With(f) # {} THEN argv[Last(With(f))][f] ELSE Below(f, default)

(* The daemon is given the modes the options name, else those that --conf  *)
(* and the file turn on, else all of them.                                 *)
ModesAsTold ==
  Configured =>
    {m \in Modes : On(config, m)} =
      IF OptionModes # {} THEN OptionModes
      ELSE IF Modes \cap (DOMAIN JsonSays \cup DOMAIN FileSays) = {} THEN Modes
      ELSE {m \in Modes : Below(m, "false") \in {"true", "'true'"}}

(* And the other settings are those said last by whoever ranks highest,    *)
(* however the options are ordered.                                        *)
Servers == With("servers") \cup With("text")

ServersSaid ==
  IF Servers = {} THEN Below("servers", <<>>)
  ELSE IF Last(Servers) \in With("text") THEN <<HostPort[argv[Last(Servers)].text]>>
  ELSE argv[Last(Servers)].servers

SettingsAsTold ==
  Configured =>
    /\ config.db = Said("db", "sqlite")
    /\ config.controllername = Said("controllername", "retry")
    /\ config.servers = [n \in DOMAIN ServersSaid |-> Merge(DefaultServer, ServersSaid[n])]
    /\ Names("v", "verbose") = {} => config.verbose = Below("verbose", 0)
    /\ Entries # <<>> /\ config.db = "composite" => Entries = Said("dbopt", <<>>)

(* When the components run, each entry of the configuration has its        *)
(* database; only entries of the same id may have to share one.            *)
DatabasesAsTold ==
  phase = "running" =>
    \A n \in DOMAIN Entries :
      /\ Id(n) \in DOMAIN databases
      /\ databases[Id(n)] \in DOMAIN Entries /\ Id(databases[Id(n)]) = Id(n)

(* No step leads back: the start goes on to its next phase, the parser to  *)
(* the next argument or letter, and what is being opened gets less.        *)
Phase ==
  [parsing |-> 0, parsed |-> 1, help |-> 1, configured |-> 2, opening |-> 3, running |-> 4,
   failed |-> 4, exited |-> 5]

Advances ==
  \/ Phase[phase] < Phase[phase']
  \/ /\ phase = "parsing" /\ phase' = "parsing"
     /\ next < next' \/ (next = next' /\ Len(letters') < Len(letters))
  \/ phase = "opening" /\ phase' = "opening" /\ opening' \subseteq opening /\ opening' # opening

AlwaysAdvances == [][Advances]_vars

(* The daemon runs or the process ends, whatever the command line.         *)
Ends == <>(phase \in {"running", "exited"})
=============================================================================
