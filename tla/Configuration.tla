--------------------------- MODULE Configuration ----------------------------
(***************************************************************************)
(* From the command line to a configuration: src/lib/config, run once when *)
(* gearslothd starts.  The parser walks over the arguments, and what they  *)
(* say is merged over what --conf and the configuration file say, and that *)
(* over the defaults.                                                      *)
(*                                                                         *)
(* A configuration, whole or partial, is a function from the fields it     *)
(* has.  A mode in it is a JSON token, "true" and "'true'" being the       *)
(* boolean and the string; a number also stands for the strings that parse *)
(* to it and NaN for what parses to none; an invalid value is Junk.  A     *)
(* lone server is the list of it.  JSON text that does not parse is refused *)
(* where it is read, as is a configuration with an invalid field, and has  *)
(* no representation of its own.                                           *)
(***************************************************************************)
EXTENDS Integers, Sequences

CONSTANTS
  Argvs,     \* the command lines
  HostPort,  \* the server that each text of the form hostname:port names
  Disks,     \* what the file system can hold: configurations by path
  ConfPaths, \* where a configuration file is looked for, in this order
  FuncName,  \* the function name made of each controller name
  Junk, NaN  \* see above

Kinds == {"letters", "flag", "text", "file", "db", "dbopt", "controllername", "servers",
          "conf", "unknown"}

Modes == {"injector", "runner", "controller", "ejector"}

(* An argument is of one kind, and one of short options is their letters.  *)
(* A flag that is not a mode, verbose or help, and --db= with nothing      *)
(* after it, are of the kind "unknown".                                    *)
ASSUME ArgvsAssumption ==
  \A a \in Argvs :
    /\ Len(a) \in Nat
    /\ \A n \in 1..Len(a) :
         /\ \E kind \in Kinds : DOMAIN a[n] = {kind}
         /\ "letters" \in DOMAIN a[n] => a[n].letters \in Seq(STRING)
ASSUME JunkAssumption == Junk \notin {"sqlite", "retry"}

ModeTokens == {"true", "'true'", "false", "'false'"}

VARIABLES
  argv,     \* the command line
  disk,     \* the file system
  next,     \* the next argument
  letters,  \* what is left of an argument of short options
  help,     \* whether help was asked for
  file,     \* <<path>> once a configuration file is named
  pos,      \* positional arguments so far
  conf,     \* what the options say
  jsonconf, \* what --conf says
  phase,    \* how far the start has come
  config    \* the configuration, once complete

parser == <<next, letters, help, file, pos, conf, jsonconf>>
configVars == <<argv, disk, parser, phase, config>>

-----------------------------------------------------------------------------
(* merge.js: the fields of both, those of d before those of c.             *)
Merge(c, d) == [f \in DOMAIN c \cup DOMAIN d |-> IF f \in DOMAIN d THEN d[f] ELSE c[f]]

Nothing == [f \in {} |-> Junk]

DefaultServer == [host |-> "localhost", port |-> 4730]
Defaults == [verbose |-> 0, db |-> "sqlite", controllername |-> "retry"]

(* validate.js *)
Ports == 1..65535

ServerOK(s) ==
  /\ DOMAIN s # {}
  /\ Merge(DefaultServer, s).host # Junk
  /\ Merge(DefaultServer, s).port \in Ports

MutantServersOK(servers) == \A n \in DOMAIN servers : ServerOK(servers[n])

ServersOK(servers) == DOMAIN servers # {} /\ \A n \in DOMAIN servers : ServerOK(servers[n])

ConfOK(c) ==
  /\ \A m \in Modes \cap DOMAIN c : c[m] \in ModeTokens
  /\ \A f \in {"db", "controllername"} \cap DOMAIN c : c[f] \notin {Junk, ""}
  /\ "servers" \in DOMAIN c => ServersOK(c.servers)
  /\ "verbose" \in DOMAIN c => c.verbose \in Nat \cup {NaN}

Bool(token) == IF token \in {"true", "'true'"} THEN "true" ELSE "false"

Clean(c) ==
  [f \in DOMAIN c |->
     IF f \in Modes THEN Bool(c[f])
     ELSE IF f = "servers" THEN [n \in DOMAIN c[f] |-> Merge(DefaultServer, c[f][n])]
     ELSE c[f]]

(* If the options name a mode the others are off, whoever else names them. *)
MutantExplicit(c) == c

Explicit(c) ==
  IF Modes \cap DOMAIN c = {} THEN c ELSE Merge([m \in Modes |-> "false"], c)

(* mergeDefaults; it has no servers of its own to add.                     *)
WithDefaults(c) ==
  Merge(Merge(Defaults, c),
        IF Modes \cap DOMAIN c = {} THEN [m \in Modes |-> "true"] ELSE Nothing)

WithFuncName(c) ==
  Merge([controllerfuncname |-> FuncName[c.controllername]], c)

On(c, m) == m \in DOMAIN c /\ c[m] = "true"

Complete(c) == "servers" \in DOMAIN c /\ \E m \in Modes : On(WithDefaults(c), m)

-----------------------------------------------------------------------------
Init ==
  /\ argv \in Argvs /\ disk \in Disks
  /\ next = 1 /\ letters = <<>> /\ help = FALSE /\ file = <<>> /\ pos = 0
  /\ conf = Nothing /\ jsonconf = Nothing
  /\ phase = "parsing" /\ config = Nothing

Parsing == phase = "parsing"
InLetters == Parsing /\ letters # <<>>
AtArgument(option) ==
  Parsing /\ letters = <<>> /\ next <= Len(argv) /\ option \in DOMAIN argv[next]

(* Any error ends the process.                                             *)
MutantThrow == UNCHANGED configVars

Throw == phase' = "failed" /\ UNCHANGED <<argv, disk, parser, config>>

Sets(c) ==
  /\ conf' = Merge(conf, c)
  /\ UNCHANGED <<argv, disk, help, file, pos, jsonconf, phase, config>>

Verbose == IF "verbose" \in DOMAIN conf THEN conf.verbose + 1 ELSE 1

(* One letter of an argument like -rv.  -h also sets the injector.         *)
Letter ==
  /\ InLetters /\ letters' = Tail(letters) /\ UNCHANGED next
  /\ \/ Head(letters) = "i" /\ Sets([injector |-> "true"])
     \/ Head(letters) = "r" /\ Sets([runner |-> "true"])
     \/ Head(letters) = "c" /\ Sets([controller |-> "true"])
     \/ Head(letters) = "e" /\ Sets([ejector |-> "true"])
     \/ Head(letters) = "v" /\ Sets([verbose |-> Verbose])
     \/ /\ Head(letters) = "h" /\ help' = TRUE
        /\ conf' = Merge(conf, [injector |-> "true"])
        /\ UNCHANGED <<argv, disk, file, pos, jsonconf, phase, config>>

(* -f takes the next argument for a path, whatever it is.                  *)
Text(argument) == IF "text" \in DOMAIN argument THEN argument.text ELSE "option"

MutantAfterPath == next + 2

AfterPath == next + 1

FileLetter ==
  /\ InLetters /\ Head(letters) = "f" /\ next <= Len(argv)
  /\ letters' = Tail(letters) /\ next' = AfterPath /\ file' = <<Text(argv[next])>>
  /\ UNCHANGED <<argv, disk, help, pos, conf, jsonconf, phase, config>>

LetterError ==
  /\ InLetters
  /\ \/ Head(letters) \notin {"h", "i", "r", "c", "e", "v", "f"}
     \/ Head(letters) = "f" /\ next > Len(argv)
  /\ Throw

ShortOptions ==
  /\ AtArgument("letters") /\ next' = next + 1
  /\ letters' = argv[next].letters
  /\ UNCHANGED <<argv, disk, help, file, pos, conf, jsonconf, phase, config>>

(* The long options, each with its value.                                  *)
MutantTaken == UNCHANGED <<next, letters>>

Taken == next' = next + 1 /\ UNCHANGED letters

Flag ==
  \/ /\ AtArgument("flag") /\ argv[next].flag \in Modes
     /\ Taken /\ Sets([m \in {argv[next].flag} |-> "true"])
  \/ /\ AtArgument("flag") /\ argv[next].flag = "verbose"
     /\ Taken /\ Sets([verbose |-> Verbose])

Help ==
  /\ AtArgument("flag") /\ argv[next].flag = "help"
  /\ Taken /\ help' = TRUE
  /\ UNCHANGED <<argv, disk, file, pos, conf, jsonconf, phase, config>>

File ==
  /\ AtArgument("file") /\ Taken /\ file' = <<argv[next].file>>
  /\ UNCHANGED <<argv, disk, help, pos, conf, jsonconf, phase, config>>

Setting ==
  /\ \E f \in {"db", "dbopt", "controllername", "servers"} : AtArgument(f)
  /\ ConfOK(argv[next])
  /\ Taken /\ Sets(Clean(argv[next]))

JsonConf ==
  /\ AtArgument("conf") /\ ConfOK(argv[next].conf)
  /\ Taken /\ jsonconf' = Clean(argv[next].conf)
  /\ UNCHANGED <<argv, disk, help, file, pos, conf, phase, config>>

(* The positional argument is validated with all of conf, after the loop.  *)
Positional ==
  /\ AtArgument("text") /\ pos = 0 /\ argv[next].text \in DOMAIN HostPort /\ pos' = 1
  /\ Taken /\ conf' = Merge(conf, [servers |-> <<HostPort[argv[next].text]>>])
  /\ UNCHANGED <<argv, disk, help, file, jsonconf, phase, config>>

OptionError ==
  /\ \/ AtArgument("text") /\ (pos > 0 \/ argv[next].text \notin DOMAIN HostPort)
     \/ AtArgument("unknown")
     \/ AtArgument("servers") /\ ~ConfOK(argv[next])
     \/ AtArgument("conf") /\ ~ConfOK(argv[next].conf)
  /\ Throw

Parsed ==
  /\ Parsing /\ letters = <<>> /\ next > Len(argv) /\ ConfOK(Explicit(conf))
  /\ conf' = Clean(Explicit(conf))
  /\ phase' = IF help THEN "help" ELSE "parsed"
  /\ UNCHANGED <<argv, disk, next, letters, help, file, pos, jsonconf, config>>

ParseError ==
  /\ Parsing /\ letters = <<>> /\ next > Len(argv) /\ ~ConfOK(Explicit(conf))
  /\ Throw

-----------------------------------------------------------------------------
(* initialize: the named file, or the first of the usual ones that exists. *)
(* An empty path names none.                                               *)
FileNamed == file # <<>> /\ file[1] # ""

Usual == {n \in DOMAIN ConfPaths : ConfPaths[n] \in DOMAIN disk}

FileConf ==
  IF FileNamed THEN disk[file[1]]
  ELSE IF Usual = {} THEN Nothing
  ELSE disk[ConfPaths[CHOOSE n \in Usual : \A o \in Usual : n <= o]]

Readable == (FileNamed => file[1] \in DOMAIN disk) /\ ConfOK(FileConf)

MutantMerged == Merge(Merge(jsonconf, Clean(FileConf)), conf)

Merged == Merge(Merge(Clean(FileConf), jsonconf), conf)

Configure ==
  /\ phase = "parsed" /\ Readable /\ Complete(Merged)
  /\ config' = WithFuncName(WithDefaults(Merged)) /\ phase' = "configured"
  /\ UNCHANGED <<argv, disk, parser>>

ConfigureError == phase = "parsed" /\ ~(Readable /\ Complete(Merged)) /\ Throw

ConfigNext ==
  \/ Letter \/ FileLetter \/ LetterError \/ ShortOptions
  \/ Flag \/ Help \/ File \/ Setting \/ JsonConf \/ Positional \/ OptionError
  \/ Parsed \/ ParseError \/ Configure \/ ConfigureError
=============================================================================
