---------------------------- MODULE StartupProofs ----------------------------
(***************************************************************************)
(* Proofs about the start of a daemon, for any command lines, files,       *)
(* controllers and adapters: whatever it runs with is usable, and what it  *)
(* was told; and when it runs, each entry of its configuration has a       *)
(* database.                                                               *)
(*                                                                         *)
(* Usable rests on what validation leaves of a partial configuration and   *)
(* on merging: a field of a merger was a field of one of its parts.  That  *)
(* a daemon is what it was told rests on the order in which the parser     *)
(* reads the options, each of them once.                                   *)
(***************************************************************************)
EXTENDS Startup, FiniteSetTheorems, TLAPS

-----------------------------------------------------------------------------
(* A partial configuration whose fields, where it has them, can be used.   *)
ServersUsable(servers) ==
  /\ DOMAIN servers # {}
  /\ \A n \in DOMAIN servers : servers[n].host # Junk /\ servers[n].port \in Ports

UsableConf(c) ==
  /\ "servers" \in DOMAIN c => ServersUsable(c.servers)
  /\ \A f \in {"db", "controllername"} \cap DOMAIN c : c[f] \notin {Junk, ""}

LEMMA MergeFacts ==
  ASSUME NEW c, NEW d
  PROVE  /\ DOMAIN Merge(c, d) = DOMAIN c \cup DOMAIN d
         /\ \A f \in DOMAIN d : Merge(c, d)[f] = d[f]
         /\ \A f \in DOMAIN c \ DOMAIN d : Merge(c, d)[f] = c[f]
  BY DEF Merge

LEMMA MergeUsable ==
  ASSUME NEW c, NEW d, UsableConf(c), UsableConf(d)
  PROVE  UsableConf(Merge(c, d))
  <1>1. /\ DOMAIN Merge(c, d) = DOMAIN c \cup DOMAIN d
        /\ \A f \in DOMAIN Merge(c, d) :
             \/ f \in DOMAIN c /\ Merge(c, d)[f] = c[f]
             \/ f \in DOMAIN d /\ Merge(c, d)[f] = d[f]
    BY DEF Merge
  <1> QED  BY <1>1 DEF UsableConf

(* What passed validation is usable once cleaned.                          *)
LEMMA CleanUsable ==
  ASSUME NEW c, ConfOK(c)
  PROVE  UsableConf(Clean(c))
  <1>1. DOMAIN Clean(c) = DOMAIN c
    BY DEF Clean
  <1>2. ASSUME NEW f \in {"db", "controllername"} \cap DOMAIN c
        PROVE  Clean(c)[f] \notin {Junk, ""}
    <2>1. Clean(c)[f] = c[f]
      BY <1>2 DEF Clean, Modes
    <2> QED  BY <1>2, <2>1 DEF ConfOK
  <1>3. ASSUME "servers" \in DOMAIN c, NEW v, v = Clean(c).servers PROVE ServersUsable(v)
    <2>1. v = [n \in DOMAIN c.servers |-> Merge(DefaultServer, c.servers[n])]
      BY <1>3 DEF Clean, Modes
    <2>2. ServersOK(c.servers)
      BY <1>3 DEF ConfOK
    <2>3. ASSUME NEW n \in DOMAIN c.servers, NEW s, s = v[n]
          PROVE  s.host # Junk /\ s.port \in Ports
      <3>1. s = Merge(DefaultServer, c.servers[n])
        BY <2>1, <2>3
      <3>2. ServerOK(c.servers[n])
        BY <2>2 DEF ServersOK
      <3> QED  BY <3>1, <3>2, Zenon DEF ServerOK
    <2>4. DOMAIN v = DOMAIN c.servers /\ DOMAIN c.servers # {}
      BY <2>1, <2>2 DEF ServersOK
    <2> QED  BY <2>3, <2>4 DEF ServersUsable
  <1> QED  BY <1>1, <1>2, <1>3 DEF UsableConf

LEMMA NothingUsable == UsableConf(Nothing)
  BY DEF Nothing, UsableConf

(* Merging, defaults and the function name leave a configuration usable,   *)
(* and a complete one has servers and something to run.                    *)
LEMMA ConfigureUsable ==
  ASSUME NEW c, UsableConf(c), Complete(c), NEW d, d = WithFuncName(WithDefaults(c))
  PROVE  /\ ServersUsable(d.servers)
         /\ \E m \in Modes : On(d, m)
         /\ d.db \notin {Junk, ""} /\ d.controllername \notin {Junk, ""}
  <1> DEFINE w == WithDefaults(c)
             e == Merge(Defaults, c)
             x == IF Modes \cap DOMAIN c = {} THEN [m \in Modes |-> "true"] ELSE Nothing
  <1>1. UsableConf(Defaults) /\ {"db", "controllername"} \subseteq DOMAIN Defaults
    <2>1. /\ DOMAIN Defaults = {"verbose", "db", "controllername"}
          /\ Defaults["db"] = "sqlite" /\ Defaults["controllername"] = "retry"
      BY DEF Defaults
    <2> QED  BY <2>1, JunkAssumption DEF UsableConf
  <1>2. UsableConf(x)
    BY NothingUsable DEF UsableConf, Modes
  <1>3. UsableConf(e) /\ {"db", "controllername", "servers"} \subseteq DOMAIN e
    <2>1. DOMAIN e = DOMAIN Defaults \cup DOMAIN c
      BY MergeFacts
    <2>2. "servers" \in DOMAIN c
      BY DEF Complete
    <2> HIDE DEF e
    <2>3. UsableConf(e)
      BY <1>1, MergeUsable DEF e
    <2> QED  BY <1>1, <2>1, <2>2, <2>3
  <1>4. w = Merge(e, x)
    BY DEF WithDefaults
  <1> HIDE DEF e, x
  <1>5. UsableConf(w) /\ {"db", "controllername", "servers"} \subseteq DOMAIN w
    BY <1>2, <1>3, <1>4, MergeUsable, MergeFacts
  <1>6. PICK m \in Modes : On(w, m)
    BY DEF Complete
  <1> HIDE DEF w
  <1>7. \A f \in DOMAIN w : f \in DOMAIN d /\ d[f] = w[f]
    <2>1. PICK y : d = Merge(y, w)
      BY DEF WithFuncName, w
    <2>2. DOMAIN Merge(y, w) = DOMAIN y \cup DOMAIN w
          /\ \A f \in DOMAIN w : Merge(y, w)[f] = w[f]
      BY MergeFacts, Zenon
    <2> QED  BY <2>1, <2>2
  <1>8. On(d, m)
    BY <1>6, <1>7 DEF On
  <1> QED  BY <1>5, <1>7, <1>8 DEF UsableConf

-----------------------------------------------------------------------------
(* What can be used, phase by phase: --conf from the moment it is read, the *)
(* options once the parser has come to its end, and then the configuration. *)
ConfInv ==
  /\ UsableConf(jsonconf)
  /\ phase \in {"parsed", "help"} => UsableConf(conf)
  /\ Usable

(* A configuration is made once.                                           *)
LEMMA ConfigStep ==
  ASSUME ConfInv, ConfigNext
  PROVE  ConfInv'
  <1> USE DEF ConfInv, Configured, configVars, parser
  <1>1. CASE Letter \/ FileLetter \/ ShortOptions \/ Flag \/ Help \/ File \/ Setting \/ Positional
    <2>1. phase' = "parsing" /\ jsonconf' = jsonconf
      BY <1>1 DEF Letter, FileLetter, ShortOptions, Flag, Help, File, Setting, Positional, Sets,
                  InLetters, AtArgument, Parsing
    <2> QED  BY <2>1 DEF Usable
  <1>2. CASE LetterError \/ OptionError \/ ParseError \/ ConfigureError
    <2>1. phase' = "failed" /\ jsonconf' = jsonconf
      BY <1>2 DEF LetterError, OptionError, ParseError, ConfigureError, Throw
    <2> QED  BY <2>1 DEF Usable
  <1>3. CASE JsonConf
    <2>1. phase' = "parsing" /\ UsableConf(jsonconf')
      BY <1>3, CleanUsable DEF JsonConf, AtArgument, Parsing
    <2> QED  BY <2>1 DEF Usable
  <1>4. CASE Parsed
    <2>1. phase' \in {"help", "parsed"} /\ jsonconf' = jsonconf /\ UsableConf(conf')
      BY <1>4, CleanUsable DEF Parsed
    <2> QED  BY <2>1 DEF Usable
  <1>5. CASE Configure
    <2>1. /\ phase = "parsed" /\ phase' = "configured" /\ UNCHANGED jsonconf
          /\ Readable /\ Complete(Merged) /\ config' = WithFuncName(WithDefaults(Merged))
      BY <1>5 DEF Configure
    <2>2. UsableConf(Clean(FileConf))
      BY <2>1, CleanUsable DEF Readable
    <2>3. UsableConf(Merged)
      BY <2>1, <2>2, MergeUsable DEF Merged
    <2>4. /\ ServersUsable(config'.servers)
          /\ \E m \in Modes : On(config', m)
          /\ config'.db \notin {Junk, ""} /\ config'.controllername \notin {Junk, ""}
      BY <2>1, <2>3, ConfigureUsable
    <2> QED  BY <2>1, <2>4 DEF Usable, ServersUsable
  <1> QED  BY <1>1, <1>2, <1>3, <1>4, <1>5 DEF ConfigNext

LEMMA StartStep ==
  ASSUME ConfInv, UNCHANGED <<config, conf, jsonconf>>,
         \/ phase' = phase
         \/ phase \in {"configured", "opening"} /\ phase' \in {"opening", "running", "failed"}
         \/ phase' = "exited"
  PROVE  ConfInv'
  BY DEF ConfInv, Usable, Configured

LEMMA ConfStep ==
  ASSUME ConfInv, [Next]_vars
  PROVE  ConfInv'
  <1>1. CASE Configuring
    BY <1>1, ConfigStep DEF Configuring
  <1>2. CASE UNCHANGED vars
    BY <1>2, StartStep DEF vars, configVars, parser
  <1>3. CASE Resolve \/ ResolveError \/ Run \/ Exit \/ \E n \in opening : Opened(n) \/ OpenError(n)
    <2>1. UNCHANGED <<config, conf, jsonconf>>
      BY <1>3 DEF Resolve, ResolveError, Run, Exit, Opened, OpenError, Throw, configVars, parser
    <2>2. \/ phase' = phase
          \/ phase \in {"configured", "opening"} /\ phase' \in {"opening", "running", "failed"}
          \/ phase' = "exited"
      BY <1>3 DEF Resolve, ResolveError, Run, Exit, Opened, OpenError, Throw, configVars
    <2> QED  BY <2>1, <2>2, StartStep
  <1> QED  BY <1>1, <1>2, <1>3 DEF Next

(* Whatever the command line, --conf and the files say, a daemon that goes *)
(* on to open its databases has servers with a host and a port, a mode to  *)
(* run and the names of an adapter and a controller.                       *)
THEOREM AlwaysUsable == Spec => []Usable
  <1>1. StartupInit => ConfInv
    BY NothingUsable DEF StartupInit, Init, ConfInv, Usable, Configured
  <1>2. ConfInv => Usable
    BY DEF ConfInv
  <1> QED  BY <1>1, <1>2, ConfStep, PTL DEF Spec

-----------------------------------------------------------------------------
(* An entry not being opened any more has its database, and what goes by   *)
(* an id is an entry of that id.                                           *)
OpenInv ==
  /\ phase \in {"opening", "running"} =>
       /\ \A n \in DOMAIN Entries \ opening : Id(n) \in DOMAIN databases
       /\ \A i \in DOMAIN databases : databases[i] \in DOMAIN Entries /\ Id(databases[i]) = i
       /\ opening \subseteq DOMAIN Entries
       /\ phase = "running" => opening = {}
  /\ phase \notin {"opening", "running", "failed", "exited"} =>
       opening = {} /\ DOMAIN databases = {}

LEMMA OpenStep ==
  ASSUME OpenInv, [Next]_vars
  PROVE  OpenInv'
  <1> USE DEF OpenInv
  <1>1. CASE Configuring
    <2>1. phase \in {"parsing", "parsed"} /\ phase' \notin {"opening", "running", "exited"}
          /\ UNCHANGED <<opening, databases>>
      BY <1>1 DEF Configuring, ConfigNext, Letter, FileLetter, LetterError, ShortOptions, Flag,
                  Help, File, Setting, JsonConf, Positional, OptionError, Parsed, ParseError,
                  Configure, ConfigureError, Throw, Sets, InLetters, AtArgument, Parsing, started
    <2> QED  BY <2>1
  <1>2. CASE UNCHANGED vars
    BY <1>2 DEF vars, configVars, started, Entries, Id
  <1>3. CASE Resolve
    <2>1. /\ phase = "configured" /\ phase' = "opening" /\ opening' = DOMAIN Entries
          /\ UNCHANGED <<config, databases>>
      BY <1>3 DEF Resolve
    <2>2. Entries' = Entries
      BY <2>1 DEF Entries
    <2> QED  BY <2>1, <2>2
  <1>4. CASE ResolveError \/ Exit \/ \E n \in opening : OpenError(n)
    <2>1. phase' \in {"failed", "exited"}
      BY <1>4 DEF ResolveError, Exit, OpenError, Throw
    <2> QED  BY <2>1
  <1>5. ASSUME NEW n \in opening, Opened(n) PROVE OpenInv'
    <2>1. /\ phase = "opening" /\ phase' = "opening" /\ UNCHANGED config
          /\ opening' = opening \ {n} /\ databases' = Keyed(Id(n), n)
      BY <1>5 DEF Opened, configVars
    <2>2. Entries' = Entries /\ \A m : Id(m)' = Id(m)
      BY <2>1 DEF Entries, Id
    <2>3. /\ DOMAIN databases' = DOMAIN databases \cup {Id(n)} /\ databases'[Id(n)] = n
          /\ \A j \in DOMAIN databases \ {Id(n)} : databases'[j] = databases[j]
      <3> DEFINE i == Id(n)
      <3> HIDE DEF i
      <3>1. databases' = Keyed(i, n)
        BY <2>1 DEF i
      <3>2. /\ DOMAIN databases' = DOMAIN databases \cup {i} /\ databases'[i] = n
            /\ \A j \in DOMAIN databases \ {i} : databases'[j] = databases[j]
        BY <3>1 DEF Keyed, Merge
      <3> QED  BY <3>2 DEF i
    <2>4. \A m \in DOMAIN Entries \ opening' : Id(m) \in DOMAIN databases'
      BY <2>1, <2>3
    <2>5. \A i \in DOMAIN databases' : databases'[i] \in DOMAIN Entries /\ Id(databases'[i]) = i
      BY <2>1, <2>3
    <2> QED  BY <2>1, <2>2, <2>4, <2>5
  <1>6. CASE Run
    <2>1. /\ phase = "opening" /\ phase' = "running" /\ opening = {}
          /\ UNCHANGED <<config, opening, databases>>
      BY <1>6 DEF Run
    <2>2. Entries' = Entries /\ \A m : Id(m)' = Id(m)
      BY <2>1 DEF Entries, Id
    <2> QED  BY <2>1, <2>2
  <1> QED  BY <1>1, <1>2, <1>3, <1>4, <1>5, <1>6 DEF Next

(* However many databases a composite opens side by side and in whatever   *)
(* order they come, the components run only when each entry has its own,   *)
(* or the one of an entry with the same id.                                *)
THEOREM EveryEntryOpened == Spec => []DatabasesAsTold
  <1>1. StartupInit => OpenInv
    BY DEF StartupInit, Init, OpenInv, Nothing
  <1>2. OpenInv => DatabasesAsTold
    BY DEF OpenInv, DatabasesAsTold
  <1> QED  BY <1>1, <1>2, OpenStep, PTL DEF Spec

-----------------------------------------------------------------------------
ParserTypes ==
  /\ argv \in Argvs /\ disk \in Disks /\ next \in 1..(Len(argv) + 1)
  /\ help \in BOOLEAN /\ pos \in {0, 1} /\ (file = <<>> \/ \E path : file = <<path>>)
  /\ phase \in {"parsing", "parsed", "help", "configured", "opening", "running",
                "failed", "exited"}

LEMMA ParserStep ==
  ASSUME ParserTypes, [Next]_vars
  PROVE  ParserTypes'
  <1> USE DEF ParserTypes, configVars, parser
  <1>0. Len(argv) \in Nat
    BY ArgvsAssumption
  <1>1. ASSUME Configuring PROVE ParserTypes'
    <2> USE DEF Letter, FileLetter, LetterError, ShortOptions, Flag, Help, File, Setting, JsonConf,
                Positional, OptionError, Parsed, ParseError, Configure, ConfigureError, Throw, Sets,
                InLetters, AtArgument, Parsing, Taken, AfterPath
    <2>1. UNCHANGED <<argv, disk>>
      BY <1>1 DEF Configuring, ConfigNext
    <2>2. next' \in 1..(Len(argv) + 1)
      <3>1. next' = next \/ (next <= Len(argv) /\ next' = next + 1)
        BY <1>1 DEF Configuring, ConfigNext
      <3> QED  BY <1>0, <3>1
    <2>3. help' \in BOOLEAN /\ pos' \in {0, 1}
      BY <1>1 DEF Configuring, ConfigNext
    <2>4. file' = file \/ \E path : file' = <<path>>
      BY <1>1 DEF Configuring, ConfigNext
    <2>5. phase' \in {phase, "failed", "help", "parsed", "configured"}
      BY <1>1 DEF Configuring, ConfigNext
    <2> QED  BY <2>1, <2>2, <2>3, <2>4, <2>5
  <1>2. CASE UNCHANGED vars
    BY <1>2 DEF vars
  <1>3. CASE Resolve \/ ResolveError \/ Run \/ Exit \/ \E n \in opening : Opened(n) \/ OpenError(n)
    BY <1>3 DEF Resolve, ResolveError, Run, Exit, Opened, OpenError, Throw
  <1> QED  BY <1>1, <1>2, <1>3 DEF Next

LEMMA TypesInit == StartupInit => ParserTypes
  <1> SUFFICES ASSUME StartupInit PROVE ParserTypes
    OBVIOUS
  <1>1. Len(argv) \in Nat
    BY ArgvsAssumption DEF StartupInit, Init
  <1>2. next \in 1..(Len(argv) + 1)
    BY <1>1 DEF StartupInit, Init
  <1>3. argv \in Argvs /\ disk \in Disks /\ help = FALSE /\ pos = 0 /\ file = <<>>
        /\ phase = "parsing"
    BY DEF StartupInit, Init
  <1> QED  BY <1>2, <1>3 DEF ParserTypes

(* The parser stays within the command line, however paths and bundles of  *)
(* letters follow one another, and what is being opened are entries of the *)
(* configuration.                                                          *)
THEOREM StartupTyped == Spec => []TypeOK
  <1>1. StartupInit => ParserTypes /\ OpenInv
    BY TypesInit DEF StartupInit, Init, OpenInv, Nothing
  <1>2. ParserTypes /\ OpenInv => TypeOK
    <2> SUFFICES ASSUME ParserTypes, OpenInv PROVE TypeOK
      OBVIOUS
    <2>1. Len(file) <= 1
      BY DEF ParserTypes
    <2>2. Configured => opening \subseteq DOMAIN Entries
      BY DEF OpenInv, Configured
    <2> QED  BY <2>1, <2>2 DEF ParserTypes, TypeOK
  <1>3. (ParserTypes /\ OpenInv) /\ [Next]_vars => (ParserTypes /\ OpenInv)'
    BY ParserStep, OpenStep
  <1> QED  BY <1>1, <1>2, <1>3, PTL DEF Spec
-----------------------------------------------------------------------------
(* Where the parser is.  The options are the least set that HasOptions, so *)
(* what holds of the first argument and, with an option, of the argument   *)
(* after its paths, holds of all of them.                                  *)
Count(n, j) == Cardinality({x \in Letters("f", n) : x < j})

At(k, j) ==
  /\ k \in 1..(Len(argv) + 1) /\ j \in Nat \ {0}
  /\ k <= Len(argv) => k \in Options
  /\ \A n \in Options : n < k => After(n) <= k
  /\ \/ letters = <<>> /\ k = next /\ j = 1
     \/ /\ k \in With("letters") /\ letters \in Seq(STRING) /\ letters # <<>>
        /\ Len(argv[k].letters) = Len(letters) + j - 1
        /\ \A x \in 1..Len(letters) : letters[x] = argv[k].letters[x + j - 1]
        /\ next = k + 1 + Count(k, j)

LEMMA ArgumentFacts ==
  ASSUME argv \in Argvs, NEW n \in 1..Len(argv)
  PROVE  /\ \E kind \in Kinds : DOMAIN argv[n] = {kind}
         /\ "letters" \in DOMAIN argv[n] => argv[n].letters \in Seq(STRING)
         /\ Len(argv) \in Nat /\ n \in Nat
  BY ArgvsAssumption

LEMMA CountFacts ==
  ASSUME argv \in Argvs, NEW n \in 1..Len(argv), "letters" \in DOMAIN argv[n], NEW j \in Nat \ {0}
  PROVE  /\ Count(n, j) \in Nat /\ Count(n, 1) = 0
         /\ j = Len(argv[n].letters) + 1 => Count(n, j) = PathsOf(n)
         /\ j \in DOMAIN argv[n].letters =>
              Count(n, j + 1) = IF argv[n].letters[j] = "f" THEN Count(n, j) + 1 ELSE Count(n, j)
  <1> DEFINE l == argv[n].letters
             F(i) == {x \in Letters("f", n) : x < i}
  <1>1. l \in Seq(STRING) /\ DOMAIN l = 1..Len(l) /\ Len(l) \in Nat
    BY ArgumentFacts
  <1>2. \A i : F(i) \subseteq 1..Len(l)
    BY <1>1 DEF Letters
  <1>3. \A i : IsFiniteSet(F(i)) /\ Cardinality(F(i)) \in Nat
    <2>1. IsFiniteSet(1..Len(l))
      BY <1>1, FS_Interval
    <2> QED  BY <1>2, <2>1, FS_Subset, FS_CardinalityType
  <1>4. F(1) = {}
    BY <1>1, <1>2
  <1>5. j = Len(l) + 1 => F(j) = Letters("f", n)
    BY <1>1 DEF Letters
  <1>6. ASSUME j \in DOMAIN l
        PROVE  Count(n, j + 1) = IF l[j] = "f" THEN Count(n, j) + 1 ELSE Count(n, j)
    <2>1. CASE l[j] = "f"
      <3>1. F(j + 1) = F(j) \cup {j} /\ j \notin F(j)
        BY <1>1, <1>6, <2>1 DEF Letters
      <3> HIDE DEF F
      <3>2. Cardinality(F(j + 1)) = Cardinality(F(j)) + 1
        BY <1>3, <3>1, FS_AddElement
      <3> QED  BY <2>1, <3>2 DEF Count, F
    <2>2. CASE l[j] # "f"
      <3>1. F(j + 1) = F(j)
        BY <1>1, <1>6, <2>2 DEF Letters
      <3> QED  BY <2>2, <3>1 DEF Count
    <2> QED  BY <2>1, <2>2
  <1> QED  BY <1>3, <1>4, <1>5, <1>6, FS_EmptySet DEF Count, PathsOf

LEMMA AfterType ==
  ASSUME argv \in Argvs, NEW n \in 1..Len(argv)
  PROVE  /\ PathsOf(n) \in Nat /\ After(n) \in Nat /\ n < After(n) /\ n \in Nat
         /\ "letters" \notin DOMAIN argv[n] => After(n) = n + 1
  <1>1. CASE "letters" \in DOMAIN argv[n]
    <2>1. Len(argv[n].letters) + 1 \in Nat \ {0}
      BY <1>1, ArgumentFacts
    <2>2. PathsOf(n) \in Nat
      BY <1>1, <2>1, CountFacts
    <2> QED  BY <1>1, <2>2 DEF After
  <1>2. CASE "letters" \notin DOMAIN argv[n]
    BY <1>2 DEF After, PathsOf
  <1> QED  BY <1>1, <1>2

LEMMA OptionFacts ==
  ASSUME argv \in Argvs
  PROVE  /\ Options \subseteq 1..Len(argv)
         /\ 1 <= Len(argv) => 1 \in Options
         /\ \A n \in Options : After(n) <= Len(argv) => After(n) \in Options
         /\ \A S \in SUBSET (1..Len(argv)) : HasOptions(S) => Options \subseteq S
  <1>1. Len(argv) \in Nat
    BY ArgvsAssumption
  <1>2. ASSUME NEW n \in Options, After(n) <= Len(argv) PROVE After(n) \in Options
    <2>1. n \in 1..Len(argv) /\ After(n) \in Nat /\ n < After(n)
      BY <1>2, AfterType DEF Options
    <2>2. After(n) \in 1..Len(argv)
      BY <1>1, <1>2, <2>1
    <2> QED  BY <1>2, <2>2 DEF Options, HasOptions
  <1> QED  BY <1>1, <1>2 DEF Options, HasOptions

(* Between an option that the parser has come to and the argument after    *)
(* its paths there is no option.                                           *)
LEMMA NoneBetween ==
  ASSUME argv \in Argvs, NEW k \in Options, \A n \in Options : n < k => After(n) <= k
  PROVE  \A n \in Options : n < After(k) => n <= k /\ After(n) <= After(k)
  <1> DEFINE S == {n \in Options : n <= k \/ After(k) <= n}
  <1>1. /\ Options \subseteq 1..Len(argv) /\ (1 <= Len(argv) => 1 \in Options)
        /\ \A n \in Options : After(n) <= Len(argv) => After(n) \in Options
    BY OptionFacts
  <1>2. \A n \in Options : n \in Nat /\ After(n) \in Nat /\ n < After(n)
    BY <1>1, AfterType
  <1>3. HasOptions(S)
    <2>1. 1 \in S
      BY <1>1, <1>2, ArgvsAssumption
    <2>2. ASSUME NEW n \in S, After(n) <= Len(argv) PROVE After(n) \in S
      <3>1. After(n) \in Options
        BY <1>1, <2>2
      <3>2. n < k \/ n = k \/ After(k) <= n
        BY <1>2, <2>2
      <3> QED  BY <1>2, <3>1, <3>2
    <2> QED  BY <2>1, <2>2 DEF HasOptions
  <1>4. Options \subseteq S
    <2>1. S \in SUBSET (1..Len(argv))
      BY <1>1
    <2> HIDE DEF S
    <2> QED  BY <1>3, <2>1, OptionFacts
  <1> QED
    <2> TAKE n \in Options
    <2> HAVE n < After(k)
    <2>1. n <= k
      BY <1>2, <1>4
    <2>2. n < k \/ n = k
      BY <1>2, <2>1
    <2> QED  BY <1>2, <2>1, <2>2

(* At an option, done with it, the parser comes to the next one.           *)
LEMMA Arrived ==
  ASSUME argv \in Argvs, NEW k \in Options, \A n \in Options : n < k => After(n) <= k,
         After(k) <= Len(argv) + 1
  PROVE  /\ After(k) \in 1..(Len(argv) + 1)
         /\ After(k) <= Len(argv) => After(k) \in Options
         /\ \A n \in Options : n < After(k) => After(n) <= After(k)
  <1>1. k \in 1..Len(argv)
    BY OptionFacts
  <1>2. After(k) \in Nat /\ k < After(k)
    BY <1>1, AfterType
  <1> QED  BY <1>1, <1>2, NoneBetween, OptionFacts, ArgvsAssumption

(* What the options say, in the order they say it: the k-th argument if it *)
(* is of one piece, and otherwise its letters.                             *)
Items ==
  {i \in Options \X (Nat \ {0}) :
     IF "letters" \in DOMAIN argv[i[1]] THEN i[2] \in DOMAIN argv[i[1]].letters ELSE i[2] = 1}

Seen(k, j) == {i \in Items : i[1] < k \/ (i[1] = k /\ i[2] < j)}

LEMMA SameArgv ==
  ASSUME argv' = argv
  PROVE  /\ Options' = Options /\ Items' = Items
         /\ \A n : After(n)' = After(n) /\ PathsOf(n)' = PathsOf(n) /\ With(n)' = With(n)
         /\ \A k, j : Count(k, j)' = Count(k, j) /\ Seen(k, j)' = Seen(k, j)
  <1>1. /\ \A l, n : Letters(l, n)' = Letters(l, n)
        /\ \A n : After(n)' = After(n) /\ PathsOf(n)' = PathsOf(n)
    BY DEF After, PathsOf, Letters
  <1>2. Options' = Options
    BY <1>1 DEF Options, HasOptions
  <1>3. Items' = Items
    BY <1>2 DEF Items
  <1>4. \A n : With(n)' = With(n)
    BY <1>2 DEF With
  <1>5. \A k, j : Count(k, j)' = Count(k, j) /\ Seen(k, j)' = Seen(k, j)
    BY <1>1, <1>3 DEF Count, Seen
  <1> QED  BY <1>1, <1>2, <1>3, <1>4, <1>5

LEMMA ItemFacts ==
  ASSUME argv \in Argvs, NEW i \in Items
  PROVE  i[1] \in Options /\ i[1] \in 1..Len(argv) /\ i[1] \in Nat /\ i[2] \in Nat \ {0}
         /\ i = <<i[1], i[2]>>
  BY OptionFacts DEF Items

(* An argument said no more than its items.                                *)
LEMMA SeenDone ==
  ASSUME argv \in Argvs, NEW k \in Options, \A n \in Options : n < k => After(n) <= k,
         NEW j \in Nat, \A i \in Items : i[1] = k => i[2] < j
  PROVE  Seen(After(k), 1) = Seen(k, j)
  <1>1. k \in Nat /\ After(k) \in Nat /\ k < After(k)
    BY OptionFacts, AfterType
  <1>2. ASSUME NEW i \in Items PROVE i \in Seen(After(k), 1) <=> i \in Seen(k, j)
    <2>1. i[1] \in Options /\ i[1] \in Nat /\ i[2] \in Nat \ {0}
      BY ItemFacts
    <2>2. i[1] < After(k) => i[1] <= k
      BY <2>1, NoneBetween
    <2>3. i \in Seen(After(k), 1) <=> i[1] < After(k)
      BY <2>1 DEF Seen
    <2>4. i \in Seen(k, j) <=> i[1] < k \/ i[1] = k
      BY DEF Seen
    <2> QED  BY <1>1, <2>1, <2>2, <2>3, <2>4
  <1> QED  BY <1>2 DEF Seen

LEMMA SeenNext ==
  ASSUME argv \in Argvs, NEW k, NEW j, <<k, j>> \in Items
  PROVE  Seen(k, j + 1) = Seen(k, j) \cup {<<k, j>>}
  <1>1. k \in Nat /\ j \in Nat
    BY ItemFacts
  <1>2. ASSUME NEW i \in Items PROVE i \in Seen(k, j + 1) <=> i \in Seen(k, j) \/ i = <<k, j>>
    <2>1. i[1] \in Nat /\ i[2] \in Nat /\ i = <<i[1], i[2]>>
      BY ItemFacts
    <2>2. i = <<k, j>> <=> i[1] = k /\ i[2] = j
      BY <2>1
    <2> QED  BY <1>1, <2>1, <2>2 DEF Seen
  <1> QED  BY <1>2 DEF Seen

(* An argument of one piece is taken.                                      *)
LEMMA WholeStep ==
  ASSUME argv \in Argvs, NEW k, NEW j, At(k, j), letters = <<>>, next <= Len(argv),
         "letters" \notin DOMAIN argv[next],
         argv' = argv, letters' = <<>>, next' = next + 1
  PROVE  /\ k = next /\ j = 1 /\ k \in Options /\ k \in Nat /\ <<k, 1>> \in Items
         /\ At(k + 1, 1)' /\ Seen(k + 1, 1)' = Seen(k, 1) \cup {<<k, 1>>}
  <1>1. k = next /\ j = 1 /\ k \in Options /\ \A n \in Options : n < k => After(n) <= k
    BY DEF At
  <1>2. /\ k \in 1..Len(argv) /\ k \in Nat /\ Len(argv) \in Nat /\ k + 1 \in Nat
        /\ After(k) = k + 1 /\ After(k) <= Len(argv) + 1
    BY <1>1, OptionFacts, AfterType, ArgvsAssumption
  <1>3. <<k, 1>> \in Items /\ \A i \in Items : i[1] = k => i[2] < 2
    BY <1>1 DEF Items
  <1>4. Seen(k + 1, 1) = Seen(k, 1) \cup {<<k, 1>>}
    <2>1. Seen(k, 1 + 1) = Seen(k, 1) \cup {<<k, 1>>}
      BY <1>3, SeenNext
    <2>2. Seen(After(k), 1) = Seen(k, 2)
      BY <1>1, <1>3, SeenDone
    <2> QED  BY <1>2, <2>1, <2>2
  <1>5. At(k + 1, 1)'
    <2>1. /\ k + 1 \in 1..(Len(argv) + 1) /\ (k + 1 <= Len(argv) => k + 1 \in Options)
          /\ \A n \in Options : n < k + 1 => After(n) <= k + 1
      BY <1>1, <1>2, Arrived
    <2> QED  BY <1>1, <2>1, SameArgv DEF At
  <1> QED  BY <1>1, <1>2, <1>3, <1>4, <1>5, SameArgv

(* The letters of an argument are over: letters is empty, as after an      *)
(* argument without any.                                                   *)
LEMMA LettersOver ==
  ASSUME argv \in Argvs, argv' = argv, NEW k \in With("letters"), NEW j \in Nat \ {0},
         \A n \in Options : n < k => After(n) <= k,
         Len(argv[k].letters) = j - 1, letters' = <<>>,
         next' = k + 1 + Count(k, j), next' <= Len(argv) + 1
  PROVE  At(After(k), 1)' /\ Seen(After(k), 1)' = Seen(k, j)
  <1>1. k \in Options /\ k \in 1..Len(argv) /\ "letters" \in DOMAIN argv[k]
    BY OptionFacts DEF With
  <1>2. argv[k].letters \in Seq(STRING)
    BY <1>1, ArgumentFacts
  <1>3. Count(k, j) = PathsOf(k)
    BY <1>1, <1>2, CountFacts
  <1>4. next' = After(k)
    BY <1>3 DEF After
  <1>5. /\ After(k) \in 1..(Len(argv) + 1) /\ (After(k) <= Len(argv) => After(k) \in Options)
        /\ \A n \in Options : n < After(k) => After(n) <= After(k)
    BY <1>1, <1>4, Arrived
  <1>6. \A i \in Items : i[1] = k => i[2] < j
    BY <1>1, <1>2 DEF Items
  <1>7. Seen(After(k), 1) = Seen(k, j)
    BY <1>1, <1>6, SeenDone
  <1> QED  BY <1>4, <1>5, <1>7, SameArgv DEF At

(* A letter is taken, and with an f the next argument.                     *)
LEMMA LetterStep ==
  ASSUME argv \in Argvs, NEW k, NEW j, At(k, j), letters # <<>>, argv' = argv,
         letters' = Tail(letters), next' = IF Head(letters) = "f" THEN next + 1 ELSE next,
         next' \in 1..(Len(argv) + 1)
  PROVE  /\ k \in With("letters") /\ k \in Nat /\ <<k, j>> \in Items
         /\ argv[k].letters[j] = Head(letters) /\ next = k + 1 + Count(k, j)
         /\ \E k2, j2 : At(k2, j2)' /\ Seen(k2, j2)' = Seen(k, j) \cup {<<k, j>>}
  <1>1. /\ k \in With("letters") /\ j \in Nat \ {0} /\ letters \in Seq(STRING)
        /\ Len(argv[k].letters) = Len(letters) + j - 1
        /\ \A x \in 1..Len(letters) : letters[x] = argv[k].letters[x + j - 1]
        /\ next = k + 1 + Count(k, j)
        /\ \A n \in Options : n < k => After(n) <= k
    BY DEF At
  <1>2. k \in Options /\ k \in 1..Len(argv) /\ "letters" \in DOMAIN argv[k] /\ k \in Nat
    BY <1>1, OptionFacts, ArgvsAssumption DEF With
  <1>3. argv[k].letters \in Seq(STRING)
    BY <1>2, ArgumentFacts
  <1>4. Len(letters) \in Nat \ {0} /\ j \in DOMAIN argv[k].letters
    BY <1>1, <1>3
  <1>5. argv[k].letters[j] = Head(letters)
    <2>1. Head(letters) = letters[1]
      BY <1>1
    <2>2. letters[1] = argv[k].letters[1 + j - 1] /\ 1 + j - 1 = j
      BY <1>1, <1>4
    <2> QED  BY <2>1, <2>2
  <1>6. <<k, j>> \in Items
    BY <1>1, <1>2, <1>4 DEF Items
  <1>7. Seen(k, j + 1) = Seen(k, j) \cup {<<k, j>>}
    BY <1>6, SeenNext
  <1>8. next' = k + 1 + Count(k, j + 1) /\ Count(k, j) \in Nat
    <2>1. Count(k, j + 1) = IF Head(letters) = "f" THEN Count(k, j) + 1 ELSE Count(k, j)
      BY <1>1, <1>2, <1>4, <1>5, CountFacts
    <2>2. Count(k, j) \in Nat
      BY <1>1, <1>2, CountFacts
    <2> DEFINE c == Count(k, j)
    <2> HIDE DEF c
    <2>3. c \in Nat /\ next = k + 1 + c
          /\ Count(k, j + 1) = IF Head(letters) = "f" THEN c + 1 ELSE c
      BY <1>1, <2>1, <2>2 DEF c
    <2>4. next' = k + 1 + Count(k, j + 1)
      <3>1. CASE Head(letters) = "f"
        BY <1>2, <2>3, <3>1
      <3>2. CASE Head(letters) # "f"
        BY <1>2, <2>3, <3>2
      <3> QED  BY <3>1, <3>2
    <2> QED  BY <2>2, <2>4
  <1>9. CASE Len(letters) = 1
    <2>1. letters' = <<>>
      BY <1>1, <1>9
    <2>2. At(After(k), 1)' /\ Seen(After(k), 1)' = Seen(k, j + 1)
      BY <1>1, <1>8, <1>9, <2>1, LettersOver
    <2> QED  BY <1>1, <1>2, <1>5, <1>6, <1>7, <2>2
  <1>10. CASE Len(letters) # 1
    <2>1. /\ letters' \in Seq(STRING) /\ letters' # <<>> /\ Len(letters') = Len(letters) - 1
          /\ \A x \in 1..Len(letters') : letters'[x] = letters[x + 1]
      <3>1. ASSUME NEW s \in Seq(STRING), Len(s) > 1
            PROVE  /\ Tail(s) \in Seq(STRING) /\ Len(Tail(s)) = Len(s) - 1 /\ Tail(s) # <<>>
                   /\ \A x \in 1..Len(Tail(s)) : Tail(s)[x] = s[x + 1]
        BY <3>1
      <3>2. Len(letters) > 1
        <4>1. \A n \in Nat \ {0} : n # 1 => n > 1
          OBVIOUS
        <4> QED  BY <1>4, <1>10, <4>1, Zenon
      <3>3. letters' = Tail(letters)
        OBVIOUS
      <3> QED  BY ONLY <1>1, <3>1, <3>2, <3>3, Zenon
    <2>2. \A x \in 1..Len(letters') : letters'[x] = argv[k].letters[x + (j + 1) - 1]
      <3> TAKE x \in 1..Len(letters')
      <3>1. x + 1 \in 1..Len(letters) /\ (x + 1) + j - 1 = x + (j + 1) - 1
        BY <1>1, <1>4, <2>1
      <3> QED  BY <1>1, <2>1, <3>1
    <2>3. At(k, j + 1)'
      <3>1. /\ k \in 1..(Len(argv) + 1) /\ j + 1 \in Nat \ {0}
            /\ Len(argv[k].letters) = Len(letters') + (j + 1) - 1
        BY <1>1, <1>2, <1>4, <2>1, ArgvsAssumption
      <3> QED  BY <1>1, <1>2, <1>8, <2>1, <2>2, <3>1, SameArgv DEF At
    <2> QED  BY <1>1, <1>2, <1>5, <1>6, <1>7, <2>3, SameArgv
  <1> QED  BY <1>9, <1>10

(* An argument of short options is come to.                                *)
LEMMA ShortStep ==
  ASSUME argv \in Argvs, NEW k, NEW j, At(k, j), letters = <<>>, next <= Len(argv),
         "letters" \in DOMAIN argv[next],
         argv' = argv, letters' = argv[next].letters, next' = next + 1
  PROVE  \E k2, j2 : At(k2, j2)' /\ Seen(k2, j2)' = Seen(k, j)
  <1>1. k = next /\ j = 1 /\ k \in Options /\ \A n \in Options : n < k => After(n) <= k
    BY DEF At
  <1>2. k \in 1..Len(argv) /\ k \in With("letters") /\ Len(argv) \in Nat /\ k \in Nat
    BY <1>1, OptionFacts, ArgvsAssumption DEF With
  <1>3. argv[k].letters \in Seq(STRING) /\ Count(k, 1) = 0
    BY <1>1, <1>2, ArgumentFacts, CountFacts
  <1>4. CASE letters' = <<>>
    <2>1. Len(argv[k].letters) = 1 - 1 /\ next' = k + 1 + Count(k, 1) /\ next' <= Len(argv) + 1
      <3>1. argv[k].letters = <<>>
        BY <1>1, <1>4
      <3>2. Len(argv[k].letters) = 0
        BY <3>1
      <3> QED  BY <1>1, <1>2, <1>3, <3>2
    <2>2. At(After(k), 1)' /\ Seen(After(k), 1)' = Seen(k, 1)
      <3> DEFINE o == 1
      <3>1. o \in Nat \ {0} /\ Len(argv[k].letters) = o - 1 /\ next' = k + 1 + Count(k, o)
        BY <2>1
      <3> HIDE DEF o
      <3>2. At(After(k), 1)' /\ Seen(After(k), 1)' = Seen(k, o)
        BY <1>1, <1>2, <1>4, <2>1, <3>1, LettersOver
      <3> QED  BY <3>2 DEF o
    <2> QED  BY <1>1, <2>2
  <1>5. CASE letters' # <<>>
    <2>1. At(k, 1)'
      <3>1. /\ k \in 1..(Len(argv) + 1) /\ next' = k + 1 + Count(k, 1)
            /\ letters' \in Seq(STRING) /\ letters' = argv[k].letters
            /\ Len(argv[k].letters) = Len(letters') + 1 - 1
            /\ \A x \in 1..Len(letters') : letters'[x] = argv[k].letters[x + 1 - 1]
        BY <1>1, <1>2, <1>3
      <3> QED  BY <1>1, <1>2, <1>5, <3>1, SameArgv DEF At
    <2> QED  BY <1>1, <2>1, SameArgv
  <1> QED  BY <1>4, <1>5

-----------------------------------------------------------------------------
(* What the parser has made of the items R it has seen: each setting is    *)
(* that of the greatest option that has one.                               *)
Means(i, l, flag) ==
  \/ "letters" \in DOMAIN argv[i[1]] /\ argv[i[1]].letters[i[2]] = l
  \/ "flag" \in DOMAIN argv[i[1]] /\ argv[i[1]].flag = flag

NamesPath(i) ==
  \/ "letters" \in DOMAIN argv[i[1]] /\ argv[i[1]].letters[i[2]] = "f"
  \/ "file" \in DOMAIN argv[i[1]]

Fields == {"db", "dbopt", "controllername"}

Whole(R, f) == {n \in Options : <<n, 1>> \in R /\ f \in DOMAIN argv[n]}
WithServers(R) == Whole(R, "servers") \cup Whole(R, "text")
WithPath(R) == {n \in Options : \E x \in Nat \ {0} : <<n, x>> \in R /\ NamesPath(<<n, x>>)}

Greatest(n, S) == n \in S /\ \A o \in S : o <= n

ServersOf(n) ==
  IF "text" \in DOMAIN argv[n] THEN <<HostPort[argv[n].text]>> ELSE argv[n].servers

SameServers(s, t) ==
  DOMAIN s = DOMAIN t /\ \A n \in DOMAIN t : Merge(DefaultServer, s[n]) = Merge(DefaultServer, t[n])

PathRead(n, R) ==
  IF "file" \in DOMAIN argv[n] THEN argv[n].file
  ELSE Text(argv[n + Cardinality({x \in Letters("f", n) : <<n, x>> \in R})])

ModesRead(R) ==
  \A m \in Modes :
    /\ m \in DOMAIN conf => conf[m] = "true"
    /\ ~help => (m \in DOMAIN conf <=> \E i \in R : Means(i, LetterOf[m], m))

VerboseRead(R) == "verbose" \in DOMAIN conf => \E i \in R : Means(i, "v", "verbose")

FieldsRead(R) ==
  \A f \in Fields :
    \/ Whole(R, f) = {} /\ f \notin DOMAIN conf
    \/ \E n : Greatest(n, Whole(R, f)) /\ f \in DOMAIN conf /\ conf[f] = argv[n][f]

ServersRead(R) ==
  \/ WithServers(R) = {} /\ "servers" \notin DOMAIN conf
  \/ \E n : /\ Greatest(n, WithServers(R))
            /\ "servers" \in DOMAIN conf /\ SameServers(conf.servers, ServersOf(n))

JsonRead(R) ==
  \/ Whole(R, "conf") = {} /\ jsonconf = Nothing
  \/ \E n : Greatest(n, Whole(R, "conf")) /\ jsonconf = Clean(argv[n].conf)

FileRead(R) ==
  \/ WithPath(R) = {} /\ file = <<>>
  \/ \E n : Greatest(n, WithPath(R)) /\ file = <<PathRead(n, R)>>

Read(R) ==
  ModesRead(R) /\ VerboseRead(R) /\ FieldsRead(R) /\ ServersRead(R) /\ JsonRead(R) /\ FileRead(R)

(* What a step does that takes the item <<k, j>>.                          *)
Keeps(f) == (f \in DOMAIN conf' <=> f \in DOMAIN conf) /\ (f \in DOMAIN conf => conf'[f] = conf[f])

TakesModes(k, j) ==
  \A m \in Modes :
    /\ m \in DOMAIN conf' => conf'[m] = "true" \/ (m \in DOMAIN conf /\ conf'[m] = conf[m])
    /\ ~help' => ~help /\ (m \in DOMAIN conf' <=> m \in DOMAIN conf \/ Means(<<k, j>>, LetterOf[m], m))

TakesVerbose(k, j) ==
  "verbose" \in DOMAIN conf' => "verbose" \in DOMAIN conf \/ Means(<<k, j>>, "v", "verbose")

TakesFields(k) ==
  \A f \in Fields :
    IF f \in DOMAIN argv[k] THEN f \in DOMAIN conf' /\ conf'[f] = argv[k][f] ELSE Keeps(f)

TakesServers(k) ==
  IF "servers" \in DOMAIN argv[k] \/ "text" \in DOMAIN argv[k]
  THEN "servers" \in DOMAIN conf' /\ SameServers(conf'.servers, ServersOf(k))
  ELSE Keeps("servers")

TakesJson(k) ==
  IF "conf" \in DOMAIN argv[k] THEN jsonconf' = Clean(argv[k].conf) ELSE jsonconf' = jsonconf

TakesFile(k, j) ==
  IF NamesPath(<<k, j>>)
  THEN file' = <<IF "file" \in DOMAIN argv[k] THEN argv[k].file
                 ELSE Text(argv[k + 1 + Count(k, j)])>>
  ELSE file' = file

Takes(k, j) ==
  /\ TakesModes(k, j) /\ TakesVerbose(k, j) /\ TakesFields(k) /\ TakesServers(k)
  /\ TakesJson(k) /\ TakesFile(k, j)

(* The item after those of R.                                              *)
IsNext(k, j, R) ==
  /\ <<k, j>> \in Items /\ R = Seen(k, j)
  /\ "letters" \notin DOMAIN argv[k] => j = 1

LEMMA NextFacts ==
  ASSUME argv \in Argvs, NEW k, NEW j, NEW R, IsNext(k, j, R)
  PROVE  /\ k \in Options /\ k \in 1..Len(argv) /\ k \in Nat /\ j \in Nat \ {0}
         /\ R \subseteq Items /\ \A i \in R : i[1] \in Nat /\ i[1] <= k
         /\ \E kind \in Kinds : DOMAIN argv[k] = {kind}
  <1>1. k \in Options /\ k \in 1..Len(argv) /\ k \in Nat /\ j \in Nat \ {0}
    <2>1. <<k, j>>[1] \in Options /\ <<k, j>>[1] \in 1..Len(argv) /\ <<k, j>>[1] \in Nat
          /\ <<k, j>>[2] \in Nat \ {0}
      BY ItemFacts DEF IsNext
    <2> QED  BY <2>1
  <1>2. R \subseteq Items /\ \A i \in R : i[1] \in Nat /\ i[1] <= k
    BY <1>1, ItemFacts DEF IsNext, Seen
  <1> QED  BY <1>1, <1>2, ArgumentFacts

(* The options of a kind are those they were, or k is the greatest now.    *)
LEMMA WholeNext ==
  ASSUME argv \in Argvs, argv' = argv, NEW k, NEW j, NEW R, IsNext(k, j, R),
         NEW Q, Q = R \cup {<<k, j>>}
  PROVE  \A f \in Kinds \ {"letters"} :
           Whole(Q, f)' = IF f \in DOMAIN argv[k] THEN Whole(R, f) \cup {k} ELSE Whole(R, f)
  <1> TAKE f \in Kinds \ {"letters"}
  <1> DEFINE W == Whole(Q, f)
  <1>1. Whole(Q, f)' = W
    BY SameArgv DEF Whole
  <1>2. k \in Options /\ \E kind \in Kinds : DOMAIN argv[k] = {kind}
    BY NextFacts
  <1>3. ASSUME NEW n \in Options PROVE n \in W <=> n \in Whole(R, f) \/ (n = k /\ f \in DOMAIN argv[k])
    <2>1. <<n, 1>> = <<k, j>> <=> n = k /\ j = 1
      OBVIOUS
    <2>2. f \in DOMAIN argv[k] => j = 1
      BY <1>2 DEF IsNext
    <2> QED  BY <2>1, <2>2 DEF Whole
  <1> QED  BY <1>1, <1>2, <1>3 DEF Whole

LEMMA GreatestNext ==
  ASSUME argv \in Argvs, NEW k, NEW j, NEW R, IsNext(k, j, R), NEW S \in SUBSET {i[1] : i \in R}
  PROVE  Greatest(k, S \cup {k})
  BY NextFacts DEF Greatest

LEMMA FieldsNext ==
  ASSUME argv \in Argvs, argv' = argv, NEW k, NEW j, NEW R, IsNext(k, j, R),
         NEW Q, Q = R \cup {<<k, j>>},
         FieldsRead(R), TakesFields(k)
  PROVE  FieldsRead(Q)'
  <1>0. \A f \in Fields :
          Whole(Q, f)' = IF f \in DOMAIN argv[k] THEN Whole(R, f) \cup {k} ELSE Whole(R, f)
    <2>1. \A f \in Kinds \ {"letters"} :
            Whole(Q, f)' = IF f \in DOMAIN argv[k] THEN Whole(R, f) \cup {k} ELSE Whole(R, f)
      BY ONLY argv \in Argvs, argv' = argv, IsNext(k, j, R), Q = R \cup {<<k, j>>}, WholeNext
    <2> QED  BY <2>1 DEF Fields, Kinds
  <1> SUFFICES ASSUME NEW f \in Fields
               PROVE  \/ Whole(Q, f)' = {} /\ f \notin DOMAIN conf'
                      \/ \E n : Greatest(n, Whole(Q, f)') /\ f \in DOMAIN conf' /\ conf'[f] = argv[n][f]
    BY DEF FieldsRead, Greatest
  <1>1. Whole(Q, f)' = IF f \in DOMAIN argv[k] THEN Whole(R, f) \cup {k} ELSE Whole(R, f)
    BY <1>0
  <1>2. CASE f \in DOMAIN argv[k]
    <2>1. Whole(R, f) \subseteq {i[1] : i \in R}
      BY DEF Whole
    <2>2. Greatest(k, Whole(Q, f)')
      BY <1>1, <1>2, <2>1, GreatestNext
    <2> QED  BY <1>2, <2>2 DEF TakesFields
  <1>3. CASE f \notin DOMAIN argv[k]
    BY <1>1, <1>3 DEF TakesFields, FieldsRead, Keeps
  <1> QED  BY <1>2, <1>3

LEMMA ServersNext ==
  ASSUME argv \in Argvs, argv' = argv, NEW k, NEW j, NEW R, IsNext(k, j, R),
         NEW Q, Q = R \cup {<<k, j>>},
         ServersRead(R), TakesServers(k)
  PROVE  ServersRead(Q)'
  <1>1. WithServers(Q)' =
          IF "servers" \in DOMAIN argv[k] \/ "text" \in DOMAIN argv[k]
          THEN WithServers(R) \cup {k} ELSE WithServers(R)
    <2>1. \A f \in {"servers", "text"} :
            Whole(Q, f)' = IF f \in DOMAIN argv[k] THEN Whole(R, f) \cup {k} ELSE Whole(R, f)
      <3> TAKE f \in {"servers", "text"}
      <3>1. f \in Kinds \ {"letters"}
        BY DEF Kinds
      <3> QED  BY <3>1, WholeNext
    <2>2. /\ WithServers(R) = Whole(R, "servers") \cup Whole(R, "text")
          /\ WithServers(Q)' = Whole(Q, "servers")' \cup Whole(Q, "text")'
      BY DEF WithServers
    <2> QED  BY <2>1, <2>2
  <1> SUFFICES \/ WithServers(Q)' = {} /\ "servers" \notin DOMAIN conf'
               \/ \E n : /\ Greatest(n, WithServers(Q)')
                         /\ "servers" \in DOMAIN conf' /\ SameServers(conf'.servers, ServersOf(n))
    <2>1. \A n : ServersOf(n)' = ServersOf(n)
      BY DEF ServersOf
    <2> QED  BY <2>1 DEF ServersRead, Greatest
  <1>2. CASE "servers" \in DOMAIN argv[k] \/ "text" \in DOMAIN argv[k]
    <2>1. WithServers(R) \subseteq {i[1] : i \in R}
      BY DEF WithServers, Whole
    <2>2. Greatest(k, WithServers(Q)')
      BY <1>1, <1>2, <2>1, GreatestNext
    <2> QED  BY <1>2, <2>2 DEF TakesServers
  <1>3. CASE ~("servers" \in DOMAIN argv[k] \/ "text" \in DOMAIN argv[k])
    BY <1>1, <1>3 DEF TakesServers, ServersRead, Keeps
  <1> QED  BY <1>2, <1>3

LEMMA JsonNext ==
  ASSUME argv \in Argvs, argv' = argv, NEW k, NEW j, NEW R, IsNext(k, j, R),
         NEW Q, Q = R \cup {<<k, j>>},
         JsonRead(R), TakesJson(k)
  PROVE  JsonRead(Q)'
  <1>1. Whole(Q, "conf")' =
          IF "conf" \in DOMAIN argv[k] THEN Whole(R, "conf") \cup {k} ELSE Whole(R, "conf")
    <2>1. "conf" \in Kinds \ {"letters"}
      BY DEF Kinds
    <2>2. \A f \in Kinds \ {"letters"} :
            Whole(Q, f)' = IF f \in DOMAIN argv[k] THEN Whole(R, f) \cup {k} ELSE Whole(R, f)
      BY WholeNext
    <2> QED  BY ONLY <2>1, <2>2
  <1> SUFFICES \/ Whole(Q, "conf")' = {} /\ jsonconf' = Nothing
               \/ \E n : Greatest(n, Whole(Q, "conf")') /\ jsonconf' = Clean(argv[n].conf)
    BY DEF JsonRead, Greatest
  <1>2. CASE "conf" \in DOMAIN argv[k]
    <2>1. Whole(R, "conf") \subseteq {i[1] : i \in R}
      BY DEF Whole
    <2>2. Greatest(k, Whole(Q, "conf")')
      BY <1>1, <1>2, <2>1, GreatestNext
    <2> QED  BY <1>2, <2>2 DEF TakesJson
  <1>3. CASE "conf" \notin DOMAIN argv[k]
    BY <1>1, <1>3 DEF TakesJson, JsonRead
  <1> QED  BY <1>2, <1>3

(* A path is that of the last letter f, or of the last --file.             *)
LEMMA FileNext ==
  ASSUME argv \in Argvs, argv' = argv, NEW k, NEW j, NEW R, IsNext(k, j, R),
         NEW Q, Q = R \cup {<<k, j>>},
         FileRead(R), TakesFile(k, j)
  PROVE  FileRead(Q)'
  <1>0. k \in Options /\ k \in 1..Len(argv) /\ k \in Nat /\ j \in Nat \ {0}
    BY NextFacts
  <1>1. WithPath(Q)' = IF NamesPath(<<k, j>>) THEN WithPath(R) \cup {k} ELSE WithPath(R)
    <2>1. WithPath(Q)' = WithPath(Q)
      BY SameArgv DEF WithPath, NamesPath
    <2>2. ASSUME NEW n \in Options
          PROVE  n \in WithPath(Q) <=> n \in WithPath(R) \/ (n = k /\ NamesPath(<<k, j>>))
      <3>1. \A x : <<n, x>> \in Q <=> <<n, x>> \in R \/ (n = k /\ x = j)
        OBVIOUS
      <3> QED  BY <1>0, <3>1 DEF WithPath
    <2>3. WithPath(Q) \subseteq Options /\ WithPath(R) \subseteq Options
      BY DEF WithPath
    <2>4. CASE NamesPath(<<k, j>>)
      <3>1. WithPath(Q) = WithPath(R) \cup {k}
        BY ONLY <1>0, <2>2, <2>3, <2>4
      <3> QED  BY ONLY <2>1, <2>4, <3>1
    <2>5. CASE ~NamesPath(<<k, j>>)
      <3>1. WithPath(Q) = WithPath(R)
        BY ONLY <2>2, <2>3, <2>5
      <3> QED  BY ONLY <2>1, <2>5, <3>1
    <2> QED  BY ONLY <2>4, <2>5
  <1>3. \A n : PathRead(n, Q)' = PathRead(n, Q)
    BY DEF PathRead, Text, Letters
  <1> SUFFICES \/ WithPath(Q)' = {} /\ file' = <<>>
               \/ \E n : Greatest(n, WithPath(Q)') /\ file' = <<PathRead(n, Q)>>
    BY <1>3 DEF FileRead, Greatest
  <1>4. CASE NamesPath(<<k, j>>)
    <2>1. WithPath(R) \subseteq {i[1] : i \in R}
      <3> SUFFICES ASSUME NEW n \in WithPath(R) PROVE \E i \in R : n = i[1]
        OBVIOUS
      <3>1. PICK x : <<n, x>> \in R
        BY DEF WithPath
      <3> QED  BY <3>1
    <2>2. Greatest(k, WithPath(Q)')
      BY <1>1, <1>4, <2>1, GreatestNext
    <2>3. CASE "file" \in DOMAIN argv[k]
      BY <1>4, <2>2, <2>3 DEF TakesFile, PathRead
    <2>4. CASE "file" \notin DOMAIN argv[k]
      <3>1. "letters" \in DOMAIN argv[k] /\ argv[k].letters[j] = "f"
        BY <1>4, <2>4 DEF NamesPath
      <3>2. j \in DOMAIN argv[k].letters
        BY <3>1 DEF IsNext, Items
      <3>3. Count(k, j + 1) = Count(k, j) + 1 /\ Count(k, j) \in Nat
        BY <1>0, <3>1, <3>2, CountFacts
      <3>4. {x \in Letters("f", k) : <<k, x>> \in Q} = {x \in Letters("f", k) : x < j + 1}
        <4>1. ASSUME NEW x \in Letters("f", k) PROVE <<k, x>> \in Q <=> x < j + 1
          <5>1. x \in DOMAIN argv[k].letters /\ x \in Nat \ {0}
            BY <1>0, <3>1, ArgumentFacts DEF Letters
          <5>2. <<k, x>> \in Items
            BY <1>0, <3>1, <5>1 DEF Items
          <5>3. <<k, x>> \in R <=> x < j
            BY <1>0, <5>1, <5>2 DEF IsNext, Seen
          <5>4. <<k, x>> \in Q <=> <<k, x>> \in R \/ x = j
            OBVIOUS
          <5> QED  BY <1>0, <5>1, <5>3, <5>4
        <4> QED  BY <4>1
      <3>5. PathRead(k, Q) = Text(argv[k + 1 + Count(k, j)])
        <4>1. PathRead(k, Q) = Text(argv[k + Count(k, j + 1)])
          BY <2>4, <3>4 DEF PathRead, Count
        <4>2. k + Count(k, j + 1) = k + 1 + Count(k, j)
          BY <1>0, <3>3
        <4> QED  BY <4>1, <4>2
      <3> QED  BY <1>4, <2>2, <2>4, <3>5 DEF TakesFile
    <2> QED  BY <2>3, <2>4
  <1>5. CASE ~NamesPath(<<k, j>>)
    <2>1. file' = file /\ WithPath(Q)' = WithPath(R)
      BY <1>1, <1>5 DEF TakesFile
    <2>2. \A n \in WithPath(R) : PathRead(n, Q) = PathRead(n, R)
      <3> TAKE n \in WithPath(R)
      <3>1. CASE "file" \in DOMAIN argv[n]
        BY <3>1 DEF PathRead
      <3>2. CASE "letters" \in DOMAIN argv[n]
        <4>1. ASSUME NEW x \in Letters("f", n)
              PROVE  <<n, x>> \in Q <=> <<n, x>> \in R
          <5>1. ~(n = k /\ x = j)
            BY <1>5, <3>2, <4>1 DEF NamesPath, Letters
          <5> QED  BY <5>1
        <4>2. {x \in Letters("f", n) : <<n, x>> \in Q} = {x \in Letters("f", n) : <<n, x>> \in R}
          BY <4>1
        <4> QED  BY <4>2 DEF PathRead
      <3> QED  BY <3>1, <3>2 DEF WithPath, NamesPath
    <2> QED  BY <2>1, <2>2 DEF FileRead, Greatest
  <1> QED  BY <1>4, <1>5

LEMMA ModesNext ==
  ASSUME argv' = argv, NEW k, NEW j, NEW R, NEW Q, Q = R \cup {<<k, j>>},
         ModesRead(R), TakesModes(k, j)
  PROVE  ModesRead(Q)'
  <1>1. \A i, l, m : Means(i, l, m)' <=> Means(i, l, m)
    BY DEF Means
  <1> SUFFICES ASSUME NEW m \in Modes
               PROVE  /\ m \in DOMAIN conf' => conf'[m] = "true"
                      /\ ~help' => (m \in DOMAIN conf' <=> \E i \in Q : Means(i, LetterOf[m], m))
    BY <1>1 DEF ModesRead, LetterOf
  <1>2. m \in DOMAIN conf' => conf'[m] = "true"
    BY DEF ModesRead, TakesModes
  <1>3. ASSUME ~help' PROVE m \in DOMAIN conf' <=> \E i \in Q : Means(i, LetterOf[m], m)
    BY <1>3 DEF ModesRead, TakesModes
  <1> QED  BY <1>2, <1>3

LEMMA ReadNext ==
  ASSUME argv \in Argvs, argv' = argv, NEW k, NEW j, NEW R, IsNext(k, j, R),
         NEW Q, Q = R \cup {<<k, j>>}, Read(R), Takes(k, j)
  PROVE  Read(Q)'
  <1>1. VerboseRead(Q)'
    <2>1. \A i, l, m : Means(i, l, m)' <=> Means(i, l, m)
      BY DEF Means
    <2> QED  BY <2>1 DEF VerboseRead, Read, Takes, TakesVerbose
  <1>2. ModesRead(Q)'
    BY ModesNext DEF Read, Takes
  <1>3. FieldsRead(Q)'
    BY FieldsNext DEF Read, Takes
  <1>4. ServersRead(Q)'
    BY ServersNext DEF Read, Takes
  <1>5. JsonRead(Q)'
    BY JsonNext DEF Read, Takes
  <1>6. FileRead(Q)'
    BY FileNext DEF Read, Takes
  <1> QED  BY <1>1, <1>2, <1>3, <1>4, <1>5, <1>6 DEF Read

(* Nothing is read when no item is.                                        *)
LEMMA ReadSame ==
  ASSUME UNCHANGED <<argv, conf, help, file, jsonconf>>, NEW R, Read(R)
  PROVE  Read(R)'
  <1>1. /\ \A i, l, m : Means(i, l, m)' <=> Means(i, l, m)
        /\ \A f : Whole(R, f)' = Whole(R, f)
        /\ \A n : ServersOf(n)' = ServersOf(n)
    BY SameArgv DEF Means, Whole, ServersOf
  <1>2. WithPath(R)' = WithPath(R) /\ \A n : PathRead(n, R)' = PathRead(n, R)
    BY SameArgv DEF WithPath, NamesPath, PathRead, Text, Letters
  <1>3. ModesRead(R)' /\ VerboseRead(R)'
    BY <1>1 DEF Read, ModesRead, VerboseRead, LetterOf
  <1>4. FieldsRead(R)' /\ JsonRead(R)'
    BY <1>1 DEF Read, FieldsRead, JsonRead, Greatest
  <1>5. ServersRead(R)'
    BY <1>1 DEF Read, ServersRead, WithServers, Greatest
  <1>6. FileRead(R)'
    BY <1>2 DEF Read, FileRead, Greatest
  <1> QED  BY <1>3, <1>4, <1>5, <1>6 DEF Read

-----------------------------------------------------------------------------
(* Every step of the parser takes an item and reads it, or comes to the    *)
(* letters of an argument.                                                 *)
HasRead == \E k, j, R : At(k, j) /\ R = Seen(k, j) /\ Read(R)

LEMMA MergeTwice ==
  ASSUME NEW c, NEW d
  PROVE  Merge(c, Merge(c, d)) = Merge(c, d)
  <1>1. DOMAIN Merge(c, d) = DOMAIN c \cup DOMAIN d
    BY DEF Merge
  <1> QED  BY <1>1 DEF Merge

LEMMA CleanFacts ==
  ASSUME NEW c
  PROVE  /\ DOMAIN Clean(c) = DOMAIN c
         /\ \A f \in DOMAIN c : f \in Modes => Clean(c)[f] = Bool(c[f])
         /\ \A f \in DOMAIN c : f \notin Modes \cup {"servers"} => Clean(c)[f] = c[f]
         /\ "servers" \in DOMAIN c =>
              /\ DOMAIN Clean(c).servers = DOMAIN c.servers
              /\ \A n \in DOMAIN c.servers : Clean(c).servers[n] = Merge(DefaultServer, c.servers[n])
              /\ SameServers(Clean(c).servers, c.servers)
  <1>1. DOMAIN Clean(c) = DOMAIN c
    BY DEF Clean
  <1>2. \A f \in DOMAIN c : f \in Modes => Clean(c)[f] = Bool(c[f])
    BY DEF Clean
  <1>3. \A f \in DOMAIN c : f \notin Modes \cup {"servers"} => Clean(c)[f] = c[f]
    BY DEF Clean
  <1>4. ASSUME "servers" \in DOMAIN c
        PROVE  /\ DOMAIN Clean(c).servers = DOMAIN c.servers
               /\ \A n \in DOMAIN c.servers : Clean(c).servers[n] = Merge(DefaultServer, c.servers[n])
    <2>1. Clean(c).servers = [n \in DOMAIN c.servers |-> Merge(DefaultServer, c.servers[n])]
      BY <1>4 DEF Clean, Modes
    <2> QED  BY <2>1
  <1>5. "servers" \in DOMAIN c => SameServers(Clean(c).servers, c.servers)
    BY <1>4, MergeTwice DEF SameServers
  <1> QED  BY <1>1, <1>2, <1>3, <1>4, <1>5

(* The kind of an argument decides what it is not.                         *)
LEMMA WholeRead ==
  ASSUME argv \in Argvs, argv' = argv, HasRead,
         NEW kind \in Kinds \ {"letters"}, AtArgument(kind), Taken,
         DOMAIN argv[next] = {kind} => Takes(next, 1)
  PROVE  HasRead'
  <1>1. letters = <<>> /\ next <= Len(argv) /\ kind \in DOMAIN argv[next]
    BY DEF AtArgument
  <1>2. PICK k, j, R : At(k, j) /\ R = Seen(k, j) /\ Read(R)
    BY DEF HasRead
  <1>3. k = next /\ j = 1 /\ k \in Options /\ k \in 1..Len(argv)
    BY <1>1, <1>2, OptionFacts DEF At
  <1>4. DOMAIN argv[next] = {kind}
    BY <1>1, <1>3, ArgumentFacts
  <1>5. /\ k \in Options /\ k \in Nat /\ <<k, 1>> \in Items
        /\ At(k + 1, 1)' /\ Seen(k + 1, 1)' = Seen(k, 1) \cup {<<k, 1>>}
    <2>1. /\ At(k, j) /\ letters = <<>> /\ next <= Len(argv) /\ "letters" \notin DOMAIN argv[next]
          /\ letters' = <<>> /\ next' = next + 1
      BY <1>1, <1>2, <1>4 DEF Taken
    <2> QED  BY ONLY argv \in Argvs, argv' = argv, <2>1, WholeStep
  <1>6. PICK Q : Q = R \cup {<<k, 1>>}
    OBVIOUS
  <1>7. IsNext(k, 1, R)
    BY <1>2, <1>3, <1>5 DEF IsNext
  <1>8. Takes(k, 1)
    BY <1>3, <1>4
  <1>9. Read(Q)'
    BY ONLY argv \in Argvs, argv' = argv, <1>2, <1>6, <1>7, <1>8, ReadNext
  <1>10. Q = Seen(k + 1, 1)'
    BY <1>2, <1>3, <1>5, <1>6
  <1> QED  BY <1>5, <1>9, <1>10 DEF HasRead

LEMMA LetterRead ==
  ASSUME argv \in Argvs, argv' = argv, HasRead, letters # <<>>,
         letters' = Tail(letters), next' = IF Head(letters) = "f" THEN next + 1 ELSE next,
         next' \in 1..(Len(argv) + 1),
         \A k, j : /\ DOMAIN argv[k] = {"letters"} /\ argv[k].letters[j] = Head(letters)
                   /\ next = k + 1 + Count(k, j)
                   => Takes(k, j)
  PROVE  HasRead'
  <1>1. PICK k, j, R : At(k, j) /\ R = Seen(k, j) /\ Read(R)
    BY DEF HasRead
  <1>2. /\ k \in With("letters") /\ k \in Nat /\ <<k, j>> \in Items
        /\ argv[k].letters[j] = Head(letters) /\ next = k + 1 + Count(k, j)
        /\ \E k2, j2 : At(k2, j2)' /\ Seen(k2, j2)' = Seen(k, j) \cup {<<k, j>>}
    BY <1>1, LetterStep
  <1>3. DOMAIN argv[k] = {"letters"}
    BY <1>2, OptionFacts, ArgumentFacts DEF With
  <1>4. Takes(k, j)
    BY <1>2, <1>3
  <1>5. PICK Q : Q = R \cup {<<k, j>>}
    OBVIOUS
  <1>6. IsNext(k, j, R)
    BY <1>1, <1>2, <1>3 DEF IsNext
  <1>7. Read(Q)'
    BY ONLY argv \in Argvs, argv' = argv, <1>1, <1>4, <1>5, <1>6, ReadNext
  <1>8. PICK k2, j2 : At(k2, j2)' /\ Seen(k2, j2)' = Seen(k, j) \cup {<<k, j>>}
    BY <1>2
  <1>9. Q = Seen(k2, j2)'
    BY <1>1, <1>5, <1>8
  <1> QED  BY <1>7, <1>8, <1>9 DEF HasRead

(* What a letter or a long option without a value turns on.                *)
LEMMA SetsTakes ==
  ASSUME NEW k, NEW j, NEW kind \in {"letters", "flag"}, DOMAIN argv[k] = {kind},
         UNCHANGED <<jsonconf, file>>, ~NamesPath(<<k, j>>),
         NEW d, conf' = Merge(conf, d), NEW g, DOMAIN d = {g},
         \/ /\ g \in Modes /\ d[g] = "true"
            /\ help' \/ (~help /\ \A m \in Modes : Means(<<k, j>>, LetterOf[m], m) <=> m = g)
         \/ /\ g = "verbose" /\ Means(<<k, j>>, "v", "verbose")
            /\ help' = help /\ \A m \in Modes : ~Means(<<k, j>>, LetterOf[m], m)
  PROVE  Takes(k, j)
  <1>1. /\ DOMAIN conf' = DOMAIN conf \cup {g} /\ conf'[g] = d[g]
        /\ \A f \in DOMAIN conf \ {g} : conf'[f] = conf[f]
    <2>1. /\ DOMAIN Merge(conf, d) = DOMAIN conf \cup DOMAIN d
          /\ \A f \in DOMAIN d : Merge(conf, d)[f] = d[f]
          /\ \A f \in DOMAIN conf \ DOMAIN d : Merge(conf, d)[f] = conf[f]
      BY ONLY MergeFacts, Zenon
    <2>2. conf' = Merge(conf, d) /\ DOMAIN d = {g}
      OBVIOUS
    <2> QED  BY ONLY <2>1, <2>2
  <1>2. \A f : f # g => Keeps(f)
    BY <1>1 DEF Keeps
  <1>3. g \notin Fields \cup {"servers"}
    BY DEF Fields, Modes
  <1>4. TakesFields(k) /\ TakesServers(k) /\ TakesJson(k) /\ TakesFile(k, j)
    <2>1. {"servers", "text", "conf"} \cap DOMAIN argv[k] = {} /\ Fields \cap DOMAIN argv[k] = {}
      BY DEF Fields
    <2> QED  BY <1>2, <1>3, <2>1 DEF TakesFields, TakesServers, TakesJson, TakesFile
  <1>5. TakesModes(k, j)
    BY <1>1 DEF TakesModes, Modes
  <1>6. TakesVerbose(k, j)
    BY <1>1 DEF TakesVerbose, Modes
  <1> QED  BY <1>4, <1>5, <1>6 DEF Takes

LEMMA LetterTakes ==
  ASSUME argv \in Argvs, argv' = argv, HasRead, Letter, next \in 1..(Len(argv) + 1)
  PROVE  HasRead'
  <1>1. letters # <<>> /\ letters' = Tail(letters) /\ next' = next /\ Head(letters) # "f"
        /\ UNCHANGED <<jsonconf, file>>
    BY DEF Letter, InLetters, Sets
  <1>2. ASSUME NEW k, NEW j, DOMAIN argv[k] = {"letters"}, argv[k].letters[j] = Head(letters)
        PROVE  Takes(k, j)
    <2>1. ~NamesPath(<<k, j>>) /\ \A l, flag : Means(<<k, j>>, l, flag) <=> l = Head(letters)
      BY <1>1, <1>2 DEF NamesPath, Means
    <2>2. \A m \in Modes : LetterOf[m] \in {"i", "r", "c", "e"}
      BY DEF LetterOf, Modes
    <2>3. ASSUME NEW m \in Modes, Head(letters) = LetterOf[m], Sets([x \in {m} |-> "true"])
          PROVE  Takes(k, j)
      <3>1. \A o \in Modes : Means(<<k, j>>, LetterOf[o], o) <=> o = m
        BY <2>1, <2>3 DEF LetterOf, Modes
      <3>2. /\ conf' = Merge(conf, [x \in {m} |-> "true"]) /\ help' = help
            /\ DOMAIN [x \in {m} |-> "true"] = {m} /\ [x \in {m} |-> "true"][m] = "true"
        BY <2>3 DEF Sets
      <3>3. help' \/ (~help /\ \A o \in Modes : Means(<<k, j>>, LetterOf[o], o) <=> o = m)
        BY <3>1, <3>2
      <3> QED  BY <1>1, <1>2, <2>1, <3>2, <3>3, SetsTakes
    <2>4. CASE Head(letters) = "v" /\ Sets([verbose |-> Verbose])
      <3>1. /\ conf' = Merge(conf, [verbose |-> Verbose]) /\ help' = help
            /\ DOMAIN [verbose |-> Verbose] = {"verbose"}
        BY <2>4 DEF Sets
      <3>2. Means(<<k, j>>, "v", "verbose") /\ \A m \in Modes : ~Means(<<k, j>>, LetterOf[m], m)
        BY <2>1, <2>2, <2>4
      <3> QED  BY <1>1, <1>2, <2>1, <3>1, <3>2, SetsTakes
    <2>5. CASE help' = TRUE /\ conf' = Merge(conf, [injector |-> "true"])
      <3>1. /\ DOMAIN [injector |-> "true"] = {"injector"} /\ [injector |-> "true"]["injector"] = "true"
            /\ "injector" \in Modes
        BY DEF Modes
      <3> QED  BY <1>1, <1>2, <2>1, <2>5, <3>1, SetsTakes
    <2>6. /\ [injector |-> "true"] = [x \in {"injector"} |-> "true"]
          /\ [runner |-> "true"] = [x \in {"runner"} |-> "true"]
          /\ [controller |-> "true"] = [x \in {"controller"} |-> "true"]
          /\ [ejector |-> "true"] = [x \in {"ejector"} |-> "true"]
      OBVIOUS
    <2> QED  BY <2>3, <2>4, <2>5, <2>6 DEF Letter, LetterOf, Modes
  <1>3. next \in 1..(Len(argv) + 1)
    OBVIOUS
  <1> QED  BY <1>1, <1>2, <1>3, LetterRead

LEMMA FileLetterTakes ==
  ASSUME argv \in Argvs, argv' = argv, HasRead, FileLetter, next' \in 1..(Len(argv) + 1)
  PROVE  HasRead'
  <1>1. /\ letters # <<>> /\ letters' = Tail(letters) /\ next' = next + 1 /\ Head(letters) = "f"
        /\ file' = <<Text(argv[next])>> /\ UNCHANGED <<help, conf, jsonconf>>
    BY DEF FileLetter, InLetters, AfterPath
  <1>2. ASSUME NEW k, NEW j, DOMAIN argv[k] = {"letters"}, argv[k].letters[j] = Head(letters),
               next = k + 1 + Count(k, j)
        PROVE  Takes(k, j)
    <2>1. NamesPath(<<k, j>>) /\ \A l, flag : Means(<<k, j>>, l, flag) <=> l = "f"
      BY <1>1, <1>2 DEF NamesPath, Means
    <2>2. TakesFile(k, j)
      BY <1>1, <1>2, <2>1 DEF TakesFile
    <2>3. TakesModes(k, j) /\ TakesVerbose(k, j)
      BY <1>1, <2>1 DEF TakesModes, TakesVerbose, LetterOf, Modes
    <2>4. TakesFields(k) /\ TakesServers(k) /\ TakesJson(k)
      BY <1>1, <1>2 DEF TakesFields, TakesServers, TakesJson, Keeps, Fields
    <2> QED  BY <2>2, <2>3, <2>4 DEF Takes
  <1>3. next' \in 1..(Len(argv) + 1)
    OBVIOUS
  <1> QED  BY <1>1, <1>2, <1>3, LetterRead

LEMMA FlagTakes ==
  ASSUME argv \in Argvs, argv' = argv, HasRead, Flag
  PROVE  HasRead'
  <1>1. /\ AtArgument("flag") /\ Taken /\ UNCHANGED <<help, jsonconf, file>>
        /\ \/ argv[next].flag \in Modes /\ conf' = Merge(conf, [m \in {argv[next].flag} |-> "true"])
           \/ argv[next].flag = "verbose" /\ conf' = Merge(conf, [verbose |-> Verbose])
    BY DEF Flag, Sets
  <1>2. ASSUME DOMAIN argv[next] = {"flag"} PROVE Takes(next, 1)
    <2> DEFINE g == argv[next].flag
    <2>1. ~NamesPath(<<next, 1>>) /\ \A l, flag : Means(<<next, 1>>, l, flag) <=> flag = g
      BY <1>2 DEF NamesPath, Means
    <2>2. CASE g \in Modes /\ conf' = Merge(conf, [m \in {g} |-> "true"])
      <3>1. DOMAIN [m \in {g} |-> "true"] = {g} /\ [m \in {g} |-> "true"][g] = "true"
        OBVIOUS
      <3>2. help' \/ (~help /\ \A m \in Modes : Means(<<next, 1>>, LetterOf[m], m) <=> m = g)
        BY <1>1, <2>1
      <3> HIDE DEF g
      <3> QED  BY <1>1, <1>2, <2>1, <2>2, <3>1, <3>2, SetsTakes
    <2>3. CASE g = "verbose" /\ conf' = Merge(conf, [verbose |-> Verbose])
      <3>1. DOMAIN [verbose |-> Verbose] = {"verbose"}
        OBVIOUS
      <3>2. Means(<<next, 1>>, "v", "verbose") /\ \A m \in Modes : ~Means(<<next, 1>>, LetterOf[m], m)
        BY <2>1, <2>3 DEF Modes
      <3> QED  BY <1>1, <1>2, <2>1, <2>3, <3>1, <3>2, SetsTakes
    <2> QED  BY <1>1, <2>2, <2>3
  <1> QED  BY <1>1, <1>2, WholeRead DEF Kinds

(* --help and --file.                                                      *)
LEMMA HelpTakes ==
  ASSUME argv \in Argvs, argv' = argv, HasRead, Help
  PROVE  HasRead'
  <1>1. AtArgument("flag") /\ Taken /\ UNCHANGED <<conf, jsonconf, file>> /\ help' = TRUE
    BY DEF Help
  <1>2. ASSUME DOMAIN argv[next] = {"flag"} PROVE Takes(next, 1)
    BY <1>1, <1>2 DEF Takes, TakesModes, TakesVerbose, TakesFields, TakesServers, TakesJson,
                      TakesFile, NamesPath, Keeps, Fields
  <1> QED  BY <1>1, <1>2, WholeRead DEF Kinds

LEMMA FileTakes ==
  ASSUME argv \in Argvs, argv' = argv, HasRead, File
  PROVE  HasRead'
  <1>1. AtArgument("file") /\ Taken /\ UNCHANGED <<help, conf, jsonconf>>
        /\ file' = <<argv[next].file>>
    BY DEF File
  <1>2. ASSUME DOMAIN argv[next] = {"file"} PROVE Takes(next, 1)
    BY <1>1, <1>2 DEF Takes, TakesModes, TakesVerbose, TakesFields, TakesServers, TakesJson,
                      TakesFile, NamesPath, Means, Keeps, Fields
  <1> QED  BY <1>1, <1>2, WholeRead DEF Kinds

LEMMA JsonTakes ==
  ASSUME argv \in Argvs, argv' = argv, HasRead, JsonConf
  PROVE  HasRead'
  <1>1. AtArgument("conf") /\ Taken /\ UNCHANGED <<help, conf, file>>
        /\ jsonconf' = Clean(argv[next].conf)
    BY DEF JsonConf
  <1>2. ASSUME DOMAIN argv[next] = {"conf"} PROVE Takes(next, 1)
    BY <1>1, <1>2 DEF Takes, TakesModes, TakesVerbose, TakesFields, TakesServers, TakesJson,
                      TakesFile, NamesPath, Means, Keeps, Fields
  <1> QED  BY <1>1, <1>2, WholeRead DEF Kinds

(* A setting, or the positional argument, replaces what was said before.   *)
LEMMA ValueTakes ==
  ASSUME NEW k, NEW kind \in Fields \cup {"servers", "text"}, DOMAIN argv[k] = {kind},
         UNCHANGED <<help, jsonconf, file>>, NEW d, conf' = Merge(conf, d),
         \/ kind \in Fields /\ DOMAIN d = {kind} /\ d[kind] = argv[k][kind]
         \/ /\ kind \in {"servers", "text"} /\ DOMAIN d = {"servers"}
            /\ SameServers(d.servers, ServersOf(k))
  PROVE  Takes(k, 1)
  <1>1. /\ DOMAIN conf' = DOMAIN conf \cup DOMAIN d
        /\ \A f \in DOMAIN d : conf'[f] = d[f]
        /\ \A f \in DOMAIN conf \ DOMAIN d : conf'[f] = conf[f]
    <2>1. /\ DOMAIN Merge(conf, d) = DOMAIN conf \cup DOMAIN d
          /\ \A f \in DOMAIN d : Merge(conf, d)[f] = d[f]
          /\ \A f \in DOMAIN conf \ DOMAIN d : Merge(conf, d)[f] = conf[f]
      BY ONLY MergeFacts, Zenon
    <2>2. conf' = Merge(conf, d)
      OBVIOUS
    <2> QED  BY ONLY <2>1, <2>2
  <1>2. \A f : f \notin DOMAIN d => Keeps(f)
    BY <1>1 DEF Keeps
  <1>3. DOMAIN d \cap (Modes \cup {"verbose"}) = {}
    BY DEF Modes, Fields
  <1>4. ~NamesPath(<<k, 1>>) /\ \A l, flag : ~Means(<<k, 1>>, l, flag)
    BY DEF NamesPath, Means, Fields
  <1>5. TakesModes(k, 1) /\ TakesVerbose(k, 1)
    BY <1>2, <1>3, <1>4 DEF TakesModes, TakesVerbose, Keeps
  <1>6. TakesJson(k) /\ TakesFile(k, 1)
    BY <1>4 DEF TakesJson, TakesFile, Fields
  <1>7. TakesFields(k)
    BY <1>1, <1>2 DEF TakesFields, Fields
  <1>8. TakesServers(k)
    BY <1>1, <1>2 DEF TakesServers, Fields
  <1> QED  BY <1>5, <1>6, <1>7, <1>8 DEF Takes

LEMMA SettingTakes ==
  ASSUME argv \in Argvs, argv' = argv, HasRead, Setting \/ Positional
  PROVE  HasRead'
  <1>1. CASE Setting
    <2>1. PICK f \in Fields \cup {"servers"} : AtArgument(f)
      BY <1>1 DEF Setting, Fields
    <2>2. Taken /\ UNCHANGED <<help, jsonconf, file>> /\ conf' = Merge(conf, Clean(argv[next]))
      BY <1>1 DEF Setting, Sets
    <2>3. ASSUME DOMAIN argv[next] = {f} PROVE Takes(next, 1)
      <3>1. DOMAIN Clean(argv[next]) = {f}
        BY <2>3, CleanFacts
      <3>2. f \in Fields => Clean(argv[next])[f] = argv[next][f]
        BY <2>3, CleanFacts DEF Fields, Modes
      <3>3. f = "servers" => SameServers(Clean(argv[next]).servers, ServersOf(next))
        BY <2>3, CleanFacts DEF ServersOf
      <3> QED  BY <2>2, <2>3, <3>1, <3>2, <3>3, ValueTakes
    <2>4. f \in Kinds \ {"letters"}
      BY DEF Kinds, Fields
    <2> QED  BY <2>1, <2>2, <2>3, <2>4, WholeRead
  <1>2. CASE Positional
    <2>1. /\ AtArgument("text") /\ Taken /\ UNCHANGED <<help, jsonconf, file>>
          /\ conf' = Merge(conf, [servers |-> <<HostPort[argv[next].text]>>])
      BY <1>2 DEF Positional
    <2>2. ASSUME DOMAIN argv[next] = {"text"} PROVE Takes(next, 1)
      <3>1. SameServers(<<HostPort[argv[next].text]>>, ServersOf(next))
        BY <2>2 DEF SameServers, ServersOf
      <3>2. PICK d : d = [servers |-> <<HostPort[argv[next].text]>>]
        OBVIOUS
      <3>3. DOMAIN d = {"servers"} /\ SameServers(d.servers, ServersOf(next))
        BY <3>1, <3>2
      <3> QED  BY <2>1, <2>2, <3>2, <3>3, ValueTakes
    <2> QED  BY <2>1, <2>2, WholeRead DEF Kinds
  <1> QED  BY <1>1, <1>2

-----------------------------------------------------------------------------
(* Once all items are read, what was made of them is what was said.        *)
LEMMA LastIs ==
  ASSUME NEW S, S \subseteq Nat, NEW n, Greatest(n, S)
  PROVE  Last(S) = n /\ S # {}
  <1>1. \A o \in S : (\A p \in S : p <= o) => o = n
    BY DEF Greatest
  <1>2. n \in S /\ \A o \in S : o <= n
    BY DEF Greatest
  <1> QED  BY <1>1, <1>2, Zenon DEF Last

LEMMA AllRead ==
  ASSUME argv \in Argvs, HasRead, letters = <<>>, next > Len(argv)
  PROVE  Read(Items)
  <1>1. PICK k, j, R : At(k, j) /\ R = Seen(k, j) /\ Read(R)
    BY DEF HasRead
  <1>2. k = next /\ k \in Nat /\ Len(argv) \in Nat
    BY <1>1, ArgvsAssumption DEF At
  <1>3. \A i \in Items : i[1] < k
    BY <1>2, ItemFacts
  <1>4. R = Items
    BY <1>1, <1>3 DEF Seen
  <1> QED  BY <1>1, <1>4

LEMMA ItemsAreOptions ==
  ASSUME argv \in Argvs
  PROVE  /\ \A f \in Kinds \ {"letters"} : Whole(Items, f) = With(f) /\ With(f) \subseteq Nat
         /\ WithServers(Items) = Servers /\ Servers \subseteq Nat
         /\ WithPath(Items) = Paths /\ Paths \subseteq Nat
         /\ \A n \in Paths : PathRead(n, Items) = Path(n)
         /\ \A l, flag : (\E i \in Items : Means(i, l, flag)) <=> Names(l, flag) # {}
  <1>1. ASSUME NEW n \in Options
        PROVE  /\ n \in Nat /\ \E kind \in Kinds : DOMAIN argv[n] = {kind}
               /\ "letters" \in DOMAIN argv[n] => argv[n].letters \in Seq(STRING)
               /\ \A x : <<n, x>> \in Items <=>
                    IF "letters" \in DOMAIN argv[n] THEN x \in DOMAIN argv[n].letters ELSE x = 1
    <2>1. /\ n \in Nat /\ n \in 1..Len(argv) /\ \E kind \in Kinds : DOMAIN argv[n] = {kind}
          /\ "letters" \in DOMAIN argv[n] => argv[n].letters \in Seq(STRING)
      BY OptionFacts, ArgumentFacts
    <2>2. ASSUME NEW x
          PROVE  <<n, x>> \in Items <=>
                   IF "letters" \in DOMAIN argv[n] THEN x \in DOMAIN argv[n].letters ELSE x = 1
      <3>1. "letters" \in DOMAIN argv[n] => \A y \in DOMAIN argv[n].letters : y \in Nat \ {0}
        BY <2>1
      <3> QED  BY <3>1 DEF Items
    <2> QED  BY <2>1, <2>2
  <1>2. ASSUME NEW f \in Kinds \ {"letters"} PROVE Whole(Items, f) = With(f) /\ With(f) \subseteq Nat
    <2>1. \A n \in Options : f \in DOMAIN argv[n] => <<n, 1>> \in Items
      BY <1>1
    <2> QED  BY <1>1, <2>1 DEF Whole, With
  <1>3. WithServers(Items) = Servers /\ Servers \subseteq Nat
    BY <1>2 DEF WithServers, Servers, Kinds
  <1>4. \A n \in Options :
          (\E x \in Nat \ {0} : <<n, x>> \in Items /\ NamesPath(<<n, x>>)) <=>
            \/ "file" \in DOMAIN argv[n]
            \/ "letters" \in DOMAIN argv[n] /\ Letters("f", n) # {}
    <2> TAKE n \in Options
    <2>1. CASE "letters" \in DOMAIN argv[n]
      <3>1. "file" \notin DOMAIN argv[n]
        BY <1>1, <2>1
      <3>2. \A x : <<n, x>> \in Items /\ NamesPath(<<n, x>>) <=> x \in Letters("f", n)
        BY <1>1, <2>1, <3>1 DEF NamesPath, Letters
      <3>3. Letters("f", n) \subseteq Nat \ {0}
        BY <1>1, <2>1 DEF Letters
      <3> QED  BY <2>1, <3>1, <3>2, <3>3
    <2>2. CASE "letters" \notin DOMAIN argv[n]
      <3>1. <<n, 1>> \in Items
        BY <1>1, <2>2
      <3>2. \A x : NamesPath(<<n, x>>) <=> "file" \in DOMAIN argv[n]
        BY <2>2 DEF NamesPath
      <3>3. 1 \in Nat \ {0}
        OBVIOUS
      <3> QED  BY <2>2, <3>1, <3>2, <3>3, Zenon
    <2> QED  BY <2>1, <2>2
  <1>5. WithPath(Items) = Paths /\ Paths \subseteq Nat
    BY <1>1, <1>4 DEF WithPath, Paths, With
  <1>6. ASSUME NEW n \in Paths PROVE PathRead(n, Items) = Path(n)
    <2>1. n \in Options /\ ("file" \notin DOMAIN argv[n] => "letters" \in DOMAIN argv[n])
      BY DEF Paths, With
    <2>2. CASE "file" \in DOMAIN argv[n]
      BY <2>1, <2>2 DEF PathRead, Path, With
    <2>3. CASE "file" \notin DOMAIN argv[n]
      <3>1. {x \in Letters("f", n) : <<n, x>> \in Items} = Letters("f", n)
        BY <1>1, <2>1, <2>3 DEF Letters
      <3>2. PathRead(n, Items) = Text(argv[n + PathsOf(n)])
        BY <2>1, <2>3, <3>1 DEF PathRead, PathsOf
      <3> QED  BY <2>3, <3>2 DEF Path, With
    <2> QED  BY <2>2, <2>3
  <1>7. ASSUME NEW l, NEW flag PROVE (\E i \in Items : Means(i, l, flag)) <=> Names(l, flag) # {}
    <2>1. ASSUME NEW i \in Items, Means(i, l, flag) PROVE Names(l, flag) # {}
      <3>1. i[1] \in Options /\ i = <<i[1], i[2]>>
        BY ItemFacts
      <3>2. PICK n, x : n \in Options /\ n = i[1] /\ x = i[2] /\ <<n, x>> \in Items
        BY <3>1
      <3> QED  BY <1>1, <2>1, <3>2 DEF Means, Names, With, Letters
    <2>2. ASSUME NEW n \in Names(l, flag) PROVE \E i \in Items : Means(i, l, flag)
      <3>1. CASE n \in With("letters") /\ Letters(l, n) # {}
        <4>1. PICK x : x \in Letters(l, n)
          BY <3>1
        <4>2. <<n, x>> \in Items
          BY <1>1, <3>1, <4>1 DEF With, Letters
        <4> QED  BY <3>1, <4>1, <4>2 DEF Means, With, Letters
      <3>2. CASE n \in With("flag") /\ argv[n].flag = flag
        <4>1. <<n, 1>> \in Items
          BY <1>1, <3>2 DEF With
        <4> QED  BY <3>2, <4>1 DEF Means, With
      <3> QED  BY <3>1, <3>2 DEF Names
    <2> QED  BY <2>1, <2>2
  <1> QED  BY <1>2, <1>3, <1>5, <1>6, <1>7

(* What holds when the parser is done.                                     *)
WithDefaultServer(servers) == [n \in DOMAIN servers |-> Merge(DefaultServer, servers[n])]

FieldsTold(c) ==
  \A f \in Fields :
    IF With(f) = {} THEN f \notin DOMAIN c ELSE f \in DOMAIN c /\ c[f] = argv[Last(With(f))][f]

ServersTold(c) ==
  IF Servers = {} THEN "servers" \notin DOMAIN c
  ELSE /\ Last(Servers) \in Servers /\ "servers" \in DOMAIN c
       /\ c.servers = WithDefaultServer(ServersOf(Last(Servers)))

ModesTold(c) ==
  IF OptionModes = {} THEN Modes \cap DOMAIN c = {}
  ELSE Modes \subseteq DOMAIN c /\ \A m \in Modes : c[m] = "true" <=> m \in OptionModes

VerboseTold(c) == Names("v", "verbose") = {} => "verbose" \notin DOMAIN c

Told ==
  /\ FieldsTold(conf) /\ ServersTold(conf) /\ ModesTold(conf) /\ VerboseTold(conf)
  /\ file = IF Paths = {} THEN <<>> ELSE <<Path(Last(Paths))>>
  /\ jsonconf = Clean(JsonSays)

LEMMA CleanServers ==
  ASSUME NEW c, "servers" \in DOMAIN c
  PROVE  Clean(c).servers = WithDefaultServer(c.servers)
  BY DEF Clean, Modes, WithDefaultServer

(* Explicit adds modes and Clean leaves but the modes and the servers.     *)
LEMMA ExplicitFacts ==
  ASSUME NEW c, NEW d, d = Clean(Explicit(c)),
         \A m \in Modes \cap DOMAIN c : c[m] = "true"
  PROVE  /\ \A f : f \notin Modes => (f \in DOMAIN d <=> f \in DOMAIN c)
         /\ \A f \in DOMAIN c : f \notin Modes \cup {"servers"} => d[f] = c[f]
         /\ "servers" \in DOMAIN c => d.servers = WithDefaultServer(c.servers)
         /\ IF Modes \cap DOMAIN c = {} THEN Modes \cap DOMAIN d = {}
            ELSE Modes \subseteq DOMAIN d /\ \A m \in Modes : d[m] = "true" <=> m \in DOMAIN c
  <1> DEFINE e == Explicit(c)
             off == [m \in Modes |-> "false"]
  <1>1. "servers" \notin Modes
    BY DEF Modes
  <1>2. /\ DOMAIN d = DOMAIN e
        /\ \A f \in DOMAIN e : f \in Modes => d[f] = Bool(e[f])
        /\ \A f \in DOMAIN e : f \notin Modes \cup {"servers"} => d[f] = e[f]
        /\ "servers" \in DOMAIN e => d.servers = WithDefaultServer(e.servers)
    BY CleanFacts, CleanServers
  <1>3. CASE Modes \cap DOMAIN c = {}
    <2>1. e = c
      BY <1>3 DEF Explicit
    <2> HIDE DEF e
    <2> QED  BY <1>1, <1>2, <1>3, <2>1
  <1>4. CASE Modes \cap DOMAIN c # {}
    <2>1. e = Merge(off, c)
      BY <1>4 DEF Explicit
    <2>2. DOMAIN off = Modes /\ \A m \in Modes : off[m] = "false"
      OBVIOUS
    <2> HIDE DEF e, off
    <2>3. /\ DOMAIN e = Modes \cup DOMAIN c /\ \A f \in DOMAIN c : e[f] = c[f]
          /\ \A f \in Modes \ DOMAIN c : e[f] = "false"
      <3>1. /\ DOMAIN Merge(off, c) = DOMAIN off \cup DOMAIN c
            /\ \A f \in DOMAIN c : Merge(off, c)[f] = c[f]
            /\ \A f \in DOMAIN off \ DOMAIN c : Merge(off, c)[f] = off[f]
        BY ONLY MergeFacts, Zenon
      <3> QED  BY ONLY <2>1, <2>2, <3>1
    <2>4. \A m \in Modes : d[m] = "true" <=> m \in DOMAIN c
      BY <1>2, <2>3 DEF Bool
    <2> QED  BY <1>1, <1>2, <1>4, <2>3, <2>4
  <1> QED  BY <1>3, <1>4

(* What the command line and the files say is what they said.              *)
LEMMA SameSayings ==
  ASSUME argv' = argv
  PROVE  /\ \A f : With(f)' = With(f)
         /\ \A l, f : Names(l, f)' = Names(l, f)
         /\ Paths' = Paths /\ Servers' = Servers /\ OptionModes' = OptionModes
         /\ \A n : Path(n)' = Path(n) /\ ServersOf(n)' = ServersOf(n)
         /\ JsonSays' = JsonSays
  <1>1. \A f : With(f)' = With(f)
    BY SameArgv
  <1>2. \A l, n : Letters(l, n)' = Letters(l, n)
    BY DEF Letters
  <1>3. \A l, f : Names(l, f)' = Names(l, f)
    BY <1>1, <1>2 DEF Names
  <1>4. Paths' = Paths /\ Servers' = Servers /\ OptionModes' = OptionModes
    BY <1>1, <1>2, <1>3 DEF Paths, Servers, OptionModes, LetterOf
  <1>5. \A n : Path(n)' = Path(n) /\ ServersOf(n)' = ServersOf(n)
    BY <1>1, SameArgv DEF Path, ServersOf, Text
  <1>6. JsonSays' = JsonSays
    <2>1. With("conf")' = With("conf")
      BY <1>1
    <2>2. Last(With("conf"))' = Last(With("conf"))
      BY <2>1 DEF Last
    <2> QED  BY <2>1, <2>2 DEF JsonSays
  <1> QED  BY <1>1, <1>3, <1>4, <1>5, <1>6

LEMMA ParsedTold ==
  ASSUME argv \in Argvs, HasRead, Parsed, ~help
  PROVE  Told'
  <1>1. Read(Items)
    BY AllRead DEF Parsed
  <1>2. UNCHANGED <<argv, file, jsonconf>> /\ conf' = Clean(Explicit(conf))
    BY DEF Parsed
  <1>3. \A m \in Modes : (m \in DOMAIN conf <=> m \in OptionModes) /\ (m \in DOMAIN conf => conf[m] = "true")
    BY <1>1, ItemsAreOptions DEF Read, ModesRead, OptionModes
  <1>4. OptionModes \subseteq Modes
    BY DEF OptionModes
  <1>5. PICK d : d = conf'
    OBVIOUS
  <1>6. /\ \A f : f \notin Modes => (f \in DOMAIN d <=> f \in DOMAIN conf)
        /\ \A f \in DOMAIN conf : f \notin Modes \cup {"servers"} => d[f] = conf[f]
        /\ "servers" \in DOMAIN conf => d.servers = WithDefaultServer(conf.servers)
        /\ IF Modes \cap DOMAIN conf = {} THEN Modes \cap DOMAIN d = {}
           ELSE Modes \subseteq DOMAIN d /\ \A m \in Modes : d[m] = "true" <=> m \in DOMAIN conf
    BY <1>2, <1>3, <1>5, ExplicitFacts
  <1>7. FieldsTold(d)
    <2> SUFFICES ASSUME NEW f \in Fields
                 PROVE  IF With(f) = {} THEN f \notin DOMAIN d
                        ELSE f \in DOMAIN d /\ d[f] = argv[Last(With(f))][f]
      BY DEF FieldsTold
    <2>1. f \notin Modes \cup {"servers"} /\ f \in Kinds \ {"letters"}
      BY DEF Fields, Modes, Kinds
    <2>2. Whole(Items, f) = With(f) /\ With(f) \subseteq Nat
      BY <2>1, ItemsAreOptions
    <2>3. \/ With(f) = {} /\ f \notin DOMAIN conf
          \/ \E n : Greatest(n, With(f)) /\ f \in DOMAIN conf /\ conf[f] = argv[n][f]
      BY <1>1, <2>2 DEF Read, FieldsRead
    <2> QED  BY <1>6, <2>1, <2>2, <2>3, LastIs
  <1>8. ServersTold(d)
    <2>1. WithServers(Items) = Servers /\ Servers \subseteq Nat /\ "servers" \notin Modes
      BY ItemsAreOptions DEF Modes
    <2>2. \/ Servers = {} /\ "servers" \notin DOMAIN conf
          \/ \E n : /\ Greatest(n, Servers)
                    /\ "servers" \in DOMAIN conf /\ SameServers(conf.servers, ServersOf(n))
      BY <1>1, <2>1 DEF Read, ServersRead
    <2>3. CASE Servers # {}
      <3>1. PICK n : /\ Greatest(n, Servers)
                     /\ "servers" \in DOMAIN conf /\ SameServers(conf.servers, ServersOf(n))
        BY <2>2, <2>3
      <3>2. Last(Servers) = n /\ n \in Servers
        BY <2>1, <3>1, LastIs DEF Greatest
      <3>3. WithDefaultServer(conf.servers) = WithDefaultServer(ServersOf(n))
        BY <3>1 DEF SameServers, WithDefaultServer
      <3>4. "servers" \in DOMAIN d /\ d.servers = WithDefaultServer(ServersOf(n))
        BY <1>6, <2>1, <3>1, <3>3
      <3> QED  BY <2>3, <3>2, <3>4 DEF ServersTold
    <2> QED  BY <1>6, <2>1, <2>2, <2>3 DEF ServersTold, Greatest
  <1>9. ModesTold(d)
    BY <1>3, <1>4, <1>6 DEF ModesTold
  <1>10. VerboseTold(d)
    <2>1. "verbose" \notin Modes
      BY DEF Modes
    <2>2. "verbose" \in DOMAIN conf => Names("v", "verbose") # {}
      BY <1>1, ItemsAreOptions DEF Read, VerboseRead
    <2> QED  BY <1>6, <2>1, <2>2 DEF VerboseTold
  <1>11. file = IF Paths = {} THEN <<>> ELSE <<Path(Last(Paths))>>
    <2>1. \/ Paths = {} /\ file = <<>>
          \/ \E n : Greatest(n, Paths) /\ file = <<PathRead(n, Items)>>
      BY <1>1, ItemsAreOptions DEF Read, FileRead
    <2> QED  BY <2>1, ItemsAreOptions, LastIs DEF Greatest
  <1>12. jsonconf = Clean(JsonSays)
    <2>1. Whole(Items, "conf") = With("conf") /\ With("conf") \subseteq Nat
      BY ItemsAreOptions DEF Kinds
    <2>2. \/ With("conf") = {} /\ jsonconf = Nothing
          \/ \E n : Greatest(n, With("conf")) /\ jsonconf = Clean(argv[n].conf)
      BY <1>1, <2>1 DEF Read, JsonRead
    <2>3. Clean(Nothing) = Nothing
      BY DEF Clean, Nothing
    <2> QED  BY <2>1, <2>2, <2>3, LastIs DEF JsonSays
  <1>13. /\ \A f : With(f)' = With(f)
         /\ \A l, f : Names(l, f)' = Names(l, f)
         /\ Paths' = Paths /\ Servers' = Servers /\ OptionModes' = OptionModes
         /\ \A n : Path(n)' = Path(n) /\ ServersOf(n)' = ServersOf(n)
         /\ JsonSays' = JsonSays
    BY <1>2, SameSayings
  <1> QED
    <2>1. FieldsTold(conf)'
      <3>1. SUFFICES ASSUME NEW f \in Fields
                     PROVE  IF With(f)' = {} THEN f \notin DOMAIN d
                            ELSE f \in DOMAIN d /\ d[f] = argv'[Last(With(f)')][f]
        BY <1>5 DEF FieldsTold, Last
      <3>2. argv' = argv /\ With(f)' = With(f)
        BY <1>2, <1>13
      <3> QED  BY <1>7, <3>2 DEF FieldsTold
    <2>5. VerboseTold(conf)'
      BY <1>5, <1>10, <1>13 DEF VerboseTold
    <2>6. ModesTold(conf)'
      BY <1>5, <1>9, <1>13 DEF ModesTold
    <2>2. ServersTold(conf)'
      BY <1>2, <1>5, <1>8, <1>13 DEF ServersTold, Last
    <2>3. file' = (IF Paths = {} THEN <<>> ELSE <<Path(Last(Paths))>>)'
      BY <1>2, <1>11, <1>13 DEF Last
    <2>4. jsonconf' = Clean(JsonSays)'
      BY <1>2, <1>12, <1>13
    <2> QED  BY <2>1, <2>2, <2>3, <2>4, <2>5, <2>6 DEF Told

(* mergeDefaults and the function name leave what there is and add what    *)
(* there is not.                                                           *)
LEMMA DefaultsFacts ==
  ASSUME NEW c, NEW d, d = WithFuncName(WithDefaults(c))
  PROVE  /\ \A f \in DOMAIN c : f \in DOMAIN d /\ d[f] = c[f]
         /\ \A f \in {"verbose", "db", "controllername"} \ DOMAIN c : d[f] = Defaults[f]
         /\ "dbopt" \in DOMAIN d => "dbopt" \in DOMAIN c
         /\ Modes \cap DOMAIN c = {} => \A m \in Modes : On(d, m)
         /\ Modes \cap DOMAIN c # {} => \A m \in Modes : On(d, m) <=> On(c, m)
  <1> DEFINE x == IF Modes \cap DOMAIN c = {} THEN [m \in Modes |-> "true"] ELSE Nothing
             e == Merge(Defaults, c)
             w == WithDefaults(c)
  <1>1. /\ DOMAIN Defaults = {"verbose", "db", "controllername"}
        /\ DOMAIN Defaults \cap Modes = {} /\ "dbopt" \notin DOMAIN Defaults \cup Modes
        /\ "controllerfuncname" \notin Modes \cup {"verbose", "db", "controllername", "dbopt"}
    BY DEF Defaults, Modes
  <1>2. PICK y : d = Merge(y, w) /\ DOMAIN y = {"controllerfuncname"}
    BY DEF WithFuncName
  <1>3. w = Merge(e, x)
    BY DEF WithDefaults
  <1>4. IF Modes \cap DOMAIN c = {} THEN DOMAIN x = Modes /\ \A m \in Modes : x[m] = "true"
        ELSE DOMAIN x = {}
    BY DEF Nothing
  <1> HIDE DEF x, w
  <1>5. /\ DOMAIN e = DOMAIN Defaults \cup DOMAIN c /\ \A f \in DOMAIN c : e[f] = c[f]
        /\ \A f \in DOMAIN Defaults \ DOMAIN c : e[f] = Defaults[f]
    BY ONLY MergeFacts, Zenon
  <1> HIDE DEF e
  <1>6. /\ DOMAIN Merge(e, x) = DOMAIN e \cup DOMAIN x
        /\ \A f \in DOMAIN x : Merge(e, x)[f] = x[f]
        /\ \A f \in DOMAIN e \ DOMAIN x : Merge(e, x)[f] = e[f]
    BY ONLY MergeFacts, Zenon
  <1>7. /\ DOMAIN Merge(y, w) = DOMAIN y \cup DOMAIN w
        /\ \A f \in DOMAIN w : Merge(y, w)[f] = w[f]
    BY ONLY MergeFacts, Zenon
  <1>8. /\ DOMAIN w = DOMAIN Defaults \cup DOMAIN c \cup DOMAIN x
        /\ \A f \in DOMAIN x : w[f] = x[f]
        /\ \A f \in DOMAIN c : w[f] = c[f]
        /\ \A f \in DOMAIN Defaults \ DOMAIN c : w[f] = Defaults[f]
    BY ONLY <1>1, <1>3, <1>4, <1>5, <1>6
  <1>9. DOMAIN d = {"controllerfuncname"} \cup DOMAIN w /\ \A f \in DOMAIN w : d[f] = w[f]
    BY ONLY <1>2, <1>7
  <1>10. Modes \cap DOMAIN c = {} => \A m \in Modes : On(d, m)
    BY <1>4, <1>8, <1>9 DEF On
  <1>11. Modes \cap DOMAIN c # {} => \A m \in Modes : On(d, m) <=> On(c, m)
    <2> SUFFICES ASSUME Modes \cap DOMAIN c # {}, NEW m \in Modes PROVE On(d, m) <=> On(c, m)
      OBVIOUS
    <2>1. m \in DOMAIN d <=> m \in DOMAIN c
      BY <1>1, <1>4, <1>8, <1>9
    <2> QED  BY <1>8, <1>9, <2>1 DEF On
  <1>12. "dbopt" \in DOMAIN d => "dbopt" \in DOMAIN c
    BY <1>1, <1>4, <1>8, <1>9
  <1>13. \A f \in DOMAIN c : f \in DOMAIN d /\ d[f] = c[f]
    BY <1>8, <1>9
  <1>14. \A f \in {"verbose", "db", "controllername"} \ DOMAIN c : d[f] = Defaults[f]
    BY <1>1, <1>8, <1>9
  <1> QED  BY <1>10, <1>11, <1>12, <1>13, <1>14

(* The three that are merged, each over those below it.                    *)
LEMMA MergedFacts ==
  ASSUME Told, NEW c, c = Merged
  PROVE  /\ DOMAIN c = DOMAIN FileSays \cup DOMAIN JsonSays \cup DOMAIN conf
         /\ \A f \in DOMAIN conf : c[f] = conf[f]
         /\ \A f \in DOMAIN JsonSays \ DOMAIN conf : c[f] = Clean(JsonSays)[f]
         /\ \A f \in DOMAIN FileSays \ (DOMAIN JsonSays \cup DOMAIN conf) :
              c[f] = Clean(FileSays)[f]
  <1> DEFINE a == Clean(FileSays)
             b == Clean(JsonSays)
             e == Merge(a, b)
  <1>1. FileConf = FileSays
    <2>1. CASE Paths = {}
      BY <2>1 DEF Told, FileNamed, FileConf, FileSays
    <2>2. CASE Paths # {}
      <3>1. file # <<>> /\ file[1] = Path(Last(Paths))
        BY <2>2 DEF Told
      <3> QED  BY <2>2, <3>1 DEF FileNamed, FileConf, FileSays
    <2> QED  BY <2>1, <2>2
  <1>2. c = Merge(e, conf)
    BY <1>1 DEF Merged, Told
  <1>3. DOMAIN a = DOMAIN FileSays /\ DOMAIN b = DOMAIN JsonSays
    BY CleanFacts
  <1> HIDE DEF a, b
  <1>4. /\ DOMAIN e = DOMAIN a \cup DOMAIN b /\ \A f \in DOMAIN b : e[f] = b[f]
        /\ \A f \in DOMAIN a \ DOMAIN b : e[f] = a[f]
    BY ONLY MergeFacts, Zenon
  <1> HIDE DEF e
  <1>5. /\ DOMAIN Merge(e, conf) = DOMAIN e \cup DOMAIN conf
        /\ \A f \in DOMAIN conf : Merge(e, conf)[f] = conf[f]
        /\ \A f \in DOMAIN e \ DOMAIN conf : Merge(e, conf)[f] = e[f]
    BY ONLY MergeFacts, Zenon
  <1>6. /\ DOMAIN c = DOMAIN a \cup DOMAIN b \cup DOMAIN conf
        /\ \A f \in DOMAIN conf : c[f] = conf[f]
        /\ \A f \in DOMAIN b \ DOMAIN conf : c[f] = b[f]
        /\ \A f \in DOMAIN a \ (DOMAIN b \cup DOMAIN conf) : c[f] = a[f]
    BY ONLY <1>2, <1>4, <1>5
  <1> QED  BY <1>3, <1>6 DEF a, b

(* The modes a configuration turns on are those it was told to.            *)
LEMMA ModesConfigured ==
  ASSUME Told, NEW d, d = WithFuncName(WithDefaults(Merged))
  PROVE  {m \in Modes : On(d, m)} =
           IF OptionModes # {} THEN OptionModes
           ELSE IF Modes \cap (DOMAIN JsonSays \cup DOMAIN FileSays) = {} THEN Modes
           ELSE {m \in Modes : Below(m, "false") \in {"true", "'true'"}}
  <1>1. PICK c : c = Merged
    OBVIOUS
  <1>2. /\ Modes \cap DOMAIN c = {} => \A m \in Modes : On(d, m)
        /\ Modes \cap DOMAIN c # {} => \A m \in Modes : On(d, m) <=> On(c, m)
    BY <1>1, DefaultsFacts
  <1>3. /\ DOMAIN c = DOMAIN FileSays \cup DOMAIN JsonSays \cup DOMAIN conf
        /\ \A f \in DOMAIN conf : c[f] = conf[f]
        /\ \A f \in DOMAIN JsonSays \ DOMAIN conf : c[f] = Clean(JsonSays)[f]
        /\ \A f \in DOMAIN FileSays \ (DOMAIN JsonSays \cup DOMAIN conf) :
             c[f] = Clean(FileSays)[f]
    BY <1>1, MergedFacts
  <1>4. ModesTold(conf) /\ OptionModes \subseteq Modes
    BY DEF Told, OptionModes
  <1>5. CASE OptionModes # {}
    <2>1. Modes \subseteq DOMAIN conf /\ \A m \in Modes : conf[m] = "true" <=> m \in OptionModes
      BY <1>4, <1>5 DEF ModesTold
    <2>2. \A m \in Modes : On(c, m) <=> m \in OptionModes
      BY <1>3, <2>1 DEF On
    <2>3. Modes \cap DOMAIN c # {}
      BY <1>3, <1>4, <1>5, <2>1
    <2> QED  BY <1>2, <1>4, <1>5, <2>2, <2>3
  <1>6. CASE OptionModes = {}
    <2>1. Modes \cap DOMAIN conf = {}
      BY <1>4, <1>6 DEF ModesTold
    <2>2. Modes \cap DOMAIN c = Modes \cap (DOMAIN JsonSays \cup DOMAIN FileSays)
      BY <1>3, <2>1
    <2>3. ASSUME NEW m \in Modes PROVE On(c, m) <=> Below(m, "false") \in {"true", "'true'"}
      <3>1. \A t : Bool(t) = "true" <=> t \in {"true", "'true'"}
        BY DEF Bool
      <3>2. CASE m \in DOMAIN JsonSays
        <4>1. m \in DOMAIN c /\ c[m] = Bool(JsonSays[m])
          BY <1>3, <2>1, <3>2, CleanFacts
        <4> QED  BY <3>1, <3>2, <4>1 DEF On, Below
      <3>3. CASE m \notin DOMAIN JsonSays /\ m \in DOMAIN FileSays
        <4>1. m \in DOMAIN c /\ c[m] = Bool(FileSays[m])
          BY <1>3, <2>1, <3>3, CleanFacts
        <4> QED  BY <3>1, <3>3, <4>1 DEF On, Below
      <3>4. CASE m \notin DOMAIN JsonSays /\ m \notin DOMAIN FileSays
        BY <2>2, <3>4 DEF On, Below
      <3> QED  BY <3>2, <3>3, <3>4
    <2> QED  BY <1>2, <1>6, <2>2, <2>3
  <1> QED  BY <1>5, <1>6

(* And so are its other settings.                                          *)
LEMMA SettingsConfigured ==
  ASSUME Told, Complete(Merged), NEW d, d = WithFuncName(WithDefaults(Merged))
  PROVE  /\ d.db = Said("db", "sqlite")
         /\ d.controllername = Said("controllername", "retry")
         /\ d.servers = WithDefaultServer(ServersSaid)
         /\ Names("v", "verbose") = {} => d.verbose = Below("verbose", 0)
         /\ "dbopt" \in DOMAIN d => d.dbopt = Said("dbopt", <<>>)
  <1>1. PICK c : c = Merged
    OBVIOUS
  <1>2. /\ \A f \in DOMAIN c : f \in DOMAIN d /\ d[f] = c[f]
        /\ \A f \in {"verbose", "db", "controllername"} \ DOMAIN c : d[f] = Defaults[f]
        /\ "dbopt" \in DOMAIN d => "dbopt" \in DOMAIN c
    BY <1>1, DefaultsFacts
  <1>3. /\ DOMAIN c = DOMAIN FileSays \cup DOMAIN JsonSays \cup DOMAIN conf
        /\ \A f \in DOMAIN conf : c[f] = conf[f]
        /\ \A f \in DOMAIN JsonSays \ DOMAIN conf : c[f] = Clean(JsonSays)[f]
        /\ \A f \in DOMAIN FileSays \ (DOMAIN JsonSays \cup DOMAIN conf) :
             c[f] = Clean(FileSays)[f]
    BY <1>1, MergedFacts
  <1>4. ASSUME NEW f \in Fields \cup {"verbose"}, f \notin DOMAIN conf, NEW z
        PROVE  IF f \in DOMAIN c THEN c[f] = Below(f, z) ELSE Below(f, z) = z
    <2>1. f \notin Modes \cup {"servers"}
      BY DEF Fields, Modes
    <2>2. CASE f \in DOMAIN JsonSays
      <3>1. c[f] = JsonSays[f]
        BY <1>3, <1>4, <2>1, <2>2, CleanFacts
      <3> QED  BY <1>3, <2>2, <3>1 DEF Below
    <2>3. CASE f \notin DOMAIN JsonSays /\ f \in DOMAIN FileSays
      <3>1. c[f] = FileSays[f]
        BY <1>3, <1>4, <2>1, <2>3, CleanFacts
      <3> QED  BY <1>3, <2>3, <3>1 DEF Below
    <2>4. CASE f \notin DOMAIN JsonSays /\ f \notin DOMAIN FileSays
      BY <1>3, <1>4, <2>4 DEF Below
    <2> QED  BY <2>2, <2>3, <2>4
  <1>5. ASSUME NEW f \in Fields, NEW z
        PROVE  IF f \in DOMAIN c THEN c[f] = Said(f, z) ELSE Said(f, z) = z
    <2>1. IF With(f) = {} THEN f \notin DOMAIN conf
          ELSE f \in DOMAIN conf /\ conf[f] = argv[Last(With(f))][f]
      BY DEF Told, FieldsTold
    <2>2. CASE With(f) = {}
      <3>1. Said(f, z) = Below(f, z)
        BY <2>2 DEF Said
      <3> QED  BY <1>4, <2>1, <2>2, <3>1
    <2>3. CASE With(f) # {}
      BY <1>3, <2>1, <2>3 DEF Said
    <2> QED  BY <2>2, <2>3
  <1>6. d.db = Said("db", "sqlite")
    <2>1. IF "db" \in DOMAIN c THEN c["db"] = Said("db", "sqlite") ELSE Said("db", "sqlite") = "sqlite"
      BY <1>5 DEF Fields
    <2> QED  BY <1>2, <2>1 DEF Defaults
  <1>7. d.controllername = Said("controllername", "retry")
    <2>1. IF "controllername" \in DOMAIN c THEN c["controllername"] = Said("controllername", "retry")
          ELSE Said("controllername", "retry") = "retry"
      BY <1>5 DEF Fields
    <2> QED  BY <1>2, <2>1 DEF Defaults
  <1>8. "dbopt" \in DOMAIN d => d.dbopt = Said("dbopt", <<>>)
    <2>1. "dbopt" \in DOMAIN c => c["dbopt"] = Said("dbopt", <<>>)
      BY <1>5 DEF Fields
    <2> QED  BY <1>2, <2>1
  <1>9. ASSUME Names("v", "verbose") = {} PROVE d.verbose = Below("verbose", 0)
    <2>1. "verbose" \notin DOMAIN conf
      BY <1>9 DEF Told, VerboseTold
    <2>2. IF "verbose" \in DOMAIN c THEN c["verbose"] = Below("verbose", 0)
          ELSE Below("verbose", 0) = 0
      BY <1>4, <2>1
    <2> QED  BY <1>2, <2>2 DEF Defaults
  <1>10. d.servers = WithDefaultServer(ServersSaid)
    <2>1. "servers" \in DOMAIN c /\ d.servers = c.servers
      BY <1>1, <1>2 DEF Complete
    <2>2. CASE Servers = {}
      <3>1. "servers" \notin DOMAIN conf /\ ServersSaid = Below("servers", <<>>)
        BY <2>2 DEF Told, ServersTold, ServersSaid
      <3>2. CASE "servers" \in DOMAIN JsonSays
        <4>1. c.servers = WithDefaultServer(JsonSays.servers)
          BY <1>3, <3>1, <3>2, CleanServers
        <4> QED  BY <2>1, <3>1, <3>2, <4>1 DEF Below
      <3>3. CASE "servers" \notin DOMAIN JsonSays
        <4>1. "servers" \in DOMAIN FileSays /\ c.servers = WithDefaultServer(FileSays.servers)
          BY <1>3, <2>1, <3>1, <3>3, CleanServers
        <4> QED  BY <2>1, <3>1, <3>3, <4>1 DEF Below
      <3> QED  BY <3>2, <3>3
    <2>3. CASE Servers # {}
      <3>1. PICK n : n = Last(Servers)
        OBVIOUS
      <3>2. n \in Servers /\ "servers" \in DOMAIN conf
            /\ conf.servers = WithDefaultServer(ServersOf(n))
        BY <2>3, <3>1 DEF Told, ServersTold
      <3>3. n \in With("text") <=> "text" \in DOMAIN argv[n]
        BY <3>2 DEF Servers, With
      <3>4. ServersSaid = ServersOf(n)
        BY <2>3, <3>1, <3>3 DEF ServersSaid, ServersOf
      <3> QED  BY <1>3, <2>1, <3>2, <3>4
    <2> QED  BY <2>2, <2>3
  <1> QED  BY <1>6, <1>7, <1>8, <1>9, <1>10

-----------------------------------------------------------------------------
(* What is true throughout: the parser has read all items up to where it   *)
(* is, then all of them, and the configuration is made of what they said.  *)
ToldInv ==
  /\ Parsing => HasRead
  /\ phase = "parsed" => Told
  /\ ModesAsTold /\ SettingsAsTold

LEMMA ToldInit == StartupInit => ToldInv
  <1> SUFFICES ASSUME StartupInit PROVE ToldInv
    OBVIOUS
  <1>1. /\ argv \in Argvs /\ next = 1 /\ letters = <<>> /\ file = <<>> /\ phase = "parsing"
        /\ conf = Nothing /\ jsonconf = Nothing /\ DOMAIN Nothing = {}
    BY DEF StartupInit, Init, Nothing
  <1>2. Len(argv) \in Nat /\ Options \subseteq 1..Len(argv) /\ (1 <= Len(argv) => 1 \in Options)
    BY <1>1, ArgvsAssumption, OptionFacts
  <1>3. At(1, 1)
    BY <1>1, <1>2 DEF At
  <1>4. Seen(1, 1) = {}
    <2>1. \A i \in Items : i[1] \in Nat \ {0} /\ i[2] \in Nat \ {0}
      BY <1>1, <1>2, ItemFacts
    <2>2. \A i \in Items : ~(i[1] < 1) /\ ~(i[2] < 1)
      BY <2>1
    <2> QED  BY <2>2 DEF Seen
  <1>5. Read({})
    <2>1. \A f : Whole({}, f) = {}
      BY DEF Whole
    <2>2. WithServers({}) = {} /\ WithPath({}) = {}
      BY <2>1 DEF WithServers, WithPath
    <2> QED  BY <1>1, <2>1, <2>2 DEF Read, ModesRead, VerboseRead, FieldsRead, ServersRead, JsonRead,
                                 FileRead
  <1>6. HasRead
    BY <1>3, <1>4, <1>5 DEF HasRead
  <1> QED  BY <1>1, <1>6 DEF ToldInv, Parsing, ModesAsTold, SettingsAsTold, Configured

(* Whatever the parser does, it reads the item that it takes.              *)
LEMMA ReadStep ==
  ASSUME ParserTypes, ParserTypes', HasRead,
         Letter \/ FileLetter \/ ShortOptions \/ Flag \/ Help \/ File \/ Setting \/ JsonConf \/ Positional
  PROVE  HasRead'
  <1>1. /\ argv \in Argvs /\ argv' = argv
        /\ next \in 1..(Len(argv) + 1) /\ next' \in 1..(Len(argv) + 1)
    BY DEF ParserTypes, Letter, FileLetter, ShortOptions, Flag, Help, File, Setting, JsonConf,
           Positional, Sets
  <1>2. CASE ShortOptions
    <2>1. /\ letters = <<>> /\ next <= Len(argv) /\ "letters" \in DOMAIN argv[next]
          /\ letters' = argv[next].letters /\ next' = next + 1
          /\ UNCHANGED <<argv, conf, help, file, jsonconf>>
      BY <1>2 DEF ShortOptions, AtArgument
    <2>2. PICK k, j, R : At(k, j) /\ R = Seen(k, j) /\ Read(R)
      BY DEF HasRead
    <2>3. PICK k2, j2 : At(k2, j2)' /\ Seen(k2, j2)' = Seen(k, j)
      BY <1>1, <2>1, <2>2, ShortStep
    <2>4. Read(R)'
      BY <2>1, <2>2, ReadSame
    <2> QED  BY <2>2, <2>3, <2>4 DEF HasRead
  <1>3. CASE Letter
    BY <1>1, <1>3, LetterTakes
  <1>4. CASE FileLetter
    BY <1>1, <1>4, FileLetterTakes
  <1> QED  BY <1>1, <1>2, <1>3, <1>4, FlagTakes, HelpTakes, FileTakes, JsonTakes, SettingTakes

(* What the files say stays too, and so does what follows from both.       *)
LEMMA StillSaid ==
  ASSUME UNCHANGED <<argv, disk>>
  PROVE  /\ OptionModes' = OptionModes /\ JsonSays' = JsonSays /\ FileSays' = FileSays
         /\ \A f, z : Below(f, z)' = Below(f, z) /\ Said(f, z)' = Said(f, z)
         /\ Names("v", "verbose")' = Names("v", "verbose") /\ ServersSaid' = ServersSaid
  <1>1. /\ \A f : With(f)' = With(f) /\ \A l, flag : Names(l, flag)' = Names(l, flag)
        /\ Paths' = Paths /\ Servers' = Servers /\ OptionModes' = OptionModes
        /\ \A n : Path(n)' = Path(n) /\ ServersOf(n)' = ServersOf(n)
        /\ JsonSays' = JsonSays
    BY SameSayings
  <1>2. FileSays' = FileSays
    <2>1. Path(Last(Paths))' = Path(Last(Paths))
      BY <1>1 DEF Last
    <2>2. Usual' = Usual
      BY DEF Usual
    <2> QED  BY <1>1, <2>1, <2>2 DEF FileSays
  <1>3. \A f, z : Below(f, z)' = Below(f, z)
    BY <1>1, <1>2 DEF Below
  <1>4. ASSUME NEW f, NEW z PROVE Said(f, z)' = Said(f, z)
    <2>1. With(f)' = With(f) /\ Last(With(f))' = Last(With(f))
      BY <1>1 DEF Last
    <2> QED  BY <1>3, <2>1 DEF Said
  <1>5. ServersSaid' = ServersSaid
    <2>1. Last(Servers)' = Last(Servers) /\ With("text")' = With("text")
      BY <1>1 DEF Last
    <2> QED  BY <1>1, <1>3, <2>1 DEF ServersSaid
  <1> QED  BY <1>1, <1>2, <1>3, <1>4, <1>5

(* What the parser was told is what it was told.                           *)
LEMMA StillTold ==
  ASSUME Told, UNCHANGED <<argv, conf, file, jsonconf>>
  PROVE  Told'
  <1>1. /\ \A f : With(f)' = With(f) /\ \A l, flag : Names(l, flag)' = Names(l, flag)
        /\ Paths' = Paths /\ Servers' = Servers /\ OptionModes' = OptionModes
        /\ \A n : Path(n)' = Path(n) /\ ServersOf(n)' = ServersOf(n)
        /\ JsonSays' = JsonSays
    BY SameSayings
  <1>2. FieldsTold(conf)'
    <2>1. SUFFICES ASSUME NEW f \in Fields
                   PROVE  IF With(f)' = {} THEN f \notin DOMAIN conf
                          ELSE f \in DOMAIN conf /\ conf[f] = argv'[Last(With(f)')][f]
      BY DEF FieldsTold, Last
    <2>2. argv' = argv /\ With(f)' = With(f)
      BY <1>1
    <2> QED  BY <2>2 DEF Told, FieldsTold
  <1>3. VerboseTold(conf)' /\ ModesTold(conf)'
    BY <1>1 DEF Told, VerboseTold, ModesTold
  <1>4. ServersTold(conf)'
    BY <1>1 DEF Told, ServersTold, Last
  <1>5. file' = (IF Paths = {} THEN <<>> ELSE <<Path(Last(Paths))>>)'
    BY <1>1 DEF Told, Last
  <1>6. jsonconf' = Clean(JsonSays)'
    BY <1>1 DEF Told
  <1> QED  BY <1>2, <1>3, <1>4, <1>5, <1>6 DEF Told

(* A configuration is as told as long as it stays.                         *)
LEMMA SameTold ==
  ASSUME ModesAsTold, SettingsAsTold, UNCHANGED <<argv, disk, config>>, Configured' => Configured
  PROVE  (ModesAsTold /\ SettingsAsTold)'
  <1>1. /\ OptionModes' = OptionModes /\ JsonSays' = JsonSays /\ FileSays' = FileSays
        /\ \A f, z : Below(f, z)' = Below(f, z) /\ Said(f, z)' = Said(f, z)
        /\ Names("v", "verbose")' = Names("v", "verbose") /\ ServersSaid' = ServersSaid
    BY StillSaid
  <1>2. Entries' = Entries
    BY DEF Entries
  <1>3. ModesAsTold'
    BY <1>1 DEF ModesAsTold
  <1>4. SettingsAsTold'
    BY <1>1, <1>2 DEF SettingsAsTold
  <1> QED  BY <1>3, <1>4

LEMMA ToldStep ==
  ASSUME ParserTypes, ParserTypes', ToldInv, [Next]_vars
  PROVE  ToldInv'
  <1> USE DEF ToldInv
  <1>0. argv \in Argvs
    BY DEF ParserTypes
  <1>1. CASE Configuring /\ (Letter \/ FileLetter \/ ShortOptions \/ Flag \/ Help \/ File \/ Setting
                               \/ JsonConf \/ Positional)
    <2>1. Parsing /\ phase' = "parsing"
      BY <1>1 DEF Letter, FileLetter, ShortOptions, Flag, Help, File, Setting, JsonConf, Positional,
                  Sets, InLetters, AtArgument, Parsing
    <2>2. HasRead'
      BY <1>1, <2>1, ReadStep
    <2> QED  BY <2>1, <2>2 DEF ModesAsTold, SettingsAsTold, Configured
  <1>2. CASE LetterError \/ OptionError \/ ParseError \/ ConfigureError \/ ResolveError \/ Exit
             \/ \E n \in opening : OpenError(n)
    <2>1. phase' \in {"failed", "exited"}
      BY <1>2 DEF LetterError, OptionError, ParseError, ConfigureError, ResolveError, Exit, OpenError,
                  Throw
    <2> QED  BY <2>1 DEF ModesAsTold, SettingsAsTold, Configured, Parsing
  <1>3. CASE Parsed
    <2>1. Parsing /\ phase' = IF help THEN "help" ELSE "parsed"
      BY <1>3 DEF Parsed
    <2>2. ~help => Told'
      BY <1>0, <1>3, <2>1, ParsedTold
    <2>3. phase' \in {"help", "parsed"} /\ (phase' = "parsed" => ~help)
      BY <2>1
    <2> QED  BY <2>2, <2>3 DEF ModesAsTold, SettingsAsTold, Configured, Parsing
  <1>4. CASE Configure
    <2>1. /\ Told /\ Complete(Merged) /\ phase' = "configured"
          /\ config' = WithFuncName(WithDefaults(Merged)) /\ UNCHANGED <<argv, disk>>
      BY <1>4 DEF Configure
    <2>2. PICK d : d = config'
      OBVIOUS
    <2>3. {m \in Modes : On(d, m)} =
            IF OptionModes # {} THEN OptionModes
            ELSE IF Modes \cap (DOMAIN JsonSays \cup DOMAIN FileSays) = {} THEN Modes
            ELSE {m \in Modes : Below(m, "false") \in {"true", "'true'"}}
      BY <2>1, <2>2, ModesConfigured
    <2>4. /\ d.db = Said("db", "sqlite")
          /\ d.controllername = Said("controllername", "retry")
          /\ d.servers = WithDefaultServer(ServersSaid)
          /\ Names("v", "verbose") = {} => d.verbose = Below("verbose", 0)
          /\ "dbopt" \in DOMAIN d => d.dbopt = Said("dbopt", <<>>)
      BY <2>1, <2>2, SettingsConfigured
    <2>5. /\ OptionModes' = OptionModes /\ JsonSays' = JsonSays /\ FileSays' = FileSays
          /\ \A f, z : Below(f, z)' = Below(f, z) /\ Said(f, z)' = Said(f, z)
          /\ Names("v", "verbose")' = Names("v", "verbose") /\ ServersSaid' = ServersSaid
      BY <2>1, StillSaid
    <2>6. ModesAsTold'
      BY <2>2, <2>3, <2>5 DEF ModesAsTold
    <2>7. Entries' = IF d.db # "composite" THEN <<[db |-> d.db, db_id |-> "none"]>>
                     ELSE IF "dbopt" \in DOMAIN d THEN d.dbopt ELSE <<>>
      BY <2>2 DEF Entries
    <2>8. SettingsAsTold'
      BY <2>2, <2>4, <2>5, <2>7 DEF SettingsAsTold, WithDefaultServer
    <2> QED  BY <2>1, <2>6, <2>8 DEF Parsing
  <1>5. CASE UNCHANGED vars \/ Resolve \/ Run \/ \E n \in opening : Opened(n)
    <2>1. UNCHANGED <<argv, disk, config>>
      BY <1>5 DEF vars, configVars, Resolve, Run, Opened
    <2>2. CASE UNCHANGED vars
      <3>1. UNCHANGED <<argv, next, letters, conf, help, file, jsonconf, phase, disk, config>>
        BY <2>2 DEF vars, configVars, parser
      <3>2. HasRead => HasRead'
        <4> SUFFICES ASSUME HasRead PROVE HasRead'
          OBVIOUS
        <4>1. PICK k, j, R : At(k, j) /\ R = Seen(k, j) /\ Read(R)
          BY DEF HasRead
        <4>2. At(k, j)' /\ R = Seen(k, j)'
          BY <3>1, <4>1, SameArgv DEF At
        <4>3. Read(R)'
          BY <3>1, <4>1, ReadSame
        <4> QED  BY <4>2, <4>3 DEF HasRead
      <3>3. Told => Told'
        BY <3>1, StillTold
      <3> QED  BY <2>1, <3>1, <3>2, <3>3, SameTold DEF Parsing, Configured
    <2>3. CASE Resolve \/ Run \/ \E n \in opening : Opened(n)
      <3>1. /\ phase \in {"configured", "opening"} /\ phase' \in {"opening", "running"}
        BY <2>3 DEF Resolve, Run, Opened, configVars
      <3> QED  BY <2>1, <3>1, SameTold DEF Parsing, Configured
    <2> QED  BY <1>5, <2>2, <2>3
  <1> QED  BY <1>1, <1>2, <1>3, <1>4, <1>5 DEF Next, Configuring, ConfigNext

(* Whatever the order of the options, bundled or not, with paths in the    *)
(* midst of them, the modes of a daemon are those that its options name,   *)
(* or else what --conf and the file say, or else all.                      *)
THEOREM ModesAlwaysAsTold == Spec => []ModesAsTold
  <1>1. StartupInit => ParserTypes /\ ToldInv
    BY TypesInit, ToldInit
  <1>2. ParserTypes /\ ToldInv /\ [Next]_vars => (ParserTypes /\ ToldInv)'
    BY ParserStep, ToldStep
  <1>3. ToldInv => ModesAsTold
    BY DEF ToldInv
  <1> QED  BY <1>1, <1>2, <1>3, PTL DEF Spec

(* And a setting is what was last said by whoever ranks highest: an option *)
(* over --conf, --conf over the file, the file over the defaults.          *)
THEOREM SettingsAlwaysAsTold == Spec => []SettingsAsTold
  <1>1. StartupInit => ParserTypes /\ ToldInv
    BY TypesInit, ToldInit
  <1>2. ParserTypes /\ ToldInv /\ [Next]_vars => (ParserTypes /\ ToldInv)'
    BY ParserStep, ToldStep
  <1>3. ToldInv => SettingsAsTold
    BY DEF ToldInv
  <1> QED  BY <1>1, <1>2, <1>3, PTL DEF Spec

-----------------------------------------------------------------------------
(* The first letter is taken from what is left of a group of them.         *)
LEMMA StepAdvances ==
  ASSUME ParserTypes, ParserTypes', ToldInv, Next
  PROVE  Advances
  <1> USE DEF Phase
  <1>1. phase = "parsing" => (letters # <<>> => Len(Tail(letters)) < Len(letters))
    <2> SUFFICES ASSUME phase = "parsing", letters # <<>> PROVE Len(Tail(letters)) < Len(letters)
      OBVIOUS
    <2>1. PICK k, j : At(k, j)
      BY DEF ToldInv, HasRead, Parsing
    <2>2. letters \in Seq(STRING)
      BY <2>1 DEF At
    <2> QED  BY <2>2
  <1>2. next \in Nat
    BY DEF ParserTypes
  <1>3. CASE Configuring
    <2>1. CASE Letter
      BY <1>1, <1>2, <2>1 DEF Letter, Sets, InLetters, Parsing, Advances
    <2>2. CASE FileLetter \/ ShortOptions
      BY <1>2, <2>2 DEF FileLetter, ShortOptions, AfterPath, InLetters, AtArgument, Parsing, Advances
    <2>3. CASE Flag \/ Help \/ File \/ Setting \/ JsonConf \/ Positional
      <3>1. phase = "parsing" /\ phase' = "parsing" /\ next' = next + 1
        BY <2>3 DEF Flag, Help, File, Setting, JsonConf, Positional, Taken, Sets, AtArgument, Parsing
      <3> QED  BY <1>2, <3>1 DEF Advances
    <2>4. CASE LetterError \/ OptionError \/ ParseError \/ ConfigureError
      <3>1. phase \in {"parsing", "parsed"} /\ phase' = "failed"
        BY <2>4 DEF LetterError, OptionError, ParseError, ConfigureError, Throw, InLetters, AtArgument,
                    Parsing
      <3> QED  BY <3>1 DEF Advances
    <2>5. CASE Parsed \/ Configure
      <3>1. \/ phase = "parsing" /\ phase' \in {"help", "parsed"}
            \/ phase = "parsed" /\ phase' = "configured"
        BY <2>5 DEF Parsed, Configure, Parsing
      <3> QED  BY <3>1 DEF Advances
    <2> QED  BY <1>3, <2>1, <2>2, <2>3, <2>4, <2>5 DEF Configuring, ConfigNext
  <1>4. CASE Resolve \/ ResolveError \/ Run \/ Exit \/ \E n \in opening : OpenError(n)
    <2>1. \/ phase = "configured" /\ phase' \in {"opening", "failed"}
          \/ phase = "opening" /\ phase' \in {"running", "failed"}
          \/ phase \in {"failed", "help"} /\ phase' = "exited"
      BY <1>4 DEF Resolve, ResolveError, Run, Exit, OpenError, Throw
    <2> QED  BY <2>1 DEF Advances
  <1>5. CASE \E n \in opening : Opened(n)
    BY <1>5 DEF Opened, configVars, Advances
  <1> QED  BY <1>3, <1>4, <1>5 DEF Next

(* However long a command line, the start never goes round in circles: it  *)
(* reads each argument and each letter once, and opens each database once. *)
THEOREM StartAdvances == Spec => AlwaysAdvances
  <1>1. StartupInit => ParserTypes /\ ToldInv
    BY TypesInit, ToldInit
  <1>2. ParserTypes /\ ToldInv /\ [Next]_vars => (ParserTypes /\ ToldInv)'
    BY ParserStep, ToldStep
  <1>3. ParserTypes /\ ParserTypes' /\ ToldInv /\ [Next]_vars => [Advances]_vars
    BY StepAdvances
  <1> QED  BY <1>1, <1>2, <1>3, PTL DEF Spec, AlwaysAdvances
=============================================================================
