----------------------------- MODULE MCStartup ------------------------------
(* Command lines of up to four arguments over an alphabet with every kind  *)
(* of option, valid and not, and files at the usual places and elsewhere.  *)
EXTENDS Startup

None == [f \in {} |-> 0]

Arguments ==
  {[letters |-> l] : l \in {<<"r">>, <<"v", "e">>, <<"f", "i">>}}
  \cup {[flag |-> f] : f \in {"controller", "verbose"}}
  \cup {[text |-> t] : t \in {"host", "etc"}}
  \cup {[file |-> "etc"], [db |-> "composite"], [servers |-> <<[port |-> 65535]>>],
        [dbopt |-> <<[db |-> "sqlite", db_id |-> "a"], [db |-> "mysql", db_id |-> "b"],
                     [db |-> "sqlite", db_id |-> "a"]>>],
        [conf |-> [injector |-> "false", servers |-> <<[host |-> "h"]>>, verbose |-> NaN]],
        [conf |-> [ejector |-> "'true'", db |-> "mysql"]]}

(* Those that seldom lead to a daemon, in shorter command lines.           *)
Others ==
  {[letters |-> l] : l \in {<<"h">>, <<"x">>, <<"c", "v">>}}
  \cup {[flag |-> f] : f \in {"runner", "help"}}
  \cup {[text |-> "a:b:c"], [text |-> ""], [file |-> "gone"], [controllername |-> "mine"],
        [unknown |-> "option"], [servers |-> <<>>], [servers |-> <<[port |-> 65536]>>],
        [dbopt |-> <<[db |-> "sqlite", db_id |-> "null"]>>],
        [dbopt |-> <<[db |-> "sqlite"], [db_id |-> "b"]>>],
        [conf |-> [runner |-> "'true'", servers |-> <<[host |-> "h"], [host |-> Junk]>>]]}

(* Short options with two paths, and what may stand in their places.       *)
Few == {[letters |-> <<"f", "i">>], [flag |-> "controller"], [text |-> "etc"], [file |-> "etc"]}

MCArgvs ==
  {<<>>} \cup UNION {[1..n -> Arguments \cup Others] : n \in 1..2} \cup [1..3 -> Arguments]
  \cup {<<[letters |-> <<"f", "e", "f">>]>> \o rest : rest \in [1..3 -> Few]}

MCHostPort == [t \in {"host", "etc", ""} |-> IF t = "" THEN None ELSE [host |-> t]]
MCConfPaths == <<"cwd", "etc">>

MCDisks ==
  {None,
   [etc |-> [servers |-> <<[port |-> 1, host |-> "h"]>>, runner |-> "true",
             ejector |-> "'false'", verbose |-> 2, dbopt |-> <<>>]],
   [etc |-> [injector |-> "true", db |-> ""],
    cwd |-> [servers |-> <<[host |-> "w"]>>, controllername |-> "mine",
             dbopt |-> <<[db |-> "mysql", db_id |-> "c"]>>]]}

MCFuncName == [retry |-> "retryController", mine |-> "mineController"]
=============================================================================
