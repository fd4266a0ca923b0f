----------------------------- MODULE CommandLine -----------------------------
(***************************************************************************)
(* Config::InitFromCommandLine (Config.h) and what main (Main.cpp) does    *)
(* with its result.  A loop takes the arguments one after the other: an    *)
(* argument that begins with '-' names an option, the next one is its      *)
(* value unless that begins with '-' too.  A name the loop does not know   *)
(* goes, with its value, into the configuration of jelly.  main then sets  *)
(* five options itself and constructs the backend.                         *)
(*                                                                         *)
(* An argument is a text and whether a '-' comes before it; the program's  *)
(* name, aArgs[0], is left out.                                            *)
(***************************************************************************)
EXTENDS Integers, Sequences, FiniteSetsExt

CONSTANTS
  Text,        \* arguments on a line, without their '-'
  MaxArgs,     \* bound: arguments on a line
  atoi,        \* what atoi returns for a text: 0 for one it cannot read
  SizeT,       \* 2^64, the modulus of size_t
  Uint32,      \* 2^32, the modulus of uint32_t
  HasRocksDB,  \* JELLY_BENCH_ROCKSDB is defined
  None         \* no value

SizeOption == {"min_blob_size", "max_blob_size", "random_blob_cache_size",
               "blob_key_count", "write_rate"}

TextOption == {"rocksdb_compression", "write_backend"}

Option == SizeOption \cup TextOption \cup {"write_run_seconds"}

ASSUME ArgumentAssumption ==
  /\ atoi \in [Text -> Int] /\ MaxArgs \in Nat
  /\ SizeT \in Nat /\ SizeT > 15000 /\ Uint32 \in Nat /\ Uint32 > 10  \* the defaults fit
  /\ None \notin Text \cup {"none", "0"}

VARIABLES
  pc,           \* "parse" | "override" | "create" | "benchmark" | "failed"
  args,         \* aArgs, without the program's name
  i,
  config,       \* the fields of Config, by the names of their options
  jellyConfig   \* m_jellyConfig

vars == <<pc, args, i, config, jellyConfig>>

\* The names that m_jellyConfig may have a value for.
JellyName ==
  (Text \ Option) \cup {"compression_method", "max_resident_blob_size"}

Argument == [dash : BOOLEAN, text : Text]

Defaults ==
  [o \in Option |->
     CASE o = "min_blob_size" -> 5000
       [] o = "max_blob_size" -> 15000
       [] o = "random_blob_cache_size" -> 1000
       [] o = "blob_key_count" -> 10000
       [] o = "rocksdb_compression" -> "none"
       [] o = "write_backend" -> "jelly"
       [] o = "write_rate" -> 1000
       [] o = "write_run_seconds" -> 10]

\* Mutant of Converted: the fields are of type int.
ConvertedSigned(o, text) == IF o \in TextOption THEN text ELSE atoi[text]

\* The value of option o when it is given as a text.
Converted(o, text) ==
  CASE o \in SizeOption -> atoi[text] % SizeT
    [] o = "write_run_seconds" -> atoi[text] % Uint32
    [] o \in TextOption -> text

Init ==
  /\ pc = "parse"
  /\ args \in UNION {[1 .. n -> Argument] : n \in 0 .. MaxArgs}
  /\ i = 1
  /\ config = Defaults
  /\ jellyConfig = [t \in JellyName |-> None]

-----------------------------------------------------------------------------
\* Mutant of HasValue: whatever comes next is the value.
HasNext == i + 1 <= Len(args)

HasValue == i + 1 <= Len(args) /\ ~args[i + 1].dash

Parsing == pc = "parse" /\ i <= Len(args)

\* Mutant of SetOption: the first value given for an option is kept.
KeepOption ==
  /\ Parsing /\ args[i].dash /\ HasValue
  /\ args[i].text \in Option
  /\ config' = IF config[args[i].text] # Defaults[args[i].text] THEN config
               ELSE [config EXCEPT ![args[i].text] =
                       Converted(args[i].text, args[i + 1].text)]
  /\ i' = i + 2
  /\ UNCHANGED <<pc, args, jellyConfig>>

SetOption ==
  /\ Parsing /\ args[i].dash /\ HasValue
  /\ args[i].text \in Option
  /\ config' = [config EXCEPT ![args[i].text] =
                  Converted(args[i].text, args[i + 1].text)]
  /\ i' = i + 2
  /\ UNCHANGED <<pc, args, jellyConfig>>

SetJellyOption ==
  /\ Parsing /\ args[i].dash /\ HasValue
  /\ args[i].text \notin Option
  /\ jellyConfig' = [jellyConfig EXCEPT ![args[i].text] = args[i + 1].text]
  /\ i' = i + 2
  /\ UNCHANGED <<pc, args, config>>

\* JELLY_ALWAYS_ASSERT(..., "Syntax error.")
SyntaxError ==
  /\ Parsing
  /\ ~args[i].dash \/ ~HasValue
  /\ pc' = "failed"
  /\ UNCHANGED <<args, i, config, jellyConfig>>

EndOfLine ==
  /\ pc = "parse"
  /\ i > Len(args)
  /\ pc' = "override"
  /\ UNCHANGED <<args, i, config, jellyConfig>>

\* main's own settings.
Override ==
  /\ pc = "override"
  /\ pc' = "create"
  /\ config' = [config EXCEPT !["write_backend"] = "jelly",
                              !["rocksdb_compression"] = "none",
                              !["write_rate"] = 10000]
  /\ jellyConfig' = [jellyConfig EXCEPT !["compression_method"] = "none",
                                        !["max_resident_blob_size"] = "0"]
  /\ UNCHANGED <<args, i>>

\* _CreateWriteBackend
CreateBackend ==
  /\ pc = "create"
  /\ pc' = IF \/ config["write_backend"] \in {"jelly", "sqlite"}
              \/ config["write_backend"] = "rocksdb" /\ HasRocksDB
             THEN "benchmark" ELSE "failed"
  /\ UNCHANGED <<args, i, config, jellyConfig>>

Next ==
  \/ SetOption
  \/ SetJellyOption
  \/ SyntaxError
  \/ EndOfLine
  \/ Override
  \/ CreateBackend

Spec == Init /\ [][Next]_vars
-----------------------------------------------------------------------------
(***************************************************************************)
(* Properties                                                              *)
(***************************************************************************)
\* Every field of Config holds a value of its type, whatever is given for it.
TypeOK ==
  /\ pc \in {"parse", "override", "create", "benchmark", "failed"}
  /\ args \in Seq(Argument)
  /\ i \in 1 .. Len(args) + 1
  /\ DOMAIN config = Option
  /\ \A o \in SizeOption : config[o] \in 0 .. SizeT - 1
  /\ config["write_run_seconds"] \in 0 .. Uint32 - 1
  /\ \A o \in TextOption : config[o] \in Text \cup {"none", "jelly"}
  /\ jellyConfig \in [JellyName -> Text \cup {"none", "0", None}]

\* Names and values take turns.
WellFormed ==
  /\ Len(args) % 2 = 0
  /\ \A n \in DOMAIN args : args[n].dash <=> n % 2 = 1

\* The positions at which a well-formed line names option o.
Given(o) == {n \in DOMAIN args : n % 2 = 1 /\ args[n].text = o}

\* The value that a well-formed line asks for: the last one given, or the default.
Asked(o) ==
  IF Given(o) = {} THEN Defaults[o]
  ELSE Converted(o, args[Max(Given(o)) + 1].text)

(***************************************************************************)
(* The loop, which decides from one argument to the next what is a name    *)
(* and what a value, ends with a syntax error for exactly the lines in     *)
(* which the two do not take turns: no argument is swallowed, and a value  *)
(* that begins with '-' is refused and never becomes a name.               *)
(***************************************************************************)
RefusesExactlyMalformed ==
  /\ pc = "failed" => ~WellFormed
  /\ pc = "override" => WellFormed

(***************************************************************************)
(* Parsing a well-formed line, option by option, gives every option its    *)
(* last value and every other its default, and jelly the last value of     *)
(* every name that is not an option.                                       *)
(***************************************************************************)
LastValueCounts ==
  pc = "override" =>
    /\ \A o \in Option : config[o] = Asked(o)
    /\ \A t \in JellyName :
         jellyConfig[t] = IF Given(t) = {} THEN None
                          ELSE args[Max(Given(t)) + 1].text

(***************************************************************************)
(* README: the benchmark is run with -write_backend <backend> -write_rate  *)
(* <rate> -write_run_seconds 120 -blob_key_count 20000 ..., so what it     *)
(* runs with is what the command line gives.                               *)
(***************************************************************************)
RunsAsAsked ==
  pc = "benchmark" => \A o \in Option : Given(o) # {} => config[o] = Asked(o)
=============================================================================
