---------------------------- MODULE Configuration ----------------------------
(***************************************************************************)
(* set_configuration: the parameters of a node are read from the file      *)
(* _configuration, line by line, over the defaults of configuration.cpp.   *)
(* A line is a name and a value; the text of it is abstracted, a value     *)
(* that is no number is NotANumber.  The parameters are a few that stand   *)
(* for their kind.                                                         *)
(***************************************************************************)
EXTENDS Integers, Sequences

CONSTANTS
    Values,      \* numbers in the file
    WORD,        \* 2^32 in the code: the parameters have 32 bits, AT has 64
    NotANumber,
    MAX_LINES    \* bound: lines of the file

ASSUME WordAssumption  == /\ WORD \in Nat /\ WORD > 32768   \* the largest default
                          /\ Values \subseteq Nat /\ MAX_LINES \in Nat
ASSUME ValueAssumption == NotANumber \notin Values

\* The parameters params.h and configuration.h declare: CHAINS stands for
\* those with 32 bits, AT for those with 64.
Parameters == {"CHAINS", "AT", "COEFF", "EXPECTED_MINE_TIME_IN_MILLISECONDS",
               "BLOCK_SIZE_IN_BYTES", "T_DISCARD"}
KNOWN_VARS == Parameters \ {"T_DISCARD"}

Default == [v \in Parameters |->
    CASE v = "CHAINS" -> 1000 [] v = "AT" -> 960 [] v = "COEFF" -> 4
      [] v = "EXPECTED_MINE_TIME_IN_MILLISECONDS" -> 1000
      [] v = "BLOCK_SIZE_IN_BYTES" -> 32768 [] v = "T_DISCARD" -> 6]

Lines == [name : Parameters \cup {"unknown"}, value : Values \cup {NotANumber}]

VARIABLES
    value,   \* the parameters
    read     \* history: the lines read so far

configVars == <<value, read>>

\* Types; a parameter never leaves its width.
ConfigTypeOK ==
    /\ read \in Seq(Lines)
    /\ value \in [Parameters -> Nat]
    /\ \A v \in Parameters \ {"AT"} : value[v] < WORD

ConfigInit == value = Default /\ read = <<>>

------------------------------------------------------------------------------
\* The width of a parameter.
Stored(v, x) == IF v = "AT" THEN x ELSE x % WORD

\* COEFF also sets the mining time and the block size.
\* (Mutant: the block size is forgotten.)
WithCoeffNoSize(f, x) ==
    [f EXCEPT !["COEFF"] = Stored("COEFF", x),
              !["EXPECTED_MINE_TIME_IN_MILLISECONDS"] = (Stored("COEFF", x) * 250) % WORD]
WithCoeff(f, x) ==
    [f EXCEPT !["COEFF"] = Stored("COEFF", x),
              !["EXPECTED_MINE_TIME_IN_MILLISECONDS"] = (Stored("COEFF", x) * 250) % WORD,
              !["BLOCK_SIZE_IN_BYTES"] = (Stored("COEFF", x) * 8 * 1024) % WORD]

ReadLine(l) ==
    /\ Len(read) < MAX_LINES
    /\ read' = Append(read, l)
    /\ value' = IF l.value = NotANumber \/ l.name \notin KNOWN_VARS THEN value
                ELSE IF l.name = "COEFF" THEN WithCoeff(value, l.value)
                ELSE [value EXCEPT ![l.name] = Stored(l.name, l.value)]

ConfigNext == \E l \in Lines : ReadLine(l)

ConfigSpec == ConfigInit /\ [][ConfigNext]_configVars

------------------------------------------------------------------------------
Derived == {"EXPECTED_MINE_TIME_IN_MILLISECONDS", "BLOCK_SIZE_IN_BYTES"}
Sets(l, v) == l.value # NotANumber /\ (l.name = v \/ (l.name = "COEFF" /\ v \in Derived))

\* The order of the lines matters: a parameter has the value of the last line
\* that sets it, where COEFF, wherever it stands, undoes the mining time and
\* the block size set above it and gives them the proportion of the defaults.
LastLineCounts ==
    /\ ConfigTypeOK
    /\ \A v \in KNOWN_VARS : \A i \in DOMAIN read :
           Sets(read[i], v) /\ (\A j \in i + 1 .. Len(read) : ~Sets(read[j], v)) =>
               IF read[i].name = v
               THEN value[v] = IF v = "AT" THEN read[i].value ELSE read[i].value % WORD
               ELSE value[v] =
                      ((Default[v] \div Default["COEFF"]) * value["COEFF"]) % WORD
=============================================================================
