----------------------------- MODULE LimaOutput -----------------------------
(***************************************************************************)
(* How lima.go reads limactl: the log it writes to stderr when it fails,   *)
(* and the list of instances, one JSON object per line.                    *)
(*                                                                         *)
(* A line of the log is blank, an entry with a level and a message, or     *)
(* plain text (which is its own message); a line of the list is blank, an  *)
(* instance or something that is not JSON.                                 *)
(***************************************************************************)
EXTENDS Naturals, Sequences, SequencesExt

NoText == ""

Logged(level, msg) == [kind |-> "entry", level |-> level, msg |-> msg]
Text(msg) == [kind |-> "text", level |-> NoText, msg |-> msg]
Blank == [kind |-> "blank", level |-> NoText, msg |-> NoText]

(* The JSON text of an entry whose message is empty. *)
Raw(level) == "{level:" \o level \o "}"

IsError(line) == line.level \in {"fatal", "error"}

(* Mutant: the level is not looked at. *)
ReadLine_AnyLevel(found, line) ==
    IF line.kind = "blank" THEN found
    ELSE [last |-> line.msg, fatal |-> line.msg]

(* What is kept of a line, and when it is kept as the error. *)
Message(line) ==
    IF line.kind = "entry" /\ line.msg = NoText THEN Raw(line.level)
    ELSE line.msg

IsFatal(line) == line.kind = "entry" /\ line.msg # NoText /\ IsError(line)

ReadLine(found, line) ==
    IF line.kind = "blank" THEN found
    ELSE [last |-> Message(line),
          fatal |-> IF IsFatal(line) THEN line.msg ELSE found.fatal]

ExtractLimaError(log) ==
    LET found == FoldLeft(ReadLine, [last |-> NoText, fatal |-> NoText], log)
    IN  IF found.fatal # NoText THEN found.fatal ELSE found.last

------------------------------------------------------------------------------
Listed(name, status) == [kind |-> "instance", name |-> name, status |-> status]
Garbage == [kind |-> "garbage", name |-> NoText, status |-> NoText]
Empty == [kind |-> "blank", name |-> NoText, status |-> NoText]

IsInstance(line) == line.kind = "instance"

(* The lines the decoder or the parser meets; blank ones are skipped. *)
Lines(out) == {n \in DOMAIN out : out[n].kind # "blank"}

(* The decoder gives up at the first thing that is not JSON: the instances *)
(* are those before it, by the numbers of their lines.                     *)
ParseNDJSON(out) ==
    [instances |-> {n \in Lines(out) : \A m \in Lines(out) :
                                          m <= n => IsInstance(out[m])},
     ok |-> \A n \in Lines(out) : IsInstance(out[n])]

NotFound == [kind |-> "error", name |-> NoText, status |-> NoText]

(* The first instance of that name in a list that could be read; List      *)
(* fails as a whole.                                                       *)
Get(out, name) ==
    LET list == ParseNDJSON(out)
        hits == {n \in list.instances : out[n].name = name}
    IN  IF list.ok /\ hits # {} THEN out[Min(hits)] ELSE NotFound

(* Mutant: the fallback forgets to compare the name. *)
IsRunning_AnyName(out, name) ==
    LET hits == {n \in Lines(out) : IsInstance(out[n])}
    IN  hits # {} /\ out[Min(hits)].status = "Running"

(* A single object is believed without looking at its name; otherwise the  *)
(* first line of that name counts, and what is not JSON is passed over.    *)
IsRunning(out, name) ==
    LET lines == Lines(out)
        hits == {n \in lines : IsInstance(out[n]) /\ out[n].name = name}
    IN  IF \E n \in lines : lines = {n} /\ IsInstance(out[n])
        THEN out[Min(lines)].status = "Running"
        ELSE hits # {} /\ out[Min(hits)].status = "Running"
=============================================================================
