---------------------------- MODULE InputConfig ----------------------------
(***************************************************************************)
(* packages/inputconfig: data/inputs/scriptInputs.json, which every        *)
(* program of the repository reads at its start and which all programs run *)
(* in one directory share.  The first to start writes a blank one for the  *)
(* user to fill in.  Programs compose these steps into LoadConfig and      *)
(* SaveConfig; any other program may come between two of them.             *)
(*                                                                         *)
(* A file is known by the settings that are filled in and by whether it is *)
(* valid JSON.  Making the directory changes nothing that is modelled.     *)
(***************************************************************************)
EXTENDS Integers

CONSTANTS
    Fields,         \* the settings of all programs
    Absent, Empty   \* no file; a file that os.WriteFile has truncated

VARIABLE file

Content == [fields : SUBSET Fields, valid : BOOLEAN]

ASSUME InputConfigAssumption == Absent # Empty /\ {Absent, Empty} \cap Content = {}

FileTypeOK == file \in Content \cup {Absent, Empty}

\* What a user would lose with the file.
Settings(f) == IF f \in Content THEN f.fields ELSE {}

\* os.Stat and os.IsNotExist
Exists == file # Absent

\* Mutation: a file that cannot be used is scaffolded again.
Usable == file \in Content /\ file.valid

\* os.ReadFile and json.Unmarshal succeed
Readable == file \in Content /\ file.valid

(***************************************************************************)
(* SaveConfig: os.WriteFile truncates the file, then writes at its start.  *)
(* Where another program has written in between, the end of a longer       *)
(* document may stick out, which is not JSON.                              *)
(***************************************************************************)
OpenFile == file' = Empty

WriteFile(fields) ==
    \E valid \in BOOLEAN :
        /\ file \notin Content => valid
        /\ file' = [fields |-> fields, valid |-> valid]

=============================================================================
