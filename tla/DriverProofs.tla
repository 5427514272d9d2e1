---------------------------- MODULE DriverProofs ----------------------------
(***************************************************************************)
(* Theorems about Driver, for any number of runs, process numbers, command *)
(* lines and names to try.                                                 *)
(***************************************************************************)
EXTENDS Driver, TLAPS

(* Where a run has an output path, and where the path may be a temporary   *)
(* file of its own.                                                        *)
Chosen == {"check", "open", "write", "run", "wait", "unlink"}

(* The output path is the run's own temporary file, or a named one; only   *)
(* the native back end works on a temporary file.                          *)
OwnOutput ==
    \A i \in Runs :
        /\ pc[i] \in Chosen /\ temp_bin(i) =>
               out[i] \in Temps /\ fs[out[i]].by = i /\ back[i] = "native"
        /\ pc[i] \in Chosen /\ ~temp_bin(i) => out[i] \in Named
        /\ pc[i] \in {"front", "outfile"} /\ temp_bin(i) => back[i] = "native"
        /\ pc[i] = "args" /\ temp_bin(i) /\ back[i] # "native" => req[i].backend = "c"

(* A temporary file written by a run is the one it still has to remove, or *)
(* was left by a killed run or a refused one.                              *)
TempsHeld ==
    \A i \in Runs, f \in Temps :
        fs[f].by = i => \/ pc[i] \in Chosen /\ temp_bin(i) /\ f = out[i]
                        \/ pc[i] = "killed"
                        \/ pc[i] = "exited" /\ why[i] = "tensor"

(* What is about to be run is complete.                                    *)
WholeToRun ==
    \A i \in Runs : pc[i] \in {"run", "wait"} /\ temp_bin(i) => fs[out[i]].is = "whole"

(* A run that has written a named file has passed every check.             *)
Refused == {"args", "front", "parse", "temp", "semantic", "tensor", "native"}
WritersPassed ==
    \A i \in Runs, f \in Named :
        fs[f].by = i => /\ pc[i] \in {"write", "run", "wait", "unlink", "exited", "killed"}
                        /\ why[i] \notin Refused

(* The reason is set when the run ends.                                    *)
Reasoned == \A i \in Runs : /\ pc[i] \notin {"unlink", "exited", "killed"} => why[i] = "running"

IInv == TypeOK /\ OwnOutput /\ TempsHeld /\ WholeToRun /\ WritersPassed /\ Reasoned
-----------------------------------------------------------------------------
LEMMA PathFacts == /\ Temps \subseteq Paths /\ Named \subseteq Paths
                   /\ Named \cap Temps = {} /\ NoOne \notin Runs /\ NoPath \notin Paths
                   /\ \A p \in Pids, k \in 0 .. MaxTries - 1 : Temp(p, k) \in Temps
BY NamesAssumption DEF Paths, Temps

LEMMA InitInv == Init => IInv
<1> USE RequestsAssumption, TriesAssumption, PathFacts
<1> SUFFICES ASSUME Init PROVE IInv
  OBVIOUS
<1>1. (CHOOSE r \in Requests : TRUE) \in Requests /\ (CHOOSE p \in Pids : TRUE) \in Pids
  OBVIOUS
<1>2. 0 \in 0 .. MaxTries - 1
  OBVIOUS
<1>3. \A f \in Paths : fs[f].by = NoOne /\ fs[f].is \in {"absent", "whole"}
  BY DEF Init, Absent
<1>4. TypeOK
  BY <1>1, <1>2, <1>3 DEF Init, TypeOK, Places, Reasons, Backends, Absent
<1>5. QED
  BY <1>3, <1>4 DEF Init, IInv, OwnOutput, TempsHeld, WholeToRun, WritersPassed,
                   Reasoned, Chosen

(* What a step of run i means for the others: it keeps their variables and *)
(* touches at most its own output.                                         *)
Mine(i) ==
    /\ \A j \in Runs : j # i =>
         /\ pc'[j] = pc[j] /\ out'[j] = out[j] /\ back'[j] = back[j]
         /\ req'[j] = req[j] /\ why'[j] = why[j]
         /\ rc'[j] = rc[j] /\ errs'[j] = errs[j]
    /\ \A f \in Paths :
         \/ fs'[f] = fs[f]
         \/ /\ fs'[f].by = i
            /\ \/ pc[i] = "outfile" /\ fs[f] = Absent /\ temp_bin(i) /\ f = out'[i]
               \/ pc[i] \in {"open", "write"} /\ f = out[i]
         \/ fs'[f] = Absent /\ f = out[i] /\ temp_bin(i) /\ pc[i] = "unlink"

LEMMA StepMine ==
    ASSUME TypeOK, NEW i \in Runs,
           Start(i) \/ MainStep(i) \/ WaitBinary(i) \/ Kill(i)
    PROVE  Mine(i)
<1>1. CASE Start(i)
  BY <1>1 DEF Start, At, Goto, Mine, TypeOK
<1>2. CASE ReadFile(i)
  BY <1>2 DEF ReadFile, At, Goto, Return, Mine, TypeOK
<1>3. CASE FrontEnd(i)
  BY <1>3 DEF FrontEnd, At, Goto, Return, Mine, TypeOK
<1>4. CASE MakeTempPath(i)
  BY <1>4 DEF MakeTempPath, TakeName, At, Goto, Return, Mine, TypeOK
<1>5. CASE ChooseOutput(i)
  BY <1>5 DEF ChooseOutput, At, Goto, Mine, TypeOK
<1>6. CASE SemanticCheck(i)
  BY <1>6 DEF SemanticCheck, At, Goto, Return, Mine, TypeOK
<1>7. CASE RefuseTensor(i)
  BY <1>7 DEF RefuseTensor, At, Goto, Return, Mine, TypeOK
<1>8. CASE NativeCode(i)
  BY <1>8 DEF NativeCode, At, Goto, Finish, Mine, TypeOK
<1>9. CASE OpenOutput(i)
  BY <1>9 DEF OpenOutput, At, Goto, Finish, Mine, TypeOK
<1>10. CASE WriteElf(i)
  BY <1>10 DEF WriteElf, At, Goto, Return, Finish, Mine, TypeOK
<1>11. CASE WriteC(i)
  BY <1>11 DEF WriteC, At, Goto, Return, Mine, TypeOK
<1>12. CASE RunBinary(i)
  BY <1>12 DEF RunBinary, At, Goto, Finish, Mine, TypeOK
<1>13. CASE Unlink(i)
  BY <1>13 DEF Unlink, At, Goto, Mine, TypeOK
<1>14. CASE WaitBinary(i)
  BY <1>14 DEF WaitBinary, At, Goto, Finish, Mine, TypeOK
<1>15. CASE Kill(i)
  BY <1>15 DEF Kill, At, Goto, Mine, TypeOK
<1> QED
  BY <1>1, <1>2, <1>3, <1>4, <1>5, <1>6, <1>7, <1>8, <1>9, <1>10, <1>11,
     <1>12, <1>13, <1>14, <1>15 DEF MainStep

(* The types, in three parts.                                              *)
FileTypes == /\ fs \in [Paths -> [by : Runs \cup {NoOne},
                                  is : {"absent", "empty", "part", "whole"}]]
             /\ orphans \subseteq Paths
ControlTypes == /\ pc \in [Runs -> Places]
                /\ rc \in [Runs -> Nat]
                /\ why \in [Runs -> Reasons]
ChoiceTypes == /\ req \in [Runs -> Requests]
               /\ pid \in [Runs -> Pids]
               /\ out \in [Runs -> Paths \cup {NoPath}]
               /\ back \in [Runs -> Backends]
               /\ try \in [Runs -> 0 .. MaxTries - 1]
               /\ errs \in [Runs -> BOOLEAN]

LEMMA TypeParts == TypeOK <=> FileTypes /\ ControlTypes /\ ChoiceTypes
BY DEF TypeOK, FileTypes, ControlTypes, ChoiceTypes

LEMMA StepFileTypes ==
    ASSUME TypeOK, OwnOutput, NEW i \in Runs,
           Start(i) \/ MainStep(i) \/ WaitBinary(i) \/ Kill(i)
    PROVE  FileTypes'
<1> USE PathFacts
<1>0. FileTypes /\ pid[i] \in Pids /\ try[i] \in 0 .. MaxTries - 1
  BY DEF TypeOK, FileTypes
<1>a. pc[i] \in Chosen => out[i] \in Paths
  BY DEF OwnOutput
<1>1. CASE Start(i)
  BY <1>1, <1>0, <1>a DEF Start, FileTypes, At, Chosen, Absent
<1>2. CASE ReadFile(i)
  BY <1>2, <1>0, <1>a DEF ReadFile, FileTypes, At, Chosen, Absent
<1>3. CASE FrontEnd(i)
  BY <1>3, <1>0, <1>a DEF FrontEnd, FileTypes, At, Chosen, Absent
<1>4. CASE MakeTempPath(i)
  BY <1>4, <1>0, <1>a DEF MakeTempPath, TakeName, FileTypes, At, Chosen, Absent
<1>5. CASE ChooseOutput(i)
  BY <1>5, <1>0, <1>a DEF ChooseOutput, FileTypes, At, Chosen, Absent
<1>6. CASE SemanticCheck(i)
  BY <1>6, <1>0, <1>a DEF SemanticCheck, FileTypes, At, Chosen, Absent
<1>7. CASE RefuseTensor(i)
  BY <1>7, <1>0, <1>a DEF RefuseTensor, FileTypes, At, Chosen, Absent
<1>8. CASE NativeCode(i)
  BY <1>8, <1>0, <1>a DEF NativeCode, FileTypes, At, Chosen, Absent
<1>9. CASE OpenOutput(i)
  BY <1>9, <1>0, <1>a DEF OpenOutput, FileTypes, At, Chosen, Absent
<1>10. CASE WriteElf(i)
  BY <1>10, <1>0, <1>a DEF WriteElf, FileTypes, At, Chosen, Absent
<1>11. CASE WriteC(i)
  BY <1>11, <1>0, <1>a DEF WriteC, FileTypes, At, Chosen, Absent
<1>12. CASE RunBinary(i)
  BY <1>12, <1>0, <1>a DEF RunBinary, FileTypes, At, Chosen, Absent
<1>13. CASE Unlink(i)
  BY <1>13, <1>0, <1>a DEF Unlink, FileTypes, At, Chosen, Absent
<1>14. CASE WaitBinary(i)
  BY <1>14, <1>0, <1>a DEF WaitBinary, FileTypes, At, Chosen, Absent
<1>15. CASE Kill(i)
  BY <1>15, <1>0, <1>a DEF Kill, FileTypes, At, Chosen, Absent
<1> QED
  BY <1>1, <1>2, <1>3, <1>4, <1>5, <1>6, <1>7, <1>8,
     <1>9, <1>10, <1>11, <1>12, <1>13, <1>14, <1>15 DEF MainStep

LEMMA GotoTypes ==
    ASSUME ControlTypes, NEW i \in Runs
    PROVE  /\ \A w \in Places : Goto(i, w) => pc' \in [Runs -> Places]
           /\ \A n \in Nat, w \in Reasons : Return(i, n, w) \/ Finish(i, n, w) => ControlTypes'
BY DEF ControlTypes, Goto, Return, Finish, Places

LEMMA PlaceFacts ==
    /\ {"args", "front", "outfile", "check", "open", "write", "run", "wait",
        "exited", "killed"} \subseteq Places
    /\ {"args", "front", "dump", "parse", "temp", "semantic", "tensor", "native",
        "open", "write", "codegen", "wrote", "fork", "exec", "ran"} \subseteq Reasons
BY DEF Places, Reasons

LEMMA StepControlTypes ==
    ASSUME TypeOK, NEW i \in Runs,
           Start(i) \/ MainStep(i) \/ WaitBinary(i) \/ Kill(i)
    PROVE  ControlTypes'
<1> USE StatusAssumption, GotoTypes, PlaceFacts
<1>0. ControlTypes
  BY TypeParts
<1>1. CASE Start(i)
  BY <1>1, <1>0 DEF Start, ControlTypes
<1>2. CASE ReadFile(i)
  BY <1>2, <1>0 DEF ReadFile, ControlTypes
<1>3. CASE FrontEnd(i)
  BY <1>3, <1>0 DEF FrontEnd, ControlTypes
<1>4. CASE MakeTempPath(i)
  BY <1>4, <1>0 DEF MakeTempPath, TakeName, ControlTypes
<1>5. CASE ChooseOutput(i)
  BY <1>5, <1>0 DEF ChooseOutput, ControlTypes
<1>6. CASE SemanticCheck(i)
  BY <1>6, <1>0 DEF SemanticCheck, ControlTypes
<1>7. CASE RefuseTensor(i)
  BY <1>7, <1>0 DEF RefuseTensor, ControlTypes
<1>8. CASE NativeCode(i)
  BY <1>8, <1>0 DEF NativeCode, ControlTypes
<1>9. CASE OpenOutput(i)
  BY <1>9, <1>0 DEF OpenOutput, ControlTypes
<1>10. CASE WriteElf(i)
  BY <1>10, <1>0 DEF WriteElf, ControlTypes
<1>11. CASE WriteC(i)
  BY <1>11, <1>0 DEF WriteC, ControlTypes
<1>12. CASE RunBinary(i)
  BY <1>12, <1>0 DEF RunBinary, ControlTypes
<1>13. CASE Unlink(i)
  BY <1>13, <1>0 DEF Unlink, ControlTypes
<1>14. CASE WaitBinary(i)
  BY <1>14, <1>0 DEF WaitBinary, ControlTypes
<1>15. CASE Kill(i)
  BY <1>15, <1>0 DEF Kill, ControlTypes
<1> QED
  BY <1>1, <1>2, <1>3, <1>4, <1>5, <1>6, <1>7, <1>8,
     <1>9, <1>10, <1>11, <1>12, <1>13, <1>14, <1>15 DEF MainStep

LEMMA StepChoiceTypes ==
    ASSUME TypeOK, NEW i \in Runs,
           Start(i) \/ MainStep(i) \/ WaitBinary(i) \/ Kill(i)
    PROVE  ChoiceTypes'
<1> USE RequestsAssumption, TriesAssumption, PathFacts
<1>0. ChoiceTypes
  BY TypeParts
<1>1. CASE Start(i)
  BY <1>1, <1>0 DEF Start, ChoiceTypes, Backends
<1>2. CASE ReadFile(i)
  BY <1>2, <1>0 DEF ReadFile, ChoiceTypes
<1>3. CASE FrontEnd(i)
  BY <1>3, <1>0 DEF FrontEnd, ChoiceTypes
<1>4. CASE MakeTempPath(i)
  <2>1. Temp(pid[i], try[i]) \in Paths
    BY <1>0 DEF ChoiceTypes
  <2>2. out' \in [Runs -> Paths \cup {NoPath}]
    BY <1>4, <1>0, <2>1 DEF MakeTempPath, TakeName, ChoiceTypes
  <2>3. \/ try' = try
        \/ try[i] + 1 < MaxTries /\ try' = [try EXCEPT ![i] = try[i] + 1]
    BY <1>4 DEF MakeTempPath, TakeName
  <2>4. try' \in [Runs -> 0 .. MaxTries - 1]
    BY <1>0, <2>3 DEF ChoiceTypes
  <2>5. UNCHANGED <<req, pid, back, errs>>
    BY <1>4 DEF MakeTempPath
  <2> QED
    BY <1>0, <2>2, <2>4, <2>5 DEF ChoiceTypes
<1>5. CASE ChooseOutput(i)
  BY <1>5, <1>0 DEF ChooseOutput, ChoiceTypes, Backends
<1>6. CASE SemanticCheck(i)
  BY <1>6, <1>0 DEF SemanticCheck, ChoiceTypes
<1>7. CASE RefuseTensor(i)
  BY <1>7, <1>0 DEF RefuseTensor, ChoiceTypes
<1>8. CASE NativeCode(i)
  BY <1>8, <1>0 DEF NativeCode, ChoiceTypes
<1>9. CASE OpenOutput(i)
  BY <1>9, <1>0 DEF OpenOutput, ChoiceTypes
<1>10. CASE WriteElf(i)
  BY <1>10, <1>0 DEF WriteElf, ChoiceTypes
<1>11. CASE WriteC(i)
  BY <1>11, <1>0 DEF WriteC, ChoiceTypes
<1>12. CASE RunBinary(i)
  BY <1>12, <1>0 DEF RunBinary, ChoiceTypes
<1>13. CASE Unlink(i)
  BY <1>13, <1>0 DEF Unlink, ChoiceTypes
<1>14. CASE WaitBinary(i)
  BY <1>14, <1>0 DEF WaitBinary, ChoiceTypes
<1>15. CASE Kill(i)
  BY <1>15, <1>0 DEF Kill, ChoiceTypes
<1> QED
  BY <1>1, <1>2, <1>3, <1>4, <1>5, <1>6, <1>7, <1>8,
     <1>9, <1>10, <1>11, <1>12, <1>13, <1>14, <1>15 DEF MainStep

(* The step's own run, after the step.                                     *)
OwnAfter(i) ==
    /\ pc'[i] \in Chosen /\ temp_bin(i)' =>
           out'[i] \in Temps /\ fs'[out'[i]].by = i /\ back'[i] = "native"
    /\ pc'[i] \in Chosen /\ ~temp_bin(i)' => out'[i] \in Named
    /\ pc'[i] \in {"front", "outfile"} /\ temp_bin(i)' => back'[i] = "native"
    /\ pc'[i] = "args" /\ temp_bin(i)' /\ back'[i] # "native" => req'[i].backend = "c"

LEMMA StepOwn ==
    ASSUME TypeOK, OwnOutput, NEW i \in Runs,
           Start(i) \/ MainStep(i) \/ WaitBinary(i) \/ Kill(i)
    PROVE  OwnAfter(i)
<1> USE RequestsAssumption, TriesAssumption, PathFacts
<1>1. CASE Start(i)
  BY <1>1 DEF Start, At, Goto, Return, Finish, TypeOK,
       OwnOutput, OwnAfter, Chosen, Backends, temp_bin, BadArguments
<1>2. CASE ReadFile(i)
  BY <1>2 DEF ReadFile, At, Goto, Return, Finish, TypeOK,
       OwnOutput, OwnAfter, Chosen, Backends, temp_bin, BadArguments
<1>3. CASE FrontEnd(i)
  BY <1>3 DEF FrontEnd, At, Goto, Return, Finish, TypeOK,
       OwnOutput, OwnAfter, Chosen, Backends, temp_bin, BadArguments
<1>4. CASE MakeTempPath(i)
  BY <1>4 DEF MakeTempPath, TakeName, At, Goto, Return, Finish, TypeOK,
       OwnOutput, OwnAfter, Chosen, Backends, temp_bin, BadArguments
<1>5. CASE ChooseOutput(i)
  <2>1. Outfile(req[i], back[i]) \in Named
    BY DEF TypeOK
  <2>2. out'[i] \in Named /\ req' = req /\ ~temp_bin(i) /\ pc'[i] = "check"
    BY <1>5, <2>1 DEF ChooseOutput, At, Goto, TypeOK
  <2> QED
    BY <2>2 DEF OwnAfter, temp_bin, Chosen
<1>6. CASE SemanticCheck(i)
  BY <1>6 DEF SemanticCheck, At, Goto, Return, Finish, TypeOK,
       OwnOutput, OwnAfter, Chosen, Backends, temp_bin, BadArguments
<1>7. CASE RefuseTensor(i)
  BY <1>7 DEF RefuseTensor, At, Goto, Return, Finish, TypeOK,
       OwnOutput, OwnAfter, Chosen, Backends, temp_bin, BadArguments
<1>8. CASE NativeCode(i)
  BY <1>8 DEF NativeCode, At, Goto, Return, Finish, TypeOK,
       OwnOutput, OwnAfter, Chosen, Backends, temp_bin, BadArguments
<1>9. CASE OpenOutput(i)
  BY <1>9 DEF OpenOutput, At, Goto, Return, Finish, TypeOK,
       OwnOutput, OwnAfter, Chosen, Backends, temp_bin, BadArguments
<1>10. CASE WriteElf(i)
  BY <1>10 DEF WriteElf, At, Goto, Return, Finish, TypeOK,
       OwnOutput, OwnAfter, Chosen, Backends, temp_bin, BadArguments
<1>11. CASE WriteC(i)
  BY <1>11 DEF WriteC, At, Goto, Return, Finish, TypeOK,
       OwnOutput, OwnAfter, Chosen, Backends, temp_bin, BadArguments
<1>12. CASE RunBinary(i)
  BY <1>12 DEF RunBinary, At, Goto, Return, Finish, TypeOK,
       OwnOutput, OwnAfter, Chosen, Backends, temp_bin, BadArguments
<1>13. CASE Unlink(i)
  BY <1>13 DEF Unlink, At, Goto, Return, Finish, TypeOK,
       OwnOutput, OwnAfter, Chosen, Backends, temp_bin, BadArguments
<1>14. CASE WaitBinary(i)
  BY <1>14 DEF WaitBinary, At, Goto, Return, Finish, TypeOK,
       OwnOutput, OwnAfter, Chosen, Backends, temp_bin, BadArguments
<1>15. CASE Kill(i)
  BY <1>15 DEF Kill, At, Goto, Return, Finish, TypeOK,
       OwnOutput, OwnAfter, Chosen, Backends, temp_bin, BadArguments
<1> QED
  BY <1>1, <1>2, <1>3, <1>4, <1>5, <1>6, <1>7, <1>8,
     <1>9, <1>10, <1>11, <1>12, <1>13, <1>14, <1>15 DEF MainStep

(* The other parts for the step's own run, after the step.                 *)
HeldAfter(i) ==
    \A f \in Temps :
        fs'[f].by = i => \/ pc'[i] \in Chosen /\ temp_bin(i)' /\ f = out'[i]
                         \/ pc'[i] = "killed"
                         \/ pc'[i] = "exited" /\ why'[i] = "tensor"

LEMMA StepHeld ==
    ASSUME IInv, NEW i \in Runs,
           Start(i) \/ MainStep(i) \/ WaitBinary(i) \/ Kill(i)
    PROVE  HeldAfter(i)
<1> USE PathFacts DEF HeldAfter
<1>t. /\ pc \in [Runs -> Places] /\ why \in [Runs -> Reasons]
      /\ out \in [Runs -> Paths \cup {NoPath}] /\ fs \in [Paths -> [by : Runs \cup {NoOne},
                         is : {"absent", "empty", "part", "whole"}]]
  BY DEF IInv, TypeOK
<1>h. \A f \in Temps :
        fs[f].by = i => \/ pc[i] \in Chosen /\ temp_bin(i) /\ f = out[i]
                        \/ pc[i] = "killed"
                        \/ pc[i] = "exited" /\ why[i] = "tensor"
  BY DEF IInv, TempsHeld
<1>o. /\ pc[i] \in Chosen /\ ~temp_bin(i) => out[i] \in Named
      /\ pc[i] \in Chosen /\ temp_bin(i) => out[i] \in Temps /\ back[i] = "native"
  BY DEF IInv, OwnOutput
<1>1. CASE Start(i)
  BY <1>1, <1>t, <1>h, <1>o DEF Start, At, Goto, Return, Finish, Alive,
       Chosen, temp_bin, Absent
<1>2. CASE ReadFile(i)
  BY <1>2, <1>t, <1>h, <1>o DEF ReadFile, At, Goto, Return, Finish, Alive,
       Chosen, temp_bin, Absent
<1>3. CASE FrontEnd(i)
  BY <1>3, <1>t, <1>h, <1>o DEF FrontEnd, At, Goto, Return, Finish, Alive,
       Chosen, temp_bin, Absent
<1>4. CASE MakeTempPath(i)
  BY <1>4, <1>t, <1>h, <1>o DEF MakeTempPath, TakeName, At, Goto, Return, Finish, Alive,
       Chosen, temp_bin, Absent
<1>5. CASE ChooseOutput(i)
  BY <1>5, <1>t, <1>h, <1>o DEF ChooseOutput, At, Goto, Return, Finish, Alive,
       Chosen, temp_bin, Absent
<1>6. CASE SemanticCheck(i)
  BY <1>6, <1>t, <1>h, <1>o DEF SemanticCheck, At, Goto, Return, Finish, Alive,
       Chosen, temp_bin, Absent
<1>7. CASE RefuseTensor(i)
  BY <1>7, <1>t, <1>h, <1>o DEF RefuseTensor, At, Goto, Return, Finish, Alive,
       Chosen, temp_bin, Absent
<1>8. CASE NativeCode(i)
  BY <1>8, <1>t, <1>h, <1>o DEF NativeCode, At, Goto, Return, Finish, Alive,
       Chosen, temp_bin, Absent
<1>9. CASE OpenOutput(i)
  BY <1>9, <1>t, <1>h, <1>o DEF OpenOutput, At, Goto, Return, Finish, Alive,
       Chosen, temp_bin, Absent
<1>10. CASE WriteElf(i)
  BY <1>10, <1>t, <1>h, <1>o DEF WriteElf, At, Goto, Return, Finish, Alive,
       Chosen, temp_bin, Absent
<1>11. CASE WriteC(i)
  BY <1>11, <1>t, <1>h, <1>o DEF WriteC, At, Goto, Return, Finish, Alive,
       Chosen, temp_bin, Absent
<1>12. CASE RunBinary(i)
  BY <1>12, <1>t, <1>h, <1>o DEF RunBinary, At, Goto, Return, Finish, Alive,
       Chosen, temp_bin, Absent
<1>13. CASE Unlink(i)
  BY <1>13, <1>t, <1>h, <1>o DEF Unlink, At, Goto, Return, Finish, Alive,
       Chosen, temp_bin, Absent
<1>14. CASE WaitBinary(i)
  BY <1>14, <1>t, <1>h, <1>o DEF WaitBinary, At, Goto, Return, Finish, Alive,
       Chosen, temp_bin, Absent
<1>15. CASE Kill(i)
  BY <1>15, <1>t, <1>h, <1>o DEF Kill, At, Goto, Return, Finish, Alive,
       Chosen, temp_bin, Absent
<1> QED
  BY <1>1, <1>2, <1>3, <1>4, <1>5, <1>6, <1>7, <1>8,
     <1>9, <1>10, <1>11, <1>12, <1>13, <1>14, <1>15 DEF MainStep

EndAfter(i) ==
    /\ pc'[i] \in {"run", "wait"} /\ temp_bin(i)' => fs'[out'[i]].is = "whole"
    /\ pc'[i] \notin {"unlink", "exited", "killed"} => why'[i] = "running"
    /\ \A f \in Named :
         fs'[f].by = i => /\ pc'[i] \in {"write", "run", "wait", "unlink", "exited", "killed"}
                          /\ why'[i] \notin Refused

LEMMA StepEnd ==
    ASSUME IInv, NEW i \in Runs,
           Start(i) \/ MainStep(i) \/ WaitBinary(i) \/ Kill(i)
    PROVE  EndAfter(i)
<1> USE PathFacts DEF EndAfter
<1>t. /\ pc \in [Runs -> Places] /\ why \in [Runs -> Reasons]
      /\ out \in [Runs -> Paths \cup {NoPath}] /\ fs \in [Paths -> [by : Runs \cup {NoOne},
                         is : {"absent", "empty", "part", "whole"}]]
  BY DEF IInv, TypeOK
<1>h. \A f \in Named :
        fs[f].by = i => /\ pc[i] \in {"write", "run", "wait", "unlink", "exited", "killed"}
                        /\ why[i] \notin Refused
  BY DEF IInv, WritersPassed
<1>o. /\ pc[i] \in Chosen => out[i] \in Paths
      /\ pc[i] \in Chosen /\ temp_bin(i) => back[i] = "native"
      /\ pc[i] \notin {"unlink", "exited", "killed"} => why[i] = "running"
      /\ pc[i] \in {"run", "wait"} /\ temp_bin(i) => fs[out[i]].is = "whole"
      /\ {"running", "open", "write", "codegen", "wrote", "fork", "exec", "ran"} \cap Refused = {}
  BY DEF IInv, OwnOutput, Reasoned, WholeToRun, Refused
<1>1. CASE Start(i)
  BY <1>1, <1>t, <1>h, <1>o DEF Start, At, Goto, Return, Finish, Alive,
       Chosen, temp_bin, Absent
<1>2. CASE ReadFile(i)
  BY <1>2, <1>t, <1>h, <1>o DEF ReadFile, At, Goto, Return, Finish, Alive,
       Chosen, temp_bin, Absent
<1>3. CASE FrontEnd(i)
  BY <1>3, <1>t, <1>h, <1>o DEF FrontEnd, At, Goto, Return, Finish, Alive,
       Chosen, temp_bin, Absent
<1>4. CASE MakeTempPath(i)
  <2>1. Temp(pid[i], try[i]) \in Temps
    BY DEF IInv, TypeOK
  <2>2. \A f \in Named : fs'[f] = fs[f]
    BY <1>4, <1>t, <2>1 DEF MakeTempPath, TakeName
  <2>3. \A f \in Named : fs[f].by # i
    BY <1>4, <1>h DEF MakeTempPath, At
  <2>4. /\ pc'[i] \notin {"run", "wait", "unlink", "killed"}
        /\ pc'[i] = "exited" \/ why' = why
    BY <1>4, <1>t DEF MakeTempPath, TakeName, At, Goto, Return
  <2> QED
    BY <1>4, <1>o, <2>2, <2>3, <2>4 DEF MakeTempPath, At
<1>5. CASE ChooseOutput(i)
  BY <1>5, <1>t, <1>h, <1>o DEF ChooseOutput, At, Goto, Return, Finish, Alive,
       Chosen, temp_bin, Absent
<1>6. CASE SemanticCheck(i)
  BY <1>6, <1>t, <1>h, <1>o DEF SemanticCheck, At, Goto, Return, Finish, Alive,
       Chosen, temp_bin, Absent
<1>7. CASE RefuseTensor(i)
  BY <1>7, <1>t, <1>h, <1>o DEF RefuseTensor, At, Goto, Return, Finish, Alive,
       Chosen, temp_bin, Absent
<1>8. CASE NativeCode(i)
  BY <1>8, <1>t, <1>h, <1>o DEF NativeCode, At, Goto, Return, Finish, Alive,
       Chosen, temp_bin, Absent
<1>9. CASE OpenOutput(i)
  BY <1>9, <1>t, <1>h, <1>o DEF OpenOutput, At, Goto, Return, Finish, Alive,
       Chosen, temp_bin, Absent
<1>10. CASE WriteElf(i)
  BY <1>10, <1>t, <1>h, <1>o DEF WriteElf, At, Goto, Return, Finish, Alive,
       Chosen, temp_bin, Absent
<1>11. CASE WriteC(i)
  BY <1>11, <1>t, <1>h, <1>o DEF WriteC, At, Goto, Return, Finish, Alive,
       Chosen, temp_bin, Absent
<1>12. CASE RunBinary(i)
  BY <1>12, <1>t, <1>h, <1>o DEF RunBinary, At, Goto, Return, Finish, Alive,
       Chosen, temp_bin, Absent
<1>13. CASE Unlink(i)
  BY <1>13, <1>t, <1>h, <1>o DEF Unlink, At, Goto, Return, Finish, Alive,
       Chosen, temp_bin, Absent
<1>14. CASE WaitBinary(i)
  BY <1>14, <1>t, <1>h, <1>o DEF WaitBinary, At, Goto, Return, Finish, Alive,
       Chosen, temp_bin, Absent
<1>15. CASE Kill(i)
  BY <1>15, <1>t, <1>h, <1>o DEF Kill, At, Goto, Return, Finish, Alive,
       Chosen, temp_bin, Absent
<1> QED
  BY <1>1, <1>2, <1>3, <1>4, <1>5, <1>6, <1>7, <1>8,
     <1>9, <1>10, <1>11, <1>12, <1>13, <1>14, <1>15 DEF MainStep

LEMMA StepInv ==
    ASSUME IInv, NEW i \in Runs,
           Start(i) \/ MainStep(i) \/ WaitBinary(i) \/ Kill(i)
    PROVE  IInv'
<1> USE PathFacts
<1>1. TypeOK' /\ Mine(i) /\ OwnAfter(i)
  BY StepMine, StepOwn, StepFileTypes, StepControlTypes, StepChoiceTypes, TypeParts
     DEF IInv, TypeOK, FileTypes, ControlTypes, ChoiceTypes
<1>2. \A j \in Runs : j # i => pc'[j] = pc[j] /\ out'[j] = out[j] /\ why'[j] = why[j]
                               /\ back'[j] = back[j] /\ req'[j] = req[j]
                               /\ temp_bin(j)' = temp_bin(j)
  BY <1>1 DEF Mine, temp_bin
<1>3. ASSUME NEW j \in Runs, j # i, NEW f \in Paths, fs'[f].by = j
      PROVE  fs'[f] = fs[f]
  BY <1>1, <1>3 DEF Mine, Absent
<1>4. ASSUME NEW j \in Runs, j # i, pc[j] \in Chosen, temp_bin(j)
      PROVE  fs'[out[j]] = fs[out[j]]
  <2>1. out[j] \in Temps /\ fs[out[j]].by = j /\ out[j] \in Paths
    BY <1>4 DEF IInv, OwnOutput
  <2>2. pc[i] = "unlink" /\ temp_bin(i) => fs[out[i]].by = i
    BY DEF IInv, OwnOutput, Chosen
  <2>3. pc[i] \in {"open", "write"} => out[i] # out[j]
    BY <2>1, <1>4 DEF IInv, OwnOutput, Chosen
  <2>4. fs[out[j]] # Absent
    BY <2>1 DEF Absent
  <2> QED
    BY <1>1, <1>4, <2>1, <2>2, <2>3, <2>4 DEF Mine
<1>5. OwnOutput'
  BY <1>1, <1>2, <1>4 DEF IInv, OwnOutput, OwnAfter
<1>6. TempsHeld'
  <2>1. HeldAfter(i)
    BY StepHeld
  <2>2. ASSUME NEW j \in Runs, j # i, NEW f \in Temps, fs'[f].by = j
        PROVE  \/ pc'[j] \in Chosen /\ temp_bin(j)' /\ f = out'[j]
               \/ pc'[j] = "killed"
               \/ pc'[j] = "exited" /\ why'[j] = "tensor"
    BY <1>2, <1>3, <2>2 DEF IInv, TempsHeld
  <2> QED
    BY <2>1, <2>2 DEF TempsHeld, HeldAfter
<1>7. EndAfter(i)
  BY StepEnd
<1>8. WholeToRun'
  BY <1>2, <1>4, <1>7 DEF IInv, WholeToRun, EndAfter, Chosen
<1>9. WritersPassed'
  <2>1. ASSUME NEW j \in Runs, j # i, NEW f \in Named, fs'[f].by = j
        PROVE  /\ pc'[j] \in {"write", "run", "wait", "unlink", "exited", "killed"}
               /\ why'[j] \notin Refused
    BY <1>2, <1>3, <2>1 DEF IInv, WritersPassed
  <2> QED
    BY <1>7, <2>1 DEF WritersPassed, EndAfter
<1>10. Reasoned'
  BY <1>2, <1>7 DEF IInv, Reasoned, EndAfter
<1> QED
  BY <1>1, <1>5, <1>6, <1>8, <1>9, <1>10 DEF IInv

LEMMA OrphanInv == IInv /\ OrphanEnds => IInv'
<1> SUFFICES ASSUME IInv, OrphanEnds PROVE IInv'
  OBVIOUS
<1>1. orphans' \subseteq orphans /\ UNCHANGED <<fs, req, pid, pc, out, back, try, errs, rc, why>>
  BY DEF OrphanEnds
<1> QED
  BY <1>1 DEF IInv, TypeOK, OwnOutput, TempsHeld, WholeToRun, WritersPassed, Reasoned, temp_bin

(* A run that has come so far has seen no error; only make executes, and   *)
(* what a run without make exits with from "unlink" is a failure.  A run   *)
(* that ended with 0 has written all of its output, and what another run   *)
(* has put there since is that other's.                                    *)
Errorless ==
    \A i \in Runs :
        /\ pc[i] \in {"new", "args", "front", "outfile", "check", "open", "write"} => ~errs[i]
        /\ pc[i] \in {"run", "wait"} => req[i].make
        /\ pc[i] = "unlink" => req[i].make \/ rc[i] # 0
        /\ pc[i] = "exited" /\ rc[i] = 0 /\ ~req[i].make /\ req[i].dump = "no" =>
             /\ ~errs[i] /\ out[i] \in Paths
             /\ fs[out[i]].by = i => fs[out[i]].is = "whole"

ErrorlessAfter(i) ==
    /\ pc'[i] \in {"new", "args", "front", "outfile", "check", "open", "write"} => ~errs'[i]
    /\ pc'[i] \in {"run", "wait"} => req'[i].make
    /\ pc'[i] = "unlink" => req'[i].make \/ rc'[i] # 0
    /\ pc'[i] = "exited" /\ rc'[i] = 0 /\ ~req'[i].make /\ req'[i].dump = "no" =>
         /\ ~errs'[i] /\ out'[i] \in Paths
         /\ fs'[out'[i]].by = i => fs'[out'[i]].is = "whole"

LEMMA StepErrorless ==
    ASSUME IInv, Errorless, NEW i \in Runs,
           Start(i) \/ MainStep(i) \/ WaitBinary(i) \/ Kill(i)
    PROVE  ErrorlessAfter(i)
<1> USE DEF ErrorlessAfter
<1>t. /\ pc \in [Runs -> Places] /\ rc \in [Runs -> Nat] /\ errs \in [Runs -> BOOLEAN]
      /\ req \in [Runs -> Requests] /\ fs \in [Paths -> [by : Runs \cup {NoOne},
                         is : {"absent", "empty", "part", "whole"}]]
  BY DEF IInv, TypeOK
<1>e. /\ pc[i] \in {"new", "args", "front", "outfile", "check", "open", "write"} => ~errs[i]
      /\ pc[i] \in {"run", "wait"} => req[i].make
      /\ pc[i] = "unlink" => req[i].make \/ rc[i] # 0
  BY DEF Errorless
<1>o. pc[i] \in Chosen => out[i] \in Paths
  BY PathFacts DEF IInv, OwnOutput
<1>1. CASE Start(i)
  BY <1>1, <1>t, <1>e, <1>o DEF Start, At, Goto, Return, Finish, Alive, Chosen, temp_bin
<1>2. CASE ReadFile(i)
  BY <1>2, <1>t, <1>e, <1>o DEF ReadFile, At, Goto, Return, Finish, Alive, Chosen, temp_bin
<1>3. CASE FrontEnd(i)
  BY <1>3, <1>t, <1>e, <1>o DEF FrontEnd, At, Goto, Return, Finish, Alive, Chosen, temp_bin
<1>4. CASE MakeTempPath(i)
  BY <1>4, <1>t, <1>e, <1>o DEF MakeTempPath, TakeName, At, Goto, Return, Finish, Alive, Chosen, temp_bin
<1>5. CASE ChooseOutput(i)
  BY <1>5, <1>t, <1>e, <1>o DEF ChooseOutput, At, Goto, Return, Finish, Alive, Chosen, temp_bin
<1>6. CASE SemanticCheck(i)
  BY <1>6, <1>t, <1>e, <1>o DEF SemanticCheck, At, Goto, Return, Finish, Alive, Chosen, temp_bin
<1>7. CASE RefuseTensor(i)
  BY <1>7, <1>t, <1>e, <1>o DEF RefuseTensor, At, Goto, Return, Finish, Alive, Chosen, temp_bin
<1>8. CASE NativeCode(i)
  BY <1>8, <1>t, <1>e, <1>o DEF NativeCode, At, Goto, Return, Finish, Alive, Chosen, temp_bin
<1>9. CASE OpenOutput(i)
  BY <1>9, <1>t, <1>e, <1>o DEF OpenOutput, At, Goto, Return, Finish, Alive, Chosen, temp_bin
<1>10. CASE WriteElf(i)
  BY <1>10, <1>t, <1>e, <1>o DEF WriteElf, At, Goto, Return, Finish, Alive, Chosen, temp_bin
<1>11. CASE WriteC(i)
  BY <1>11, <1>t, <1>e, <1>o DEF WriteC, At, Goto, Return, Finish, Alive, Chosen, temp_bin
<1>12. CASE RunBinary(i)
  BY <1>12, <1>t, <1>e, <1>o DEF RunBinary, At, Goto, Return, Finish, Alive, Chosen, temp_bin
<1>13. CASE Unlink(i)
  BY <1>13, <1>t, <1>e, <1>o DEF Unlink, At, Goto, Return, Finish, Alive, Chosen, temp_bin
<1>14. CASE WaitBinary(i)
  BY <1>14, <1>t, <1>e, <1>o DEF WaitBinary, At, Goto, Return, Finish, Alive, Chosen, temp_bin
<1>15. CASE Kill(i)
  BY <1>15, <1>t, <1>e, <1>o DEF Kill, At, Goto, Return, Finish, Alive, Chosen, temp_bin
<1> QED
  BY <1>1, <1>2, <1>3, <1>4, <1>5, <1>6, <1>7,
     <1>8, <1>9, <1>10, <1>11, <1>12, <1>13, <1>14, <1>15 DEF MainStep

(* The steps of other runs change nothing of it: what they write to the    *)
(* same path is theirs.                                                    *)
LEMMA ErrorlessKept ==
    ASSUME IInv, Errorless, NEW i \in Runs,
           Start(i) \/ MainStep(i) \/ WaitBinary(i) \/ Kill(i)
    PROVE  Errorless'
<1>1. Mine(i)
  BY StepMine DEF IInv
<1>2. ErrorlessAfter(i)
  BY StepErrorless
<1>3. ASSUME NEW j \in Runs, j # i
      PROVE  /\ pc'[j] = pc[j] /\ out'[j] = out[j] /\ req'[j] = req[j]
             /\ rc'[j] = rc[j] /\ errs'[j] = errs[j]
             /\ \A f \in Paths : fs'[f].by = j => fs'[f] = fs[f]
  BY <1>1, <1>3, PathFacts DEF Mine, Absent
<1> QED
  BY <1>2, <1>3 DEF Errorless, ErrorlessAfter

(* The inductive invariant of the driver.                                  *)
THEOREM Invariance == Spec => []IInv
<1>1. ASSUME IInv, UNCHANGED vars PROVE IInv'
  BY <1>1 DEF vars, IInv, TypeOK, OwnOutput, TempsHeld, WholeToRun, WritersPassed,
              Reasoned, temp_bin
<1>2. IInv /\ [Next]_vars => IInv'
  BY <1>1, StepInv, OrphanInv DEF Next
<1> QED
  BY InitInv, <1>2, PTL DEF Spec

(* Every variable has its type.                                            *)
THEOREM TypeCorrect == Spec => []TypeOK
BY Invariance, PTL DEF IInv

(* make runs the binary the same run has built.                            *)
THEOREM OwnBinary == Spec => []RunsOwnBinary
<1>1. IInv => RunsOwnBinary
  <2> SUFFICES ASSUME IInv, NEW i \in Runs, pc[i] = "wait", temp_bin(i)
               PROVE  fs[out[i]] = [by |-> i, is |-> "whole"]
    BY DEF RunsOwnBinary
  <2>1. out[i] \in Paths /\ fs[out[i]].by = i /\ fs[out[i]].is = "whole"
    BY PathFacts DEF IInv, OwnOutput, WholeToRun, Chosen
  <2> QED
    BY <2>1 DEF IInv, TypeOK
<1> QED
  BY Invariance, <1>1, PTL

(* Every return of main() but the refusal of tensor.h leaves no temporary  *)
(* file.                                                                   *)
THEOREM TempsRemoved == Spec => []NoTempLeft
<1>1. IInv => NoTempLeft
  BY DEF IInv, NoTempLeft, TempsHeld, Chosen
<1> QED
  BY Invariance, <1>1, PTL

(* A refused program has touched no file of the user.                      *)
THEOREM RefusedTouchesNothing == Spec => []RefusedLeavesFiles
<1>1. IInv => RefusedLeavesFiles
  BY DEF IInv, RefusedLeavesFiles, WritersPassed, Refused
<1> QED
  BY Invariance, <1>1, PTL

(* Status 0 without make: the program was accepted and the output is       *)
(* complete, unless another run has written to the same path since.        *)
THEOREM ZeroIsComplete == Spec => []ZeroMeansWritten
<1>1. Init => Errorless
  BY DEF Init, Errorless
<1>2. IInv /\ Errorless /\ [Next]_vars => Errorless'
  <2>1. ASSUME Errorless, UNCHANGED vars PROVE Errorless'
    BY <2>1 DEF vars, Errorless
  <2>2. ASSUME Errorless, OrphanEnds PROVE Errorless'
    BY <2>2 DEF OrphanEnds, Errorless
  <2> QED
    BY <2>1, <2>2, ErrorlessKept DEF Next
<1>3. Errorless => ZeroMeansWritten
  BY DEF Errorless, ZeroMeansWritten
<1> QED
  BY Invariance, <1>1, <1>2, <1>3, PTL DEF Spec

(* No run removes or overwrites the temporary file of another.             *)
THEOREM TempsAreOwn == Spec => OwnTempsOnly
<1>1. ASSUME IInv, [Next]_vars
      PROVE  [\A i \in Runs, f \in Temps :
                pc'[i] # pc[i] /\ fs'[f] # fs[f] => fs[f] = Absent \/ fs[f].by = i]_vars
  <2> SUFFICES ASSUME NEW i \in Runs, NEW f \in Temps, pc'[i] # pc[i], fs'[f] # fs[f]
               PROVE  fs[f] = Absent \/ fs[f].by = i
    OBVIOUS
  <2>1. PICK j \in Runs : Start(j) \/ MainStep(j) \/ WaitBinary(j) \/ Kill(j)
    BY <1>1 DEF Next, OrphanEnds, vars
  <2>2. Mine(j)
    BY <1>1, <2>1, StepMine DEF IInv
  <2>3. j = i
    BY <2>2 DEF Mine
  <2>4. f \in Paths /\ f \notin Named
    BY PathFacts
  <2>5. pc[i] \in {"open", "write"} /\ f = out[i] => fs[f].by = i
    BY <1>1, <2>4 DEF IInv, OwnOutput, Chosen
  <2>6. pc[i] = "unlink" /\ temp_bin(i) /\ f = out[i] => fs[f].by = i
    BY <1>1 DEF IInv, OwnOutput, Chosen
  <2> QED
    BY <2>2, <2>3, <2>4, <2>5, <2>6 DEF Mine
<1> QED
  BY Invariance, <1>1, PTL DEF Spec, OwnTempsOnly
=============================================================================
