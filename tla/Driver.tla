------------------------------- MODULE Driver -------------------------------
(***************************************************************************)
(* src/src/main.c: several runs of luc that share a file system.  A run    *)
(* reads its source, parses, chooses an output path and a back end, writes *)
(* the output and, in make mode, executes it and removes it.  What the     *)
(* parser, the checker and the code generators answer is not determined    *)
(* here: every outcome main() distinguishes may happen.  A run can be      *)
(* killed between any two steps and its process number given to another.   *)
(***************************************************************************)
EXTENDS Naturals, Sequences

CONSTANTS
    Runs,       \* invocations of luc
    Pids,       \* process numbers
    MaxTries,   \* names make_temp_path() tries: 4096 in the code
    Requests,   \* command lines
    Sources,    \* the files that exist before any run
    Leftovers,  \* sets of temporary files that earlier runs can have left
    Others,     \* further paths a command line can name or main() derives
    Statuses,   \* exit statuses of compiled programs
    NoOne,      \* the user: the writer of the files that no run wrote
    NoPath      \* no -o option

(* A path is its stem followed by its extensions: prog.lu is               *)
(* <<"prog", "lu">>.  A name in $TMPDIR is /tmp/lu-make-<pid>-<i>.         *)
Temp(p, k) == <<"tmp", p, k>>
Temps == {Temp(p, k) : p \in Pids, k \in 0 .. MaxTries - 1}
Named == Sources \cup Others
Paths == Temps \cup Named

HasExt(path, e) == Len(path) > 1 /\ path[Len(path)] = e
StripLu(path) == IF HasExt(path, "lu") THEN SubSeq(path, 1, Len(path) - 1)
                                       ELSE path
derive_outpath(src) == Append(StripLu(src), "c")

(* -o, or a path derived from the source for the back end b.               *)
Outfile(r, b) == IF r.o # NoPath THEN r.o
                 ELSE IF b = "c" THEN derive_outpath(r.src)
                                 ELSE StripLu(r.src)

Backends == {"auto", "c", "native"}

ASSUME NamesAssumption == /\ Named \cap Temps = {}
                          /\ NoPath \notin Paths
                          /\ NoOne \notin Runs
ASSUME LeftoversAssumption == Leftovers # {} /\ Leftovers \subseteq SUBSET Temps
ASSUME TriesAssumption == MaxTries \in Nat \ {0}
ASSUME StatusAssumption == Statuses \subseteq Nat
ASSUME RequestsAssumption ==
    /\ Requests # {} /\ Pids # {}
    /\ Requests \subseteq [src : Named, o : Named \cup {NoPath},
                           backend : Backends, make : BOOLEAN,
                           dump : {"no", "tok", "ast"}]
    /\ \A r \in Requests, b \in Backends : Outfile(r, b) \in Named

VARIABLES
    fs,     \* per path: who wrote it, and what of it is there
    req,    \* per run: its command line
    pid,    \* its process number
    pc,     \* where main() is
    out,    \* outfile
    back,   \* backend
    try,    \* the loop variable of make_temp_path()
    errs,   \* g_parse_error_count > 0
    rc,     \* the status it will exit with
    why,    \* the return statement of main() it left by
    orphans \* binaries still running after their run of luc was killed

vars == <<fs, req, pid, pc, out, back, try, errs, rc, why, orphans>>

Absent == [by |-> NoOne, is |-> "absent"]
Alive(i) == pc[i] \notin {"new", "exited", "killed"}
temp_bin(i) == req[i].make /\ req[i].o = NoPath

(* Opening a running binary for writing, or running one that is open for   *)
(* writing, fails with ETXTBSY.                                            *)
Executing(path) == path \in orphans \/ \E i \in Runs : pc[i] = "wait" /\ out[i] = path
OpenForWriting(path) == \E i \in Runs : pc[i] = "write" /\ out[i] = path

Init ==
    /\ \E stale \in Leftovers :
         fs = [f \in Paths |-> IF f \in Sources \/ f \in stale
                               THEN [by |-> NoOne, is |-> "whole"] ELSE Absent]
    /\ req \in [Runs -> {CHOOSE r \in Requests : TRUE}]
    /\ pid \in [Runs -> {CHOOSE p \in Pids : TRUE}]
    /\ pc = [i \in Runs |-> "new"]
    /\ out = [i \in Runs |-> NoPath]
    /\ back = [i \in Runs |-> "auto"]
    /\ try = [i \in Runs |-> 0]
    /\ errs = [i \in Runs |-> FALSE]
    /\ rc = [i \in Runs |-> 0]
    /\ why = [i \in Runs |-> "running"]
    /\ orphans = {}
-----------------------------------------------------------------------------
At(i, where) == pc[i] = where
Goto(i, where) == pc' = [pc EXCEPT ![i] = where]
Return(i, status, reason) == /\ Goto(i, "exited")
                             /\ rc' = [rc EXCEPT ![i] = status]
                             /\ why' = [why EXCEPT ![i] = reason]
(* The status is known and the temporary binary, if any, is still there.   *)
Finish(i, status, reason) == /\ Goto(i, "unlink")
                             /\ rc' = [rc EXCEPT ![i] = status]
                             /\ why' = [why EXCEPT ![i] = reason]

Start(i) ==
    /\ At(i, "new")
    /\ \E r \in Requests, p \in Pids :
         /\ \A j \in Runs : Alive(j) => pid[j] # p
         /\ req' = [req EXCEPT ![i] = r]
         /\ pid' = [pid EXCEPT ![i] = p]
         /\ back' = [back EXCEPT ![i] = IF r.make /\ r.backend = "auto"
                                        THEN "native" ELSE r.backend]
    /\ Goto(i, "args")
    /\ UNCHANGED <<fs, out, try, errs, rc, why, orphans>>

BadArguments(r) == r.make /\ \/ r.backend = "c"
                             \/ r.o # NoPath /\ HasExt(r.o, "c")

ReadFile(i) ==
    /\ At(i, "args")
    /\ IF BadArguments(req[i]) \/ fs[req[i].src] = Absent
       THEN Return(i, 1, "args")
       ELSE Goto(i, "front") /\ UNCHANGED <<rc, why>>
    /\ UNCHANGED <<fs, req, pid, out, back, try, errs, orphans>>

(* v5_transpile() or lu_expand_includes(), the lexer and the parser: an    *)
(* error that stops, or a count of errors the parser recovered from.       *)
FrontEnd(i) ==
    /\ At(i, "front")
    /\ \/ Return(i, 1, "front") /\ UNCHANGED errs
       \/ req[i].dump = "tok" /\ Return(i, 0, "dump") /\ UNCHANGED errs
       \/ /\ req[i].dump # "tok"
          /\ \E e \in BOOLEAN :
               /\ errs' = [errs EXCEPT ![i] = e]
               /\ \/ req[i].dump = "ast" /\ Return(i, IF e THEN 1 ELSE 0, "dump")
                  \/ req[i].dump = "no" /\ e /\ Return(i, 1, "parse")
                  \/ req[i].dump = "no" /\ ~e /\ Goto(i, "outfile") /\ UNCHANGED <<rc, why>>
    /\ UNCHANGED <<fs, req, pid, out, back, try, orphans>>

(* open(O_CREAT | O_EXCL) succeeded.                                       *)
TakeName(i, name) == /\ fs' = [fs EXCEPT ![name] = [by |-> i, is |-> "empty"]]
                     /\ out' = [out EXCEPT ![i] = name]
                     /\ Goto(i, "check")
                     /\ UNCHANGED <<try, rc, why>>

\* Mutated forms: without O_EXCL; the same name again.
MakeTempPathShared(i) ==
    /\ At(i, "outfile")
    /\ temp_bin(i)
    /\ TakeName(i, Temp(pid[i], try[i]))
    /\ UNCHANGED <<req, pid, back, errs, orphans>>
MakeTempPathAgain(i) ==
    /\ At(i, "outfile")
    /\ temp_bin(i)
    /\ LET name == Temp(pid[i], try[i]) IN
       \/ fs[name] = Absent /\ TakeName(i, name)
       \/ fs[name] # Absent /\ UNCHANGED <<fs, out, pc, try, rc, why>>
    /\ UNCHANGED <<req, pid, back, errs, orphans>>

(* One turn of the loop in make_temp_path().                               *)
MakeTempPath(i) ==
    /\ At(i, "outfile")
    /\ temp_bin(i)
    /\ LET name == Temp(pid[i], try[i]) IN
       \/ fs[name] = Absent /\ TakeName(i, name)
       \/ /\ fs[name] # Absent
          /\ try[i] + 1 < MaxTries
          /\ try' = [try EXCEPT ![i] = @ + 1]
          /\ UNCHANGED <<fs, out, pc, rc, why>>
       \/ /\ fs[name] # Absent => try[i] + 1 = MaxTries
          /\ Return(i, 1, "temp")
          /\ UNCHANGED <<fs, out, try>>
    /\ UNCHANGED <<req, pid, back, errs, orphans>>

(* An unset back end follows from the path.                                *)
ChooseOutput(i) ==
    /\ At(i, "outfile")
    /\ ~temp_bin(i)
    /\ LET path == Outfile(req[i], back[i]) IN
       /\ out' = [out EXCEPT ![i] = path]
       /\ back' = [back EXCEPT ![i] = IF @ # "auto" THEN @
                                      ELSE IF HasExt(path, "c") THEN "c" ELSE "native"]
    /\ Goto(i, "check")
    /\ UNCHANGED <<fs, req, pid, try, errs, rc, why, orphans>>

SemanticCheck(i) ==
    /\ At(i, "check")
    /\ back[i] = "c"
    /\ \E e \in BOOLEAN : /\ errs' = [errs EXCEPT ![i] = e]
                          /\ IF e THEN Return(i, 1, "semantic")
                             ELSE Goto(i, "open") /\ UNCHANGED <<rc, why>>
    /\ UNCHANGED <<fs, req, pid, out, back, try, orphans>>

(* has_tensor_import(): the only return between the reservation of the     *)
(* temporary name and the code that removes it.                            *)
RefuseTensor(i) ==
    /\ At(i, "check")
    /\ back[i] = "native"
    /\ Return(i, 1, "tensor")
    /\ UNCHANGED <<fs, req, pid, out, back, try, errs, orphans>>

\* Mutated forms: main() returns without unlink(); the output is opened
\* before the code is complete.
NativeCodeReturns(i) ==
    /\ At(i, "check")
    /\ back[i] = "native"
    /\ \/ Return(i, 1, "native")
       \/ Goto(i, "open") /\ UNCHANGED <<rc, why>>
    /\ UNCHANGED <<fs, req, pid, out, back, try, errs, orphans>>
NativeCodeStreams(i) ==
    /\ At(i, "check")
    /\ back[i] = "native"
    /\ \/ Finish(i, 1, "native") /\ fs' = [fs EXCEPT ![out[i]] = [by |-> i, is |-> "part"]]
       \/ Goto(i, "open") /\ UNCHANGED <<fs, rc, why>>
    /\ UNCHANGED <<req, pid, out, back, try, errs, orphans>>

(* native_compile() up to write_elf(): no file is touched.                 *)
NativeCode(i) ==
    /\ At(i, "check")
    /\ back[i] = "native"
    /\ \/ Finish(i, 1, "native")
       \/ Goto(i, "open") /\ UNCHANGED <<rc, why>>
    /\ UNCHANGED <<fs, req, pid, out, back, try, errs, orphans>>

(* fopen(outfile, "w") truncates or creates, in write_elf() and in main(). *)
OpenOutput(i) ==
    /\ At(i, "open")
    /\ \/ Finish(i, 1, "open") /\ UNCHANGED fs
       \/ /\ ~Executing(out[i])
          /\ fs' = [fs EXCEPT ![out[i]] = [by |-> i, is |-> "empty"]]
          /\ Goto(i, "write")
          /\ UNCHANGED <<rc, why>>
    /\ UNCHANGED <<req, pid, out, back, try, errs, orphans>>

\* Mutated form: the result of fwrite() is not looked at.
WriteElfUnchecked(i) ==
    /\ At(i, "write")
    /\ back[i] = "native"
    /\ \E much \in {"part", "whole"} :
         fs' = [fs EXCEPT ![out[i]] = [by |-> i, is |-> much]]
    /\ IF req[i].make THEN Goto(i, "run") /\ UNCHANGED <<rc, why>>
       ELSE Return(i, 0, "wrote")
    /\ UNCHANGED <<req, pid, out, back, try, errs, orphans>>

(* fwrite() and fclose() of the image; a short write leaves what fitted.   *)
WriteElf(i) ==
    /\ At(i, "write")
    /\ back[i] = "native"
    /\ \/ /\ fs' = [fs EXCEPT ![out[i]] = [by |-> i, is |-> "whole"]]
          /\ IF req[i].make THEN Goto(i, "run") /\ UNCHANGED <<rc, why>>
             ELSE Return(i, 0, "wrote")
       \/ /\ fs' = [fs EXCEPT ![out[i]] = [by |-> i, is |-> "part"]]
          /\ Finish(i, 1, "write")
    /\ UNCHANGED <<req, pid, out, back, try, errs, orphans>>

\* Mutated form: the error count is not looked at after codegen_run().
WriteCUncounted(i) ==
    /\ At(i, "write")
    /\ back[i] = "c"
    /\ fs' = [fs EXCEPT ![out[i]] = [by |-> i, is |-> "whole"]]
    /\ errs' \in {errs, [errs EXCEPT ![i] = TRUE]}
    /\ Return(i, 0, "wrote")
    /\ UNCHANGED <<req, pid, out, back, try, orphans>>

(* codegen_run() writes while it generates: lu_error() exits half way, an  *)
(* error it counts makes main() return 1 with the text on disk.            *)
WriteC(i) ==
    /\ At(i, "write")
    /\ back[i] = "c"
    /\ \/ /\ fs' = [fs EXCEPT ![out[i]] = [by |-> i, is |-> "part"]]
          /\ \/ errs' = [errs EXCEPT ![i] = TRUE] /\ Return(i, 1, "codegen")
             \/ UNCHANGED errs /\ Return(i, 1, "write")
       \/ /\ fs' = [fs EXCEPT ![out[i]] = [by |-> i, is |-> "whole"]]
          /\ \E e \in BOOLEAN : /\ errs' = [errs EXCEPT ![i] = e]
                                /\ IF e THEN Return(i, 1, "codegen") ELSE Return(i, 0, "wrote")
    /\ UNCHANGED <<req, pid, out, back, try, orphans>>

(* run_binary(): fork(), then execv() in the child, which exits with 127   *)
(* when it cannot be done.                                                 *)
RunBinary(i) ==
    /\ At(i, "run")
    /\ \/ Finish(i, 1, "fork")
       \/ /\ \/ OpenForWriting(out[i])
             \/ fs[out[i]].is # "whole"
          /\ Finish(i, 127, "exec")
       \/ /\ ~OpenForWriting(out[i])
          /\ fs[out[i]] # Absent
          /\ Goto(i, "wait") /\ UNCHANGED <<rc, why>>
    /\ UNCHANGED <<fs, req, pid, out, back, try, errs, orphans>>

(* waitpid() reports the program's end; interrupted by a signal of its     *)
(* own, it is called again.  A signal s gives 128 + s.                     *)
WaitBinary(i) ==
    /\ At(i, "wait")
    /\ \E status \in Statuses : Finish(i, status, "ran")
    /\ UNCHANGED <<fs, req, pid, out, back, try, errs, orphans>>

Unlink(i) ==
    /\ At(i, "unlink")
    /\ fs' = IF temp_bin(i) THEN [fs EXCEPT ![out[i]] = Absent] ELSE fs
    /\ Goto(i, "exited")
    /\ UNCHANGED <<req, pid, out, back, try, errs, rc, why, orphans>>

(* The environment: luc is killed, with the program it runs or without it; *)
(* a program left alone ends.                                              *)
Kill(i) ==
    /\ Alive(i)
    /\ Goto(i, "killed")
    /\ \/ UNCHANGED fs
       \/ At(i, "write") /\ fs' = [fs EXCEPT ![out[i]] = [by |-> i, is |-> "part"]]
    /\ \/ UNCHANGED orphans
       \/ At(i, "wait") /\ orphans' = orphans \cup {out[i]}
    /\ UNCHANGED <<req, pid, out, back, try, errs, rc, why>>

OrphanEnds ==
    /\ \E f \in orphans : orphans' = orphans \ {f}
    /\ UNCHANGED <<fs, req, pid, pc, out, back, try, errs, rc, why>>

(* What main() does by itself once it runs, the program it executes apart. *)
MainStep(i) == \/ ReadFile(i) \/ FrontEnd(i) \/ MakeTempPath(i)
               \/ ChooseOutput(i) \/ SemanticCheck(i) \/ RefuseTensor(i)
               \/ NativeCode(i) \/ OpenOutput(i) \/ WriteElf(i)
               \/ WriteC(i) \/ RunBinary(i) \/ Unlink(i)

Next == \/ \E i \in Runs : Start(i) \/ MainStep(i) \/ WaitBinary(i) \/ Kill(i)
        \/ OrphanEnds

Spec == Init /\ [][Next]_vars
LiveSpec == Spec /\ \A i \in Runs : WF_vars(MainStep(i))
-----------------------------------------------------------------------------
Places == {"new", "args", "front", "outfile", "check", "open", "write", "run",
           "wait", "unlink", "exited", "killed"}
Reasons == {"running", "args", "front", "dump", "parse", "temp", "semantic",
            "tensor", "native", "open", "write", "codegen", "wrote", "fork",
            "exec", "ran"}

(* Every variable has its type.                                            *)
TypeOK ==
    /\ fs \in [Paths -> [by : Runs \cup {NoOne},
                         is : {"absent", "empty", "part", "whole"}]]
    /\ req \in [Runs -> Requests]
    /\ pid \in [Runs -> Pids]
    /\ pc \in [Runs -> Places]
    /\ out \in [Runs -> Paths \cup {NoPath}]
    /\ back \in [Runs -> Backends]
    /\ try \in [Runs -> 0 .. MaxTries - 1]
    /\ errs \in [Runs -> BOOLEAN]
    /\ rc \in [Runs -> Nat]
    /\ why \in [Runs -> Reasons]
    /\ orphans \subseteq Paths

(* While a run of make mode waits for its program, the temporary file it   *)
(* executed is the whole binary it wrote itself: no other run, not even    *)
(* one that got the number of a killed one, has put its own there.         *)
RunsOwnBinary ==
    \A i \in Runs : pc[i] = "wait" /\ temp_bin(i) =>
        fs[out[i]] = [by |-> i, is |-> "whole"]

(* A run that ends by itself leaves no temporary file, whatever failed on  *)
(* the way, except where main() refuses <tensor.h>.                        *)
NoTempLeft ==
    \A i \in Runs : pc[i] = "exited" /\ why[i] # "tensor" =>
        \A f \in Temps : fs[f].by # i

(* No output is written for a program that was refused: up to the native   *)
(* code generator's last error, every failure leaves the files of the user *)
(* alone.                                                                  *)
RefusedLeavesFiles ==
    \A i \in Runs :
        why[i] \in {"args", "front", "parse", "temp", "semantic", "tensor", "native"} =>
            \A f \in Named : fs[f].by # i

(* Status 0 without make means that the output was written to its end by   *)
(* a run that saw no error, or overwritten by another run since.           *)
ZeroMeansWritten ==
    \A i \in Runs :
        pc[i] = "exited" /\ rc[i] = 0 /\ ~req[i].make /\ req[i].dump = "no" =>
            ~errs[i] /\ (fs[out[i]].by = i => fs[out[i]].is = "whole")

(* A run removes or overwrites no temporary file but its own, even one     *)
(* with a stale name of its own process number.                            *)
OwnTempsOnly ==
    [][\A i \in Runs, f \in Temps :
         pc'[i] # pc[i] /\ fs'[f] # fs[f] => fs[f] = Absent \/ fs[f].by = i]_vars

(* A run never hangs except in the program it executes.                    *)
NeverHangs ==
    \A i \in Runs : []<>(pc[i] \in {"new", "wait", "exited", "killed"})
=============================================================================
