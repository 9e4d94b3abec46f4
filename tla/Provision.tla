------------------------------ MODULE Provision ------------------------------
(***************************************************************************)
(* The certificates of src/src/tls.c: a start of the bridge generates a    *)
(* CA and a leaf that it signs unless all four files are there             *)
(* (tls_ensure_certs), and loads the leaf (tls_make_server_ctx).           *)
(*                                                                         *)
(* A file is truncated when it is opened and has its content when it is    *)
(* closed.  Writing may fail at either point, and fail without a word: the *)
(* PEM text waits in the buffer of stdio, and what fclose returns is not   *)
(* looked at.  A process may die at any moment and be started again, and   *)
(* several may be started at once.                                         *)
(***************************************************************************)
EXTENDS Integers, SequencesExt

CONSTANTS
    Procs, Hosts,   \* processes and their --host addresses
    None,
    Gens,           \* bound: names for the pairs that are on disk or in a process at once
    MaxFaults       \* bound: crashes and failed writes

ASSUME ProvisionAssumption == Gens \subseteq Nat \ {0} /\ MaxFaults \in Nat

VARIABLES
    files,              \* the four files: Absent, Empty or what was written
    pc, host,           \* of each process
    gen, step,          \* the pair it generates, the file of Order it writes
    cert, key,          \* what its SSL_CTX holds
    faults, mishaps     \* bound and history

process == <<pc, host, gen, step, cert, key>>
history == <<faults, mishaps>>
vars == <<files, process, history>>

Absent == [gen |-> 0, ip |-> None]
Empty == [gen |-> -1, ip |-> None]
Complete(f) == files[f].gen > 0

\* Mutant: the CA goes last.
OrderLeafFirst == <<"leaf_key", "leaf_crt", "ca_key", "ca_crt">>

Order == <<"ca_key", "ca_crt", "leaf_key", "leaf_crt">>
Files == ToSet(Order)
LeafIsLast == Last(Order)

To(p, place) == pc' = [pc EXCEPT ![p] = place]
Content(p, f) == [gen |-> gen[p], ip |-> IF f = "leaf_crt" THEN host[p] ELSE None]
Writing(p) == pc[p] \in {"open", "finish"}

----------------------------------------------------------------------------
\* tls_ensure_certs

Start(p, h) ==
    /\ pc[p] = "idle"
    /\ To(p, "check")
    /\ host' = [host EXCEPT ![p] = h]
    /\ UNCHANGED <<files, gen, step, cert, key, history>>

\* Mutants: the keys stand for the rest; the test looks in the wrong place.
AlreadyThereKeys == \A f \in {"ca_key", "leaf_key"} : files[f] # Absent
AlreadyThereNever == FALSE

\* Files are never removed, so that four calls of stat are as good as one.
AlreadyThere == \A f \in Files : files[f] # Absent

Ensured(p) ==
    /\ pc[p] = "check" /\ AlreadyThere
    /\ To(p, "load")
    /\ UNCHANGED <<files, host, gen, step, cert, key, history>>

InUse == {files[f].gen : f \in Files} \cup {gen[p] : p \in Procs} \cup {cert[p].gen : p \in Procs}
Unused == Gens \ InUse
Fresh == CHOOSE g \in Unused : TRUE

Generate(p) ==
    /\ pc[p] = "check" /\ ~AlreadyThere /\ Unused # {}
    /\ gen' = [gen EXCEPT ![p] = Fresh]
    /\ step' = [step EXCEPT ![p] = 1]
    /\ To(p, "open")
    /\ mishaps' = IF \E q \in Procs : Writing(q) THEN mishaps \cup {"overlap"} ELSE mishaps
    /\ UNCHANGED <<files, host, cert, key, faults>>

Open(p) ==
    /\ pc[p] = "open"
    /\ files' = [files EXCEPT ![Order[step[p]]] = Empty]
    /\ To(p, "finish")
    /\ UNCHANGED <<host, gen, step, cert, key, history>>

\* The next file, or the end of tls_ensure_certs
Onward(p) ==
    IF step[p] < Len(Order)
      THEN To(p, "open") /\ step' = [step EXCEPT ![p] = step[p] + 1] /\ UNCHANGED gen
      ELSE To(p, "load") /\ step' = [step EXCEPT ![p] = 0] /\ gen' = [gen EXCEPT ![p] = 0]

Write(p) ==
    /\ pc[p] = "finish"
    /\ files' = [files EXCEPT ![Order[step[p]]] = Content(p, Order[step[p]])]
    /\ Onward(p)
    /\ UNCHANGED <<host, cert, key, history>>

----------------------------------------------------------------------------
\* Faults

Fault == faults < MaxFaults /\ faults' = faults + 1

\* The process is gone, with what it held.
Gone(p) ==
    /\ To(p, "idle")
    /\ host' = [host EXCEPT ![p] = None]
    /\ gen' = [gen EXCEPT ![p] = 0] /\ step' = [step EXCEPT ![p] = 0]
    /\ cert' = [cert EXCEPT ![p] = Absent] /\ key' = [key EXCEPT ![p] = Absent]

\* The disk has no room and fclose says so to nobody.
WriteLost(p) ==
    /\ pc[p] = "finish" /\ Fault
    /\ Onward(p)
    /\ mishaps' = mishaps \cup {"lost"}
    /\ UNCHANGED <<files, host, cert, key>>

\* A crash, or, while it writes, a file that cannot be opened or written, or whose
\* mode cannot be set, on which the process exits.
Dies(p) ==
    /\ pc[p] # "idle" /\ Fault
    /\ Gone(p)
    /\ mishaps' = IF pc[p] = "finish" /\ Order[step[p]] = LeafIsLast
                  THEN mishaps \cup {"last torn"} ELSE mishaps
    /\ UNCHANGED files

----------------------------------------------------------------------------
\* tls_make_server_ctx: the certificate, then the key, which OpenSSL compares with
\* it.  What cannot be loaded ends the process.

LoadCert(p) ==
    /\ pc[p] = "load"
    /\ \/ /\ Complete("leaf_crt")
          /\ cert' = [cert EXCEPT ![p] = files["leaf_crt"]]
          /\ To(p, "load_key")
          /\ UNCHANGED <<host, gen, step, key>>
       \/ ~Complete("leaf_crt") /\ Gone(p)
    /\ UNCHANGED <<files, history>>

\* Mutant: the key is loaded first, when there is nothing to compare it with.
KeyReadable(p) == Complete("leaf_key")

KeyFits(p) == Complete("leaf_key") /\ files["leaf_key"].gen = cert[p].gen

LoadKey(p) ==
    /\ pc[p] = "load_key"
    /\ \/ /\ KeyFits(p)
          /\ key' = [key EXCEPT ![p] = files["leaf_key"]]
          /\ To(p, "serving")
          /\ UNCHANGED <<host, gen, step, cert>>
       \/ ~KeyFits(p) /\ Gone(p)
    /\ UNCHANGED <<files, history>>

Stop(p) ==
    /\ pc[p] = "serving"
    /\ Gone(p)
    /\ UNCHANGED <<files, history>>

----------------------------------------------------------------------------

Init ==
    /\ files = [f \in Files |-> Absent]
    /\ pc = [p \in Procs |-> "idle"] /\ host = [p \in Procs |-> None]
    /\ gen = [p \in Procs |-> 0] /\ step = [p \in Procs |-> 0]
    /\ cert = [p \in Procs |-> Absent] /\ key = [p \in Procs |-> Absent]
    /\ faults = 0 /\ mishaps = {}

Run(p) ==
    \/ Ensured(p) \/ Generate(p) \/ Open(p) \/ Write(p)
    \/ LoadCert(p) \/ LoadKey(p)
Next ==
    \E p \in Procs :
        \/ \E h \in Hosts : Start(p, h)
        \/ Run(p) \/ WriteLost(p) \/ Dies(p) \/ Stop(p)

Spec == Init /\ [][Next]_vars

\* A process that was started runs, and one that ended is started again, as
\* contrib/systemd has it (Restart=on-failure).
FairSpec ==
    Spec /\ \A p \in Procs : WF_vars(Run(p)) /\ WF_vars(\E h \in Hosts : Start(p, h))

----------------------------------------------------------------------------
\* Properties

\* A bridge that serves has a certificate and the key that belongs to it, whatever
\* several starts and crashes have left in the files, and even if the files
\* change between the two loads.
ServesMatchingPair ==
    \A p \in Procs : pc[p] = "serving" => cert[p].gen > 0 /\ key[p].gen = cert[p].gen

\* A complete set of files is for ever: once nobody is writing it, no later start
\* begins to, so what the user has told the browsers to trust is not replaced.
Settled ==
    /\ \A f \in Files : Complete(f) /\ files[f].gen = files["ca_crt"].gen
    /\ \A p \in Procs : ~Writing(p)
TrustLasts == [][Settled => Settled' /\ files' = files]_vars

\* The CA the user can import is the one that signed the certificate served, after
\* any crash, if no write was lost unnoticed and no two starts wrote at once.
ServedLeafIsTrusted ==
    mishaps \cap {"overlap", "lost"} = {} =>
        \A p \in Procs : pc[p] = "serving" => files["ca_crt"].gen = cert[p].gen

\* A start that comes after any crash comes to serve in the end, unless it was the
\* last of the files that a crash left truncated, a write was lost
\* unnoticed, or two starts wrote at once: then nothing is ever written again.
StartsInTheEnd ==
    \A p \in Procs : pc[p] # "idle" ~> (pc[p] = "serving" \/ mishaps # {})

\* "Ensures a per-user CA + leaf certificate for `bind_ip` exist under state_dir
\* ..., generating fresh ones ... if not already present.  Returns 0 on success."
\* (tls.h): once it has returned, the leaf on disk is one for the host.
EnsuresLeafForHost ==
    \A p \in Procs : pc[p] = "load" => Complete("leaf_crt") /\ files["leaf_crt"].ip = host[p]
=============================================================================
