------------------------------ MODULE MCSession ------------------------------
(* Session with two NAMEs that share a process, as ProcessMatch selects them. *)
EXTENDS SessionMatch, TLC

MCDigits  == {"1", "2", "3", "007"}
MCPidText == <<"1", "2", "3">>
MCGlobs   == {"*", "*i*", "/*/vi"}
MCPieces  == "" :> <<>> @@ "2" :> <<"2">> @@ "007" :> <<"007">> @@ "sh" :> <<"sh">>
             @@ "vi" :> <<"vi">> @@ "/bin/vi" :> <<"/", "bin", "/", "vi">>
             @@ "bin vi" :> <<"bin", " ", "vi">> @@ "Ask Vi" :> <<"ask", " ", "vi">>
             @@ "vim tips" :> <<"vim", " ", "tips">>
MCWords    == {"2", "007", "sh", "vi", "bin", "ask", "vim", "tips"}
MCBase     == "/bin/vi" :> "vi"
MCFits     == "*" :> {"", "2", "sh", "vi", "/bin/vi", "Ask Vi", "vim tips"}
              @@ "*i*" :> {"vi", "/bin/vi", "Ask Vi", "vim tips"} @@ "/*/vi" :> {"/bin/vi"}
MCFitsPath == "*" :> {"", "2", "sh", "vi", "Ask Vi", "vim tips"}
              @@ "*i*" :> {"vi", "Ask Vi", "vim tips"} @@ "/*/vi" :> {"/bin/vi"}
MCTexts == {"", "2", "007", "sh", "vi", "/bin/vi", "bin vi", "Ask Vi",
            "*", "*i*", "/*/vi"}

\* Any two processes, named or not, with a window or not; one that is called as
\* a process before it is numbered; and the threads of a second one.
OneOf(pid, comms, listed) ==
    {ProcInfo(pid, listed, comm, exe, title) :
        comm \in comms, exe \in {Nothing, "/bin/vi"},
        title \in {Nothing, "vi", "Ask Vi", "vim tips", "/bin/vi"}}
MCUniverses ==
    {{p, q} : p \in OneOf(1, {Nothing, "sh", "vi"}, TRUE),
              q \in OneOf(2, {Nothing, "vi"}, TRUE)}
    \cup {{p, q} : p \in OneOf(1, {"2"}, TRUE), q \in OneOf(2, {"sh"}, TRUE)}
    \cup {{p, q} : p \in OneOf(1, {"vi"}, TRUE), q \in OneOf(2, {"vi"}, FALSE)}

\* A shell that shows "Ask Vi" in its window, and an editor; "vi" finds both,
\* the editor first, and "/bin/vi" the editor.
MCProcesses == {ProcInfo(1, TRUE, "sh", Nothing, "Ask Vi"),
                ProcInfo(2, TRUE, "vi", "/bin/vi", Nothing)}
MCMatches == "vi" :> <<2, 1>> @@ "/bin/vi" :> <<2>>

Plain == [show |-> {}, devices |-> {}, addrs |-> {}, monitor |-> FALSE,
          all |-> FALSE, ifaces |-> {}, names |-> <<>>, interval |-> 1]

\* "pidload", "pidload -F -d sda /bin/vi"
MCInitialOptions ==
    {[Plain EXCEPT !.monitor = TRUE, !.all = TRUE],
     [Plain EXCEPT !.show = {"numfd"}, !.devices = {"sda"},
                   !.names = <<"/bin/vi">>]}
=============================================================================
