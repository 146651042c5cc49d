------------------------------ MODULE MCSshWorker ------------------------------
(***************************************************************************)
(* Small instances of SshWorker: logins through a jump host and without    *)
(* one, a shell, mosh, and each kind of forwarded connection.              *)
(***************************************************************************)
EXTENDS SshWorker

Plain ==
    [jump |-> FALSE, keys |-> {}, encrypted |-> {}, passwords |-> {"login"}, noPrompts |-> FALSE,
     addresses |-> 1, others |-> 0, stops |-> FALSE,
     kind |-> "shell", status |-> FALSE, typed |-> 0, output |-> 0, said |-> 0, replied |-> 0, forwards |-> <<>>,
     drops |-> FALSE]

(* Questions and sockets, stopped anywhere. *)
Login == [Plain EXCEPT !.addresses = 2, !.others = 2, !.stops = TRUE]
Key == [Login EXCEPT !.keys = {"login"}, !.encrypted = {"login"}]
Jump == [Login EXCEPT !.jump = TRUE, !.addresses = 1, !.others = 1, !.keys = {"jumpLogin"}, !.passwords = {}]
Side == [Jump EXCEPT !.kind = "side", !.noPrompts = TRUE, !.passwords = {"jumpLogin", "login"}]

(* A shell with input and more output than it may hold; one that is        *)
(* stopped, or drops; mosh.                                                *)
Shell == [Plain EXCEPT !.typed = 1, !.output = 3]
ShellStops == [Plain EXCEPT !.stops = TRUE, !.typed = 1, !.output = 1, !.drops = TRUE]
Mosh == [ShellStops EXCEPT !.kind = "mosh", !.status = TRUE, !.typed = 0]
Resume == [ShellStops EXCEPT !.kind = "resume"]

(* Forwarded connections. *)
Forward(kind, said, replied) ==
    [Plain EXCEPT !.kind = "side", !.status = TRUE, !.said = said,
                   !.replied = replied, !.forwards = <<kind>>]

(* One beside a shell, and one with nothing else that reads. *)
Beside == [Plain EXCEPT !.output = 1, !.replied = 1, !.forwards = <<"remote">>]
Alone == [Forward("local", 1, 1) EXCEPT !.status = FALSE]

MCScopes ==
    {Login, Key, Jump, Side, Shell, ShellStops, Mosh, Resume,
     Forward("local", 2, 1), Forward("remote", 1, 2), Forward("socks4", 1, 0), Forward("socks5", 1, 1),
     Beside, Alone}
=============================================================================
