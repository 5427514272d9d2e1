------------------------------ MODULE MCDriver ------------------------------
(***************************************************************************)
(* Two runs of luc over two sources, one with and one without the          *)
(* extension .lu.                                                          *)
(***************************************************************************)
EXTENDS Driver

CONSTANTS none, user, p1, p2

MCSources == {<<"prog", "lu">>, <<"prog">>}
MCLeftovers == {{}, {Temp(p1, 0)}, {Temp(p1, 0), Temp(p1, 1)}}
MCOthers == {<<"prog", "c">>, <<"out">>}

Line(src, o, backend, make, dump) ==
    [src |-> src, o |-> o, backend |-> backend, make |-> make, dump |-> dump]

MCRequests == {
    Line(<<"prog", "lu">>, none, "auto", TRUE, "no"),
    Line(<<"prog", "lu">>, <<"out">>, "auto", TRUE, "no"),
    Line(<<"prog", "lu">>, <<"prog", "c">>, "auto", TRUE, "no"),
    Line(<<"prog", "lu">>, none, "auto", FALSE, "no"),
    Line(<<"prog", "lu">>, none, "c", FALSE, "no"),
    Line(<<"prog", "lu">>, <<"prog", "c">>, "auto", FALSE, "no"),
    Line(<<"prog">>, none, "auto", FALSE, "no"),
    Line(<<"prog", "lu">>, none, "auto", FALSE, "ast"),
    Line(<<"prog", "lu">>, none, "auto", FALSE, "tok")}
=============================================================================
