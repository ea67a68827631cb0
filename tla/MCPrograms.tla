------------------------------- MODULE MCPrograms -----------------------------
(***************************************************************************)
(* The programs of the demonstrations: a behaviour is a run of one of      *)
(* them.  They share nothing: each is a program of its own.                *)
(***************************************************************************)
EXTENDS TNTdtp, TNDaq, TNHttpd, TNSlip

Req(method, url, more, clen, body, value) ==
    [method |-> method, url |-> url, more |-> more, clen |-> clen, body |-> body,
     value |-> value]

FormBody == <<"text", "=", "a", "b">>
TwoFields == <<"other", "=", "d", "&", "textfield0", "=", "c">>
ManyCells == <<"h", "h", "h", "h", "h", "h", "h", "nl">>

Page == Req("GET", "/", <<>>, 0, <<>>, <<>>)
OneField == Req("POST", Form, <<>>, 4, FormBody, <<"a", "b">>)

(* Of the first client: a page, a file, the form with a value too long for *)
(* the field and with two fields, a bad URL, a method nobody knows, a      *)
(* header line and a body that do not fit, a body that does not come.      *)
MCRequests ==
    <<{Page, OneField,
       Req("GET", "/main.css", Line("Host", "x"), 0, <<>>, <<>>),
       Req("POST", Form, <<>>, 7, TwoFields, <<"c">>),
       Req("GET", "nowhere", <<>>, 0, <<>>, <<>>),
       Req("PUT", "/", <<>>, 0, <<>>, <<>>),
       Req("GET", "/", ManyCells, 0, <<>>, <<>>),
       Req("POST", "/", <<>>, 8, <<>>, <<>>),
       Req("POST", "/", <<>>, 1, <<>>, <<>>)},
      {Page, OneField},
      {Page}>>

(* Data that needs no escape, one or two, and what an escape turns into.   *)
MCFrames ==
    {<<Other>>, <<FEND>>, <<FESC>>, <<TFESC>>, <<FEND, FESC>>, <<FESC, TFEND>>, <<TFEND, FEND, Other>>}

VARIABLE program

vars == <<fileVars, daqVars, httpVars, slipVars, program>>

Init ==
    /\ FileInit /\ DaqInit /\ HttpInit /\ SlipInit
    /\ program \in {"file", "poll", "push", "http", "slip"}

RunFile == program = "file" /\ FileNext /\ UNCHANGED <<daqVars, httpVars, slipVars>>
RunPoll == program = "poll" /\ PollNext /\ UNCHANGED <<fileVars, httpVars, slipVars>>
RunPush == program = "push" /\ PushNext /\ UNCHANGED <<fileVars, httpVars, slipVars>>
RunHttp == program = "http" /\ HttpNext /\ UNCHANGED <<fileVars, daqVars, slipVars>>
RunSlip == program = "slip" /\ SlipNext /\ UNCHANGED <<fileVars, daqVars, httpVars>>

Next == (RunFile \/ RunPoll \/ RunPush \/ RunHttp \/ RunSlip) /\ UNCHANGED program

Spec == Init /\ [][Next]_vars /\ FileFairness

=============================================================================
