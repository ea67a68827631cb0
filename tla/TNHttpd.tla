------------------------------- MODULE TNHttpd -------------------------------
(***************************************************************************)
(* The web server of the demonstration (HTTP_test_1.c, tn_httpd.c): a task *)
(* accepts connections and hands each to a free task of a pool, which      *)
(* reads one request, answers it and closes the connection.  A client      *)
(* sends its request and waits, or resets the connection; TCP gives a      *)
(* worker the bytes of the request in pieces of any size.                  *)
(*                                                                         *)
(* A request is a sequence of cells: words, "nl" for the end of a line,    *)
(* "cr" for the rest of an empty line.  A line that means something has at *)
(* least three cells, as it has more than two bytes in the code.  What a   *)
(* task does between two blocking calls is one step: the pool is changed   *)
(* under semSrvResLock, and the workers share one priority.                *)
(***************************************************************************)
EXTENDS Naturals, Sequences, FiniteSets, SequencesExt

CONSTANTS
    Workers,            \* 1 .. NUM_AVAL_SERVER_TASKS
    Conns,              \* connections, numbered as they are accepted
    NoConn,             \* a pool entry whose socket is 0
    Requests,           \* per connection: what its client may ask
    MaxResets,          \* bound: connections reset by their clients
    HTTPD_RX_BUF_SIZE,  \* in cells
    FIELD1_MAX_LEN      \* in cells

VARIABLES
    asks,    \* per connection: its request
    input,   \* per connection: the cells not yet given to a worker
    conn,    \* per connection: "new", "open", "refused", "closed"
    gone,    \* the connections their clients have reset
    out,     \* per connection: the answers sent
    pool,    \* g_srv_tasks_pool: the connection of each worker
    work,    \* per worker: where it is, and its HTTPDINFO
    field    \* g_field0_value

httpVars == <<asks, input, conn, gone, out, pool, work, field>>

-----------------------------------------------------------------------------
(* Requests and what each of them should get.                              *)

Line(word, arg) == <<word, arg, "nl">>
EmptyLine == <<"cr", "nl">>

(* The cells of a request; clen = 0: no Content-Length.                    *)
Cells(r) ==
    Line(r.method, r.url) \o r.more
    \o (IF r.clen = 0 THEN <<>> ELSE Line("Content-Length", ToString(r.clen)))
    \o EmptyLine \o r.body

(* The tables of the program: "/index.html" is the page with the field,    *)
(* "/main.css" is sent as it is.                                            *)
Pages == {"/index.html"}
Files == {"/main.css"}
Form == "/form1_submit"

(* A line that does not fit the buffer; a body shorter than announced.     *)
TooLong(r) == Len(r.more) > HTTPD_RX_BUF_SIZE
Unfinished(r) == r.clen \in Len(r.body) + 1 .. HTTPD_RX_BUF_SIZE

(* The statuses the client of request r should see.                        *)
Expected(r) ==
    CASE TooLong(r) \/ Unfinished(r) -> <<>>
      [] r.clen > HTTPD_RX_BUF_SIZE -> <<400>>
      [] r.url = "nowhere" -> <<400, 404>>
      [] r.method = "GET" -> IF r.url \in Pages \cup Files \cup {Form, "/"}
                             THEN <<200>>
                             ELSE <<404>>
      [] r.method = "POST" /\ r.clen > 0 -> IF r.url = Form THEN <<200>> ELSE <<404>>
      [] OTHER -> <<400>>

-----------------------------------------------------------------------------
(* Reading a request.                                                      *)

(* hti and the local variables of httpd_main_func after httpd_init: line   *)
(* is what is in rx_buf from its start, the unfinished line or, after the  *)
(* empty line, the beginning of the body.                                  *)
httpd_init(at) ==
    [at |-> at, line |-> <<>>, method |-> "none", url |-> "none", msg_body_len |-> 0,
     fEndOfReq |-> FALSE, fatal |-> FALSE, sent |-> <<>>, nul |-> FALSE]

(* A URL without a leading slash is answered at once, and kept.            *)
httpd_get_URL(h, url) ==
    [h EXCEPT !.url = url, !.sent = IF url = "nowhere" THEN Append(@, 400) ELSE @]

atoi(cell) == CHOOSE n \in 1 .. HTTPD_RX_BUF_SIZE + 1 : ToString(n) = cell

(* atoi is given the cell after the end of the line as its end: that cell, *)
(* the first of the next line, is lost if it is in the buffer already.     *)
httpd_line_processing(h, line) ==
    CASE line[1] = "GET" -> httpd_get_URL([h EXCEPT !.method = "GET"], line[2])
      [] line[1] = "POST" -> httpd_get_URL([h EXCEPT !.method = "POST"], line[2])
      [] line[1] = "Content-Length" ->
           [h EXCEPT !.msg_body_len = atoi(line[2]), !.nul = TRUE,
                     !.fatal = atoi(line[2]) > HTTPD_RX_BUF_SIZE,
                     !.sent = IF atoi(line[2]) > HTTPD_RX_BUF_SIZE THEN Append(@, 400) ELSE @]
      [] OTHER -> h

LineEnds(h, line) ==
    IF Len(line) = 2 THEN [h EXCEPT !.line = <<>>, !.fEndOfReq = TRUE]
    ELSE httpd_line_processing([h EXCEPT !.line = <<>>], line)

Scan(h, cell) ==
    IF h.fatal THEN h
    ELSE IF cell # "nl" \/ h.fEndOfReq \/ h.nul
    THEN [h EXCEPT !.line = Append(@, IF h.nul THEN "nul" ELSE cell), !.nul = FALSE]
    ELSE LineEnds(h, Append(h.line, "nl"))

(* Mutant: the unfinished line is not moved to the start of the buffer.    *)
Lost_Scanned(h, piece) ==
    [FoldLeft(Scan, [h EXCEPT !.line = <<>>], piece) EXCEPT !.nul = FALSE]

(* The bytes of one s_recv.                                                *)
Scanned(h, piece) == [FoldLeft(Scan, h, piece) EXCEPT !.nul = FALSE]

(* Where httpd_main_func goes on after a piece.                            *)
Next_at(h) ==
    CASE h.fatal -> "close"
      [] ~h.fEndOfReq -> "recv"
      [] h.msg_body_len > Len(h.line) -> "body"
      [] OTHER -> "answer"

-----------------------------------------------------------------------------
(* The form: name=value pairs separated by "&".                            *)

(* A beginning of the field's name is taken for the name.                  *)
FieldNames == {<<"textfield0">>, <<"text">>}

Fitting(val) == SubSeq(val, 1, IF Len(val) < FIELD1_MAX_LEN THEN Len(val) ELSE FIELD1_MAX_LEN)

httpd_set_form_value(f, name, val) ==
    IF name \in FieldNames /\ val # <<>> THEN Fitting(val) ELSE f

(* A zero ends the scan.                                                   *)
FormCell(s, cell) ==
    CASE s.stop \/ cell = "nul" -> [s EXCEPT !.stop = TRUE]
      [] cell = "=" -> [s EXCEPT !.name = s.part, !.part = <<>>]
      [] cell = "&" /\ s.name # <<>> ->
           [s EXCEPT !.name = <<>>, !.part = <<>>,
                     !.f = httpd_set_form_value(s.f, s.name, s.part)]
      [] OTHER -> [s EXCEPT !.part = Append(@, cell)]

httpd_form_name_val_proc(f, cells) ==
    LET s == FoldLeft(FormCell, [name |-> <<>>, part |-> <<>>, f |-> f, stop |-> FALSE], cells)
    IN  IF s.name # <<>> THEN httpd_set_form_value(s.f, s.name, s.part) ELSE s.f

-----------------------------------------------------------------------------
(* Answering.                                                              *)

httpd_handler_root(h) == [h EXCEPT !.url = "/index.html"]

(* The handlers: one redirects and leaves the rest to the tables, one      *)
(* answers itself.                                                         *)
httpd_proc_handler_func(h) == IF h.url = "/" THEN httpd_handler_root(h) ELSE h

(* The status of what is sent for a request that has been read.            *)
httpd_processing_GET(h) ==
    IF httpd_proc_handler_func(h).url \in Pages \cup Files \cup {Form} THEN 200 ELSE 404

httpd_processing_POST(h) == IF h.url = Form THEN 200 ELSE 404

Answer(h) ==
    CASE h.method = "GET" -> httpd_processing_GET(h)
      [] h.method = "POST" /\ h.msg_body_len > 0 -> httpd_processing_POST(h)
      [] OTHER -> 400

-----------------------------------------------------------------------------
(* The tasks.                                                              *)

HttpInit ==
    /\ asks = [c \in Conns |-> CHOOSE r \in Requests[c] : TRUE]
    /\ input = [c \in Conns |-> <<>>]
    /\ conn = [c \in Conns |-> "new"]
    /\ gone = {}
    /\ out = [c \in Conns |-> <<>>]
    /\ pool = [w \in Workers |-> NoConn]
    /\ work = [w \in Workers |-> httpd_init("poll")]
    /\ field = <<"1234567890">>

Response(status, shown) == [status |-> status, shown |-> shown]
Replied(c, replies) == IF c \in gone THEN UNCHANGED out
                       ELSE out' = [out EXCEPT ![c] = @ \o replies]

(* server_find_free_task: the first worker whose socket is 0.              *)
FreeTasks == {w \in Workers : pool[w] = NoConn}

(* s_accept returns a connection with request r; without a free task it is *)
(* closed.                                                                 *)
BaseAccepts(c, r) ==
    /\ conn[c] = "new" /\ \A d \in Conns : d < c => conn[d] # "new"
    /\ asks' = [asks EXCEPT ![c] = r]
    /\ IF FreeTasks = {}
       THEN conn' = [conn EXCEPT ![c] = "refused"] /\ UNCHANGED <<input, pool>>
       ELSE /\ conn' = [conn EXCEPT ![c] = "open"]
            /\ input' = [input EXCEPT ![c] = Cells(r)]
            /\ pool' = [pool EXCEPT ![CHOOSE w \in FreeTasks : \A v \in FreeTasks : w <= v] = c]
    /\ UNCHANGED <<gone, out, work, field>>

(* External: the client resets its connection.                             *)
ClientResets(c) ==
    /\ conn[c] = "open" /\ c \notin gone /\ Cardinality(gone) < MaxResets
    /\ gone' = gone \cup {c}
    /\ UNCHANGED <<asks, input, conn, out, pool, work, field>>

(* A worker finds a socket in its entry of the pool.                       *)
WorkerPolls(w) ==
    /\ work[w].at = "poll" /\ pool[w] # NoConn
    /\ work' = [work EXCEPT ![w] = httpd_init("recv")]
    /\ UNCHANGED <<asks, input, conn, gone, out, pool, field>>

(* s_recv with room for more gives a piece of what the client sent; the    *)
(* scan may answer already.                                                *)
RxRoom(w) == HTTPD_RX_BUF_SIZE - Len(work[w].line)

WorkerRecv(w) ==
    /\ work[w].at = "recv"
    /\ \E n \in 1 .. Len(input[pool[w]]) :
         /\ n <= RxRoom(w)
         /\ \E h \in {Scanned(work[w], SubSeq(input[pool[w]], 1, n))} :
              /\ work' = [work EXCEPT ![w] = [h EXCEPT !.at = Next_at(h), !.sent = <<>>]]
              /\ Replied(pool[w], [i \in DOMAIN h.sent |-> Response(h.sent[i], <<>>)])
         /\ input' = [input EXCEPT ![pool[w]] = SubSeq(@, n + 1, Len(@))]
    /\ UNCHANGED <<asks, conn, gone, pool, field>>

(* The rest of the body.                                                   *)
WorkerBody(w) ==
    /\ work[w].at = "body"
    /\ \E n \in 1 .. Len(input[pool[w]]) :
         /\ n <= RxRoom(w)
         /\ \E line \in {work[w].line \o SubSeq(input[pool[w]], 1, n)} :
              work' = [work EXCEPT ![w].line = line,
                         ![w].at = IF Len(line) < work[w].msg_body_len THEN "body" ELSE "answer"]
         /\ input' = [input EXCEPT ![pool[w]] = SubSeq(@, n + 1, Len(@))]
    /\ UNCHANGED <<asks, conn, gone, out, pool, field>>

(* s_recv fails: the client has reset, or the buffer is full (a length of  *)
(* 0 is an error).                                                         *)
WorkerFails(w) ==
    /\ work[w].at \in {"recv", "body"}
    /\ pool[w] \in gone \/ RxRoom(w) = 0
    /\ work' = [work EXCEPT ![w].at = "close"]
    /\ UNCHANGED <<asks, input, conn, gone, out, pool, field>>

(* The request is there and is answered by an error, a file or a page.     *)
httpd_send_error(w) ==
    /\ work[w].at = "answer" /\ Answer(work[w]) # 200
    /\ Replied(pool[w], <<Response(Answer(work[w]), <<>>)>>)
    /\ work' = [work EXCEPT ![w].at = "close"]
    /\ UNCHANGED <<asks, input, conn, gone, pool, field>>

httpd_send_res(w) ==
    /\ work[w].at = "answer" /\ Answer(work[w]) = 200 /\ work[w].url \in Files
    /\ Replied(pool[w], <<Response(200, <<>>)>>)
    /\ work' = [work EXCEPT ![w].at = "close"]
    /\ UNCHANGED <<asks, input, conn, gone, pool, field>>

(* The form's handler sets the field before it sends the page.             *)
httpd_handler_form1_submit(h) ==
    IF h.url = Form THEN httpd_form_name_val_proc(field, SubSeq(h.line, 1, h.msg_body_len))
    ELSE field

StartPage(w) ==
    /\ work[w].at = "answer" /\ Answer(work[w]) = 200 /\ work[w].url \notin Files
    /\ field' = httpd_handler_form1_submit(work[w])
    /\ work' = [work EXCEPT ![w].at = "page"]
    /\ UNCHANGED <<asks, input, conn, gone, out, pool>>

(* The page takes the field's value when the block in front of it has been *)
(* sent, whoever has set it by then.                                       *)
httpd_get_replaceable_val == field

httpd_send_replaceable_res(w) ==
    /\ work[w].at = "page"
    /\ Replied(pool[w], <<Response(200, httpd_get_replaceable_val)>>)
    /\ work' = [work EXCEPT ![w].at = "close"]
    /\ UNCHANGED <<asks, input, conn, gone, pool, field>>

(* After s_shutdown, s_recv returns 0: s_close.                            *)
WorkerCloses(w) ==
    /\ work[w].at = "close"
    /\ conn' = [conn EXCEPT ![pool[w]] = "closed"]
    /\ input' = [input EXCEPT ![pool[w]] = <<>>]
    /\ work' = [work EXCEPT ![w] = httpd_init("done")]
    /\ UNCHANGED <<asks, gone, out, pool, field>>

WorkerDone(w) ==
    /\ work[w].at = "done"
    /\ pool' = [pool EXCEPT ![w] = NoConn]
    /\ work' = [work EXCEPT ![w].at = "poll"]
    /\ UNCHANGED <<asks, input, conn, gone, out, field>>

HttpNext ==
    \/ \E c \in Conns : ClientResets(c) \/ \E r \in Requests[c] : BaseAccepts(c, r)
    \/ \E w \in Workers :
         \/ WorkerPolls(w) \/ WorkerRecv(w) \/ WorkerBody(w) \/ WorkerFails(w)
         \/ httpd_send_error(w) \/ httpd_send_res(w)
         \/ StartPage(w) \/ httpd_send_replaceable_res(w)
         \/ WorkerCloses(w) \/ WorkerDone(w)

-----------------------------------------------------------------------------
(* The values the clients of the form have submitted: the part after "="   *)
(* up to "&", cut to the field's size.                                     *)
Submitted ==
    {<<"1234567890">>} \cup
    {Fitting(v) : v \in {asks[c].value : c \in Conns} \ {<<>>}}

(* However a request is split into pieces and however the workers          *)
(* interleave, a connection the server has closed and its client has not   *)
(* reset got the answers its request asks for (httpd_main_func and         *)
(* httpd_line_processing: rx_buf moved, method and length kept between     *)
(* pieces); a worker that waits for more has not been given the whole      *)
(* request; and a page shows a value that a client submitted.              *)
HttpAnswered ==
    /\ \A c \in Conns :
         /\ conn[c] = "closed" /\ c \notin gone =>
              [i \in DOMAIN out[c] |-> out[c][i].status] = Expected(asks[c])
         /\ \A i \in DOMAIN out[c] : out[c][i].shown \in Submitted \cup {<<>>}
    /\ \A w \in Workers :
         work[w].at \in {"recv", "body"} /\ input[pool[w]] = <<>> => Unfinished(asks[pool[w]])

=============================================================================
