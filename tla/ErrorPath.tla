------------------------------ MODULE ErrorPath ------------------------------
(***************************************************************************)
(* What becomes of an error on its way from where it is made to the answer *)
(* of an HTTP request: src/err/biz, src/err/comm, the interceptor of gRPC  *)
(* servers, and ExceptionFail of src/handler/http_result.go.               *)
(*                                                                         *)
(* An error is the sequence of its layers, the outermost first: each layer *)
(* before the last is a biz or comm error with the rest as its cause.  A   *)
(* text is the number of times "rpc error: ..." was put before the message *)
(* the error was made with.                                                *)
(***************************************************************************)
EXTENDS Naturals, SequencesExt

CONSTANT Codes    \* codes of biz errors: 0 and 2 are OK and Unknown to gRPC

OK == 0
Unknown == 2

Layers == [kind : {"plain", "response", "status", "biz", "comm"}, code : Nat, text : Nat]
Layer(kind, code, text) == [kind |-> kind, code |-> code, text |-> text]

\* The constructors: an error is made with a code, 500 when none is given, and a text.
BizError(code, text) == Layer("biz", code, text)
CommError(code, text) == Layer("comm", code, text)

\* Other errors of Go, the error of a gRPC call, and the one of a JSON-RPC call.
Plain(text) == <<Layer("plain", 0, text)>>
Status(code, text) == <<Layer("status", code, text)>>
ResponseError(text) == <<Layer("response", 0, text)>>
NoError == << >>

\* Error() or GetMessage(): a status says that it is one.
Text(e) == IF Head(e).kind = "status" THEN Head(e).text + 1 ELSE Head(e).text

\* Wrap keeps the text; WrapNew and WrapNewCode have one of their own.
WrapBiz(e) == <<BizError(500, Text(e))>> \o e
WrapNewBiz(code, e) == <<BizError(code, 0)>> \o e
WrapComm(e) == <<CommError(500, Text(e))>> \o e
WrapNewComm(code, e) == <<CommError(code, 0)>> \o e

BizLayers(e) == {i \in DOMAIN e : e[i].kind = "biz"}

\* Variants for the properties: the innermost is taken, or causes are not looked at.
LastBiz(e) == {e[i] : i \in {k \in BizLayers(e) : \A j \in BizLayers(e) : k >= j}}
BizOnTop(e) == IF e # NoError /\ Head(e).kind = "biz" THEN {Head(e)} ELSE {}

\* IsBizErrorOrCause: the first biz error among the layers, if there is one.
FirstBiz(e) == {e[i] : i \in {k \in BizLayers(e) : \A j \in BizLayers(e) : k <= j}}

\* ErrorInterceptor: a status with the code OK is no error.
ErrorInterceptor(e) ==
  IF FirstBiz(e) = {} THEN e
  ELSE LET b == CHOOSE b \in FirstBiz(e) : TRUE
       IN  IF b.code = OK THEN NoError ELSE Status(b.code, b.text)

\* What the client of a gRPC call is given: a status, of code Unknown unless the server's
\* handler returned one; a comm error is none, whatever it wraps.
Received(e) ==
  IF e = NoError \/ Head(e).kind = "status" THEN e ELSE Status(Unknown, Text(e))

GrpcCall(e) == Received(ErrorInterceptor(e))

\* Client.Call of JSON-RPC.
JsonCall(e) == IF e = NoError THEN e ELSE ResponseError(Text(e))

-----------------------------------------------------------------------------
\* The answer of the HTTP request.

Result(code, text) == [code |-> code, text |-> text]
Success == Result(200, "ok")
ServerError == Result(500, "busy")

ExceptionFail(e) ==
  IF Head(e).kind = "status" /\ Head(e).code # Unknown
    THEN Result(Head(e).code, Head(e).text)
    ELSE IF FirstBiz(e) # {}
           THEN LET b == CHOOSE b \in FirstBiz(e) : TRUE IN Result(b.code, b.text)
           ELSE ServerError

Response(e) == IF e = NoError THEN Success ELSE ExceptionFail(e)

-----------------------------------------------------------------------------
\* Journeys: what the functions and services between the error and the answer do.

Origins == {Plain(0), ResponseError(0), <<CommError(500, 0)>>} \cup {<<BizError(c, 0)>> : c \in Codes}
Steps == {"biz", "newbiz", "comm", "newcomm", "grpc", "json"}

Passed(e, s) ==
  CASE s = "biz" -> WrapBiz(e)
    [] s = "newbiz" -> WrapNewBiz(500, e)
    [] s = "comm" -> WrapComm(e)
    [] s = "newcomm" -> WrapNewComm(500, e)
    [] s = "grpc" -> GrpcCall(e)
    [] s = "json" -> JsonCall(e)

-----------------------------------------------------------------------------
\* What is shown, said of the journey alone.  The steps are numbered from 1; the error is
\* made at 0.

IsBiz(o) == Head(o).kind = "biz"

\* The biz errors that were made on the way, and the last of them.
MadeAt(o, j) == {i \in DOMAIN j : j[i] \in {"biz", "newbiz"}} \cup (IF IsBiz(o) THEN {0} ELSE {})
LastMade(o, j) == CHOOSE i \in MadeAt(o, j) : \A k \in MadeAt(o, j) : i >= k
CodeOf(o, p) == IF p = 0 THEN Head(o).code ELSE 500

\* Only comm errors were put over the error of the place m before the place i.
CommOnly(j, m, i) == \A k \in m + 1..i - 1 : j[k] \in {"comm", "newcomm"}

\* A biz error of code 0 is taken for success by the first gRPC call, unless it has been
\* wrapped in another biz error by then, or goes through a JSON-RPC call before.
Vanishes(o, j) ==
  /\ IsBiz(o) /\ Head(o).code = OK
  /\ \E i \in DOMAIN j : j[i] = "grpc" /\ CommOnly(j, 0, i)

\* From the place p on nothing hides a biz error of code c: between services it goes by
\* gRPC only, nobody wraps it after the first call, and its code is not Unknown.
HopsAfter(j, p) == {i \in p + 1..Len(j) : j[i] \in {"grpc", "json"}}
ByGrpc(j, p) == \A h \in HopsAfter(j, p) : \A i \in h..Len(j) : j[i] = "grpc"
Reaches(j, p, c) == HopsAfter(j, p) = {} \/ (c # Unknown /\ ByGrpc(j, p))

\* A new comm error over a biz error is dropped by a gRPC call, with those around it.
Dropped(o, j, i) ==
  /\ j[i] = "newcomm"
  /\ \E m \in MadeAt(o, j), h \in DOMAIN j :
       m < i /\ i < h /\ j[h] = "grpc" /\ CommOnly(j, m, h)

\* A text grows when the error of a gRPC call is wrapped or sent on by JSON-RPC, since the
\* last error with a text of its own that was not dropped.
Renamed(o, j, i) == j[i] \in {"newbiz", "newcomm"} /\ ~Dropped(o, j, i)
Grows(j, i) == j[i] = "grpc" /\ j[i + 1] # "grpc"
Growths(o, j, p) == {i \in 1..p - 1 : Grows(j, i) /\ \A k \in i + 1..p : ~Renamed(o, j, k)}
TextAt(o, j, p) == Cardinality(Growths(o, j, p))

Shown(o, j) ==
  LET p == LastMade(o, j)
  IN  IF Vanishes(o, j) THEN Success
      ELSE IF MadeAt(o, j) # {} /\ Reaches(j, p, CodeOf(o, p))
             THEN Result(CodeOf(o, p), TextAt(o, j, p))
             ELSE ServerError

\* Why: an error that has come this way is none when it has vanished; it has a biz error
\* among its layers while only comm errors were put over the last one; its head is a status
\* after a gRPC call only, and has the code of that biz error while nothing hides it.
Carried(o, j) == MadeAt(o, j) # {} /\ CommOnly(j, LastMade(o, j), Len(j) + 1)
OnWay(e, o, j) ==
  LET p == LastMade(o, j)
  IN  /\ e = NoError <=> Vanishes(o, j)
      /\ e # NoError =>
           /\ Head(e).kind = "status" <=> j # << >> /\ j[Len(j)] = "grpc"
           /\ Head(e).text = TextAt(o, j, Len(j))
           /\ FirstBiz(e) =
                IF Carried(o, j) THEN {BizError(CodeOf(o, p), TextAt(o, j, p))} ELSE {}
           /\ Head(e).kind = "status" =>
                IF MadeAt(o, j) # {} /\ ByGrpc(j, p)
                  THEN Head(e).code = CodeOf(o, p) /\ Head(e).text = TextAt(o, j, p)
                  ELSE Head(e).code = Unknown

=============================================================================
