---------------------------------- MODULE Sheets ----------------------------------
(***************************************************************************)
(* The class GoogleSheets and the programs that append rows with it:               *)
(* handler-google-sheets, pkt2sheet and js2sheet, several of which may run at a     *)
(* time and share the file with the token.  Google is external: it issues tokens,   *)
(* lets them expire, and may append a row although its answer is lost.             *)
(***************************************************************************)
EXTENDS Integers, Sequences, FiniteSets

CONSTANTS
    Writers,     \* the programs that run
    Program,     \* writer |-> "handler", "pkt2sheet" or "js2sheet"
    Rows,        \* writer |-> the rows it is to append
    MaxTrouble   \* bound: failures, odd answers and tokens that expire

ASSUME TroubleAssumption == MaxTrouble \in Nat

RowType == [id : Nat \ {0}, class : {"good", "other", "noise", "size"}]

\* Every row has an id of its own.
ASSUME RowsAssumption ==
    /\ Rows \in [Writers -> Seq(RowType)]
    /\ \A v, w \in Writers : \A i \in 1..Len(Rows[v]), j \in 1..Len(Rows[w]) :
          Rows[v][i].id = Rows[w][j].id => v = w /\ i = j

\* Tokens are numbered as they are issued.
NoToken == 0
ErrorText == -1   \* the description of an error, in the place of a token
NoAccess == -2    \* "UTF-8", the default for an answer without access_token

VARIABLES
    gpc,        \* by writer
    gtoken,     \* GoogleSheets::token
    grows,      \* rows that a writer has still to take
    grow,       \* the row it appends
    token_file,
    issued,     \* how many tokens there have been
    valid,      \* those that have not expired
    cells,      \* ids of the rows of the sheet, in order
    unanswered, \* rows that were appended without the writer being told
    told,       \* rows that append() said it has appended
    trouble

gsVars == <<gpc, gtoken, grows, grow, token_file, issued, valid, cells, unanswered, told, trouble>>

NoRow == [id |-> 0, class |-> "good"]

GsInit ==
    /\ gpc = [w \in Writers |-> "new"] /\ gtoken = [w \in Writers |-> NoToken]
    /\ grows = Rows /\ grow = [w \in Writers |-> NoRow]
    /\ issued = 1 /\ token_file \in {NoToken, 1} /\ valid \in {{}, {1}}
    /\ cells = <<>> /\ unanswered = {} /\ told = {} /\ trouble = 0

Trouble == trouble < MaxTrouble /\ trouble' = trouble + 1
NoTrouble == UNCHANGED trouble

GsAt(w, here) == gpc[w] = here
GsGoes(w, there) == gpc' = [gpc EXCEPT ![w] = there]
TheSheet == <<issued, valid, cells, unanswered>>

\* Config() reads the token of the last time; without one a token is asked for at once.
GoogleSheets(w) ==
    /\ GsAt(w, "new")
    /\ gtoken' = [gtoken EXCEPT ![w] = token_file]
    /\ GsGoes(w, IF token_file = NoToken THEN "gen0" ELSE "take")
    /\ UNCHANGED <<grows, grow, token_file, told, trouble, TheSheet>>

\* What loadGoogleToken() leaves in retval, and whether it returns 0.  A signature, a
\* connection or an answer that fails leaves a text there.
loadGoogleToken(value, ok) ==
    \/ /\ NoTrouble /\ value = issued + 1 /\ ok
       /\ issued' = issued + 1 /\ valid' = valid \cup {issued + 1}
    \/ Trouble /\ value = NoAccess /\ ok /\ UNCHANGED <<issued, valid>>
    \/ Trouble /\ value = ErrorText /\ ~ok /\ UNCHANGED <<issued, valid>>

ontokenbearer(value, ok) == token_file' = IF ok THEN value ELSE token_file

genToken(w) ==
    /\ gpc[w] \in {"gen0", "gen"}
    /\ \E value \in {issued + 1, NoAccess, ErrorText}, ok \in BOOLEAN :
          /\ loadGoogleToken(value, ok)
          /\ ontokenbearer(value, ok)
          /\ gtoken' = [gtoken EXCEPT ![w] = IF ok THEN value ELSE NoToken]
    /\ GsGoes(w, IF gpc[w] = "gen0" THEN "take" ELSE "again")
    /\ UNCHANGED <<grows, grow, cells, unanswered, told>>

\* The next row is what the program is to append, or is left out for its class.
Taken(w, refused) ==
    /\ GsAt(w, "take") /\ grows[w] # <<>>
    /\ grows' = [grows EXCEPT ![w] = Tail(@)]
    /\ IF Head(grows[w]).class \in refused
       THEN UNCHANGED <<gpc, grow>>
       ELSE GsGoes(w, "post") /\ grow' = [grow EXCEPT ![w] = Head(grows[w])]
    /\ UNCHANGED <<gtoken, token_file, told, trouble, TheSheet>>

\* handler-google-sheets: a message of the bus that cannot be decoded or is not allowed is
\* left out, and decomposed into a row otherwise.
TakeMessage(w) == Program[w] = "handler" /\ Taken(w, {"noise", "other"})

\* pkt2sheet: a packet of the file has to have an allowed size, to be recognised and to be
\* of an allowed message.
TakePacket(w) == Program[w] = "pkt2sheet" /\ Taken(w, {"size", "noise", "other"})

\* Wrong on purpose: without a token nothing is tried.
TakeJson_WithToken(w) == Program[w] = "js2sheet" /\ gtoken[w] # NoToken /\ Taken(w, {"noise"})

\* js2sheet: the values of any JSON text, of whatever depth, make one row.
TakeJson(w) == Program[w] = "js2sheet" /\ Taken(w, {"noise"})

\* The -1 of a read() that fails is the length of a text, which throws.
ReadFails(w) ==
    /\ Program[w] \in {"pkt2sheet", "js2sheet"} /\ GsAt(w, "take") /\ Trouble
    /\ GsGoes(w, "aborted")
    /\ UNCHANGED <<gtoken, grows, grow, token_file, told, TheSheet>>

\* curl_post(): the HTTP code, or less than 0 if there is none.
curl_post(w, code) ==
    LET row == grow[w].id IN
    \/ /\ gtoken[w] \in valid
       /\ cells' = Append(cells, row)
       /\ \/ NoTrouble /\ code = 200 /\ UNCHANGED unanswered
          \/ Trouble /\ code \in {-1, 500} /\ unanswered' = unanswered \cup {row}
    \/ gtoken[w] \in valid /\ Trouble /\ code \in {-1, 500} /\ UNCHANGED <<cells, unanswered>>
    \/ gtoken[w] \notin valid /\ NoTrouble /\ code = 401 /\ UNCHANGED <<cells, unanswered>>

Answers == {200, 401, 500, -1}

\* Wrong on purpose: an answer of 200 leads to a second attempt too.
token_post_Always(w) ==
    /\ GsAt(w, "post")
    /\ \E code \in Answers : curl_post(w, code)
    /\ GsGoes(w, "gen") /\ UNCHANGED told
    /\ UNCHANGED <<gtoken, grows, grow, token_file, issued, valid>>

\* token_post(): any answer but 200 leads to a new token and to a second attempt.
token_post(w) ==
    /\ GsAt(w, "post")
    /\ \E code \in Answers :
          /\ curl_post(w, code)
          /\ \/ code = 200 /\ GsGoes(w, "take") /\ told' = told \cup {grow[w].id}
             \/ code # 200 /\ GsGoes(w, "gen") /\ UNCHANGED told
    /\ UNCHANGED <<gtoken, grows, grow, token_file, issued, valid>>

\* The second attempt: append() is true if it is answered with 200.
token_post_again(w) ==
    /\ GsAt(w, "again")
    /\ \E code \in Answers :
          /\ curl_post(w, code)
          /\ told' = IF code = 200 THEN told \cup {grow[w].id} ELSE told
    /\ GsGoes(w, "take")
    /\ UNCHANGED <<gtoken, grows, grow, token_file, issued, valid>>

GsWriter(w) ==
    \/ GoogleSheets(w) \/ genToken(w) \/ token_post(w) \/ token_post_again(w)
    \/ TakeMessage(w) \/ TakePacket(w) \/ TakeJson(w)

\* The hour of a token is over.
Expire ==
    /\ Trouble
    /\ \E t \in valid : valid' = valid \ {t}
    /\ UNCHANGED <<gpc, gtoken, grows, grow, token_file, issued, cells, unanswered, told>>

GsNext == (\E w \in Writers : GsWriter(w) \/ ReadFails(w)) \/ Expire

Copies(row) == Cardinality({i \in 1..Len(cells) : cells[i] = row})

AllRows == UNION {{Rows[w][i].id : i \in 1..Len(Rows[w])} : w \in Writers}

(***************************************************************************)
(* A row that append() reports is in the sheet, and one that is there twice is so  *)
(* because the answer to its first attempt was lost: the renewal of a token, by     *)
(* whichever program, neither loses nor doubles a row.  (google-sheets.cpp         *)
(* 948-969)                                                                   *)
(***************************************************************************)
AppendedAsTold ==
    \A row \in AllRows :
        /\ row \in told => Copies(row) >= 1
        /\ Copies(row) >= 1 => row \in told \cup unanswered
        /\ Copies(row) <= (IF row \in unanswered THEN 2 ELSE 1)

\* Every writer has come to its last row, or could not read on.
AllRowsTried == \A w \in Writers : (grows[w] = <<>> /\ gpc[w] = "take") \/ gpc[w] = "aborted"
=============================================================================
