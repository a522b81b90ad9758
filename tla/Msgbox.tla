-------------------------------- MODULE Msgbox --------------------------------
(***************************************************************************)
(* The message boxes of os/kozos.c: struct _kz_msgbox (the thread blocked  *)
(* in kz_recv, head and tail of the queue) and the fields of the           *)
(* kz_msgbuf's that are in use.  A kz_msgbuf lives in a block of the heap. *)
(***************************************************************************)
EXTENDS ThreadQueue, Memory

CONSTANTS Box,          \* the message boxes, kz_msgbox_id_t
          STATIC,       \* a payload that is not in the heap ("static memory")
          MSGBUF        \* sizeof(kz_msgbuf), what sendmsg asks the heap for

ASSUME MsgboxAssumption ==
    /\ STATIC \notin BlockOrNull
    /\ MSGBUF \in Nat

Payload == Block \cup {STATIC}

\* "queue" is the history variable: the buffers each box should hold.
Boxes == [receiver : [Box -> TcbOrNull],
          head     : [Box -> BlockOrNull],
          tail     : [Box -> BlockOrNull],
          next     : [Block -> BlockOrNull],
          sender   : [Block -> TcbOrNull],
          p        : [Block -> Payload \cup {NULL}],
          queue    : [Box -> Seq(Block)]]

ClearedBoxes == [receiver |-> [id \in Box |-> NULL],
                 head     |-> [id \in Box |-> NULL],
                 tail     |-> [id \in Box |-> NULL],
                 next     |-> [b \in Block |-> NULL],
                 sender   |-> [b \in Block |-> NULL],
                 p        |-> [b \in Block |-> NULL],
                 queue    |-> [id \in Box |-> <<>>]]

\* Mutant of sendmsg: the newest message is put first.
sendmsgInFront(x, id, mp, thp, p) ==
    [x EXCEPT !.next[mp] = x.head[id], !.sender[mp] = thp, !.p[mp] = p,
              !.head[id] = mp, !.tail[id] = IF @ = NULL THEN mp ELSE @,
              !.queue[id] = <<mp>> \o @]

\* Fill the fresh buffer mp and append it to the box.
sendmsg(x, id, mp, thp, p) ==
    LET linked == IF x.tail[id] # NULL THEN [x EXCEPT !.next[x.tail[id]] = mp]
                                       ELSE [x EXCEPT !.head[id] = mp]
    IN  [linked EXCEPT !.next[mp]   = NULL,
                       !.sender[mp] = thp,
                       !.p[mp]      = p,
                       !.tail[id]   = mp,
                       !.queue[id]  = Append(@, mp)]

\* Mutant of recvmsg: taking the last message leaves the tail pointer.
recvmsgStaleTail(x, id) ==
    LET mp == x.head[id]
    IN  [x EXCEPT !.head[id] = x.next[mp], !.next[mp] = NULL, !.sender[mp] = NULL,
                  !.p[mp] = NULL, !.receiver[id] = NULL, !.queue[id] = Rest(@)]

\* Mutant of recvmsg: the receiver that has been served is not forgotten.
recvmsgKeepsReceiver(x, id) ==
    LET mp == x.head[id]
    IN  [x EXCEPT !.head[id] = x.next[mp], !.tail[id] = IF x.next[mp] = NULL THEN NULL ELSE @,
                  !.next[mp] = NULL, !.sender[mp] = NULL, !.p[mp] = NULL,
                  !.queue[id] = Rest(@)]

(***************************************************************************)
(* Unlink the first buffer and forget the receiver.  The buffer goes back  *)
(* to the heap; its fields, which the next owner of the block overwrites,  *)
(* are cleared here.                                                       *)
(***************************************************************************)
recvmsg(x, id) ==
    LET mp == x.head[id]
    IN  [x EXCEPT !.head[id]     = x.next[mp],
                  !.tail[id]     = IF x.next[mp] = NULL THEN NULL ELSE @,
                  !.next[mp]     = NULL,
                  !.sender[mp]   = NULL,
                  !.p[mp]        = NULL,
                  !.receiver[id] = NULL,
                  !.queue[id]    = Rest(@)]

BoxesLinked(x) ==
    \A id \in Box : /\ Linked(x.head[id], x.next, x.queue[id])
                    /\ x.tail[id] = TailOf(x.queue[id])
                    /\ Distinct(x.queue[id])

\* A box has a first buffer exactly when it has a last one.
EndsMatch(x) == \A id \in Box : x.head[id] = NULL <=> x.tail[id] = NULL

\* The blocks that hold queued messages, and those the messages carry.
Buffers(x)  == UNION {Range(x.queue[id]) : id \in Box}
Payloads(x) == {x.p[b] : b \in Buffers(x)} \cap Block

===============================================================================
