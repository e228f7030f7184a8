------------------------------- MODULE MCLink -------------------------------
(* Conversations of three items and the dialler's last word, with messages of *)
(* one or two frames, empty blobs and blobs of two: enough to use up the     *)
(* keys and to lose a connection in the middle of a blob with another behind. *)
EXTENDS Link

Messages == [from : End, kind : {"message"}, frames : 1..2]
Blobs == [from : End, kind : {"blob"}, frames : {0, 2}]
Third == {m \in Messages : m.frames = 1} \cup {b \in Blobs : b.frames = 2}
LastWord == [from |-> "dialler", kind |-> "message", frames |-> 1]
MCScripts ==
    {<<i, j, k, LastWord>> : i, j \in Messages \cup Blobs, k \in Third}
        \cup {<<[LastWord EXCEPT !.frames = 3]>>}

=============================================================================
