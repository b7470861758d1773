---- MODULE FileStore ----
\* What the file interface promises its callers: a set of named files that each call on a file
\* changes as its name says and leaves alone otherwise. A call that fails may leave its own
\* file in any state, but no other one; the file is then given up, until it is closed. Reading,
\* synchronising and closing never change a file that is not given up.
EXTENDS Integers, Sequences

CONSTANTS Name, Absent, NotOpen

VARIABLES content,    \* the units of each file, Absent when there is none
          pos,        \* the position of each open file
          givenUp,    \* the open files of which a call has failed
          reply       \* the call that was made and what it answered

vars == <<content, pos, givenUp, reply>>

Init == content \in [Name -> {Absent} \union Seq(Int)] /\ pos \in [Name -> {NotOpen, 0}] /\ givenUp = {}

Answered(op, n) == reply'.op = op /\ reply'.name = n /\ reply'.res = "FR_OK"
Keeps(n) == content'[n] = content[n]
OnlyTouches(S) == \A n \in Name \ S : Keeps(n) /\ pos'[n] = pos[n]
PrefixOf(s, t) == Len(s) <= Len(t) /\ s = SubSeq(t, 1, Len(s))

Open(n) == /\ Answered("open", n)
           /\ pos[n] = NotOpen /\ pos'[n] = 0
           /\ \/ content[n] # Absent /\ ~reply'.create /\ Keeps(n)
              \/ reply'.create /\ content'[n] = <<>>

Read(n) == /\ Answered("read", n)
           /\ Keeps(n)
           /\ pos'[n] = pos[n] + Len(reply'.data)
           /\ reply'.data = SubSeq(content[n], pos[n] + 1, pos'[n])
           /\ Len(reply'.data) = reply'.size \/ pos'[n] = Len(content[n])

\* A full disk may cut the data short
Write(n) == /\ Answered("write", n)
            /\ LET k == pos'[n] - pos[n]
                   p == pos[n] IN
               /\ k \in 0..Len(reply'.data)
               /\ content'[n] = [i \in 1..(IF p + k > Len(content[n]) THEN p + k ELSE Len(content[n])) |->
                                    IF i \in (p + 1)..(p + k) THEN reply'.data[i - p] ELSE content[n][i]]

\* A seek behind the end of a file that may be written extends it by undefined units
Seek(n) == /\ Answered("seek", n)
           /\ pos'[n] <= reply'.size
           /\ PrefixOf(content[n], content'[n])
           /\ Len(content'[n]) = IF pos'[n] > Len(content[n]) THEN pos'[n] ELSE Len(content[n])

Truncate(n) == /\ Answered("truncate", n)
               /\ content'[n] = SubSeq(content[n], 1, pos[n]) /\ pos'[n] = pos[n]

Sync(n) == Answered("sync", n) /\ (n \notin givenUp => Keeps(n)) /\ pos'[n] = pos[n]
Close(n) == Answered("close", n) /\ (n \notin givenUp => Keeps(n)) /\ pos'[n] = NotOpen
Unlink(n) == Answered("unlink", n) /\ content'[n] = Absent /\ pos'[n] = pos[n]
Rename(n, k) == /\ Answered("rename", n) /\ reply'.to = k
                /\ content[k] = Absent
                /\ content'[n] = Absent /\ content'[k] = content[n]
                /\ pos' = pos

Failed(n) == /\ reply'.name = n /\ reply'.res # "FR_OK"
             /\ reply'.op \in {"sync", "close"} /\ n \notin givenUp => Keeps(n)
             /\ reply'.op = "read" => Keeps(n)

\* The number of free clusters is asked for
Count == reply'.op = "getfree" /\ UNCHANGED <<content, pos, givenUp>>

\* The power goes: every file is closed
PowerLoss == reply'.op = "power" /\ pos' = [n \in Name |-> NotOpen]

Next == \/ \E n \in Name :
              /\ OnlyTouches({n})
              /\ givenUp' \ {n} = givenUp \ {n} /\ (n \in givenUp' \ givenUp => reply'.res # "FR_OK")
              /\ \/ Open(n) \/ Read(n) \/ Write(n) \/ Seek(n) \/ Truncate(n)
                 \/ Sync(n) \/ Close(n) \/ Unlink(n) \/ Failed(n)
        \/ \E n, k \in Name :
              /\ OnlyTouches({n, k}) /\ UNCHANGED givenUp
              /\ Rename(n, k) \/ (reply'.op = "rename" /\ reply'.to = k /\ Failed(n))
        \/ Count \/ PowerLoss

Spec == Init /\ [][Next]_vars
====
