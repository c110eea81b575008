----------------------------- MODULE MCBundled -----------------------------
(* Conversations for BundledExtensions.                                    *)
EXTENDS Naturals, Sequences

LOCAL W == [kind |-> "word", n |-> 0]
LOCAL N(n) == [kind |-> "number", n |-> n]
LOCAL E == [kind |-> "email", n |-> 0]
LOCAL B(n) == [kind |-> "bytes", n |-> n]
LOCAL P(n) == [kind |-> "place", n |-> n]
LOCAL Plain(words) == [form |-> "plain", words |-> words]
LOCAL Url(n, words) == [form |-> "url", words |-> <<B(n)>> \o words]
LOCAL Code(words) == [form |-> "code", words |-> words]
LOCAL Field(n) == [form |-> "field", words |-> <<B(n)>>]

LOCAL Message(role, calls, error, texts) ==
  [role |-> role, calls |-> calls, error |-> error, texts |-> texts]
LOCAL User(texts) == Message("user", << >>, FALSE, texts)
LOCAL Calls(ids) == Message("assistant", ids, FALSE, << >>)
LOCAL Result(error, texts) == Message("tool", << >>, error, texts)

LOCAL Long == Plain(<<N(1), W, E, W>>)
LOCAL Short == Plain(<<W, N(2)>>)
LOCAL Middle == Plain(<<W, E, N(1)>>)

MCConversations ==
  {(* images of all kinds, beside emails and long results                  *)
   <<User(<<Plain(<<W, E>>), Field(1), Field(2)>>),
     Result(FALSE, <<Long, Url(3, <<W, E>>), Field(1)>>)>>,
   (* three calls alike, two results alike, and errors                     *)
   <<Calls(<<1>>), Result(TRUE, <<Short>>), Calls(<<1, 2>>), Result(TRUE, <<Middle>>),
     Calls(<<1>>), Result(FALSE, <<Long>>)>>,
   <<Calls(<<1>>), Result(TRUE, <<Short>>), Result(TRUE, <<Middle>>), Result(TRUE, <<Long>>)>>,
   (* nothing is wrong, or two results are the same once compressed        *)
   <<User(<<Plain(<<E>>)>>), Calls(<<1>>), Result(FALSE, <<Short, Code(<<W, E, W>>)>>)>>,
   <<Result(FALSE, <<Plain(<<W, N(1)>>)>>), Result(FALSE, <<Plain(<<N(1), W>>)>>)>>,
   (* what looks like the placeholder of the second image                  *)
   <<User(<<Plain(<<P(1), E>>), Field(1), Url(2, <<P(0)>>)>>)>>,
   (* too much to be read                                                  *)
   <<User(<<Plain([i \in 1 .. 13 |-> W])>>)>>}

(* Limits on the way to the process's cgroup, what the kernel says is      *)
(* free, and a machine that cannot be measured.                            *)
LOCAL Memory(measured, limits, free) == [measured |-> measured, limits |-> limits, free |-> free]
LOCAL Roomy == Memory(TRUE, {}, 28)
LOCAL Tight == Memory(TRUE, {[max |-> 40, used |-> 10], [max |-> 20, used |-> 8]}, 28)
LOCAL Full == Memory(TRUE, {[max |-> 20, used |-> 21]}, 28)
LOCAL Unknown == Memory(FALSE, {}, 0)

LOCAL Settings(model, max, verify, requires, takeOver, guarded, memory) ==
  [model |-> model, maxEscalations |-> max, verify |-> verify, hostRequires |-> requires,
   takeOver |-> takeOver, guarded |-> guarded, memory |-> memory]

MCChats ==
  {[settings |-> Settings(model, max, verify, requires, takeOver, guarded, Roomy),
    messages |-> messages] :
     model \in BOOLEAN, max \in {0, 1}, verify \in BOOLEAN, requires \in BOOLEAN,
     takeOver \in BOOLEAN, guarded \in BOOLEAN, messages \in MCConversations}
  \cup
  {[settings |-> Settings(TRUE, 1, FALSE, FALSE, FALSE, TRUE, memory), messages |-> messages] :
     memory \in {Tight, Full, Unknown}, messages \in MCConversations}
=============================================================================
