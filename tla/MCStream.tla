------------------------------ MODULE MCStream ------------------------------
EXTENDS Stream
Put(bytes) == [op |-> "put", bytes |-> bytes]
Op(name) == [op |-> name, bytes |-> <<>>]
\* A collection as the lister sends it, and the end of its batch.
Listed == <<Put(<<1, 10>>), Op("flush"), Op("start"), Put(<<11, 12, 13>>), Put(<<20>>),
            Op("flush"), Put(<<30>>), Op("flush"), Op("stop"), Op("flush"),
            Put(<<40>>), Op("close")>>
\* A collection of the detailer's second batch, whose header is not flushed.
Unflushed == <<Put(<<1, 10>>), Op("start"), Put(<<11, 12, 20>>), Put(<<30>>), Op("stop"),
               Op("flush"), Put(<<31, 40>>), Op("start"), Put(<<50>>), Op("stop"),
               Op("flush"), Put(<<60>>), Op("close")>>
\* Lines longer than the buffers, some of it flushed, some not.
Long == <<Put(<<10>>), Op("start"), Put(<<11, 12, 13, 14, 15, 20>>), Put(<<21>>), Op("flush"),
          Put(<<22, 30>>), Put(<<40>>), Op("stop"), Op("flush"), Put(<<50>>), Op("close")>>
\* A file: the last line has no newline.
File == <<Put(<<1, 2, 3, 4, 10>>), Put(<<11>>), Put(<<20, 21>>), Put(<<22>>), Op("close")>>
TheScripts == {Long, Listed, Unflushed, File}
=============================================================================
