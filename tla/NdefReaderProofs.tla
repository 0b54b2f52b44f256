-------------------------- MODULE NdefReaderProofs --------------------------
(***************************************************************************)
(* The two halves of T2TReader together, for every tag, message, address   *)
(* space and number of retries: the composition implements NdefAccess, and *)
(* every READ and WRITE of an NDEF operation is made in the sector it is   *)
(* meant for.                                                              *)
(***************************************************************************)
EXTENDS NdefReader, NdefAccessProofs

\* The command layer, with what is proved of it.
RP == INSTANCE T2TReaderProofs WITH
        memory <- pages, sector <- reader_sector,
        pc <- frame, call <- command, ret <- answer

-----------------------------------------------------------------------------
(* The command layer keeps its invariant. *)

\* The assumptions of T2TReader hold for the composition.
LEMMA LinkConstants ==
    /\ MAX_SECTOR \in Nat
    /\ BLOCKS_PER_SECTOR \in Nat \ {0}
    /\ READ_BLOCKS \in Nat \ {0}
    /\ TagSectors \subseteq 0..MAX_SECTOR
    /\ 0 \in TagSectors
    /\ Zero \in Values
    /\ Padding \subseteq Values
    /\ MaxRetries \in Nat \ {0}
    /\ Unknown \notin RP!Sector
    /\ None \notin RP!Block
    /\ None \notin RP!ReadData
  BY AddressAssumption, NdefAssumption, LinkAssumption
  DEF RP!Sector, RP!Block, RP!ReadData, R!ReadData, RP!ReadIndex, R!ReadIndex

\* An exchange is one of T2TReader.
LEMMA ExchangeKeepsReader ==
    ASSUME RP!IInv, R!Exchange
    PROVE  RP!IInv'
<1>1. RP!Exchange
  BY DEF R!Exchange, RP!Exchange, R!ReadAnswered, RP!ReadAnswered, R!ReadTooShort,
     RP!ReadTooShort, R!WriteAcked, RP!WriteAcked, R!WriteNacked, RP!WriteNacked,
     R!WriteGarbled, RP!WriteGarbled, R!CustomAnswered, RP!CustomAnswered,
     R!TransceiveFailed, RP!TransceiveFailed, R!Packet1Acked, RP!Packet1Acked,
     R!Packet1Nacked, RP!Packet1Nacked, R!Packet1Garbled, RP!Packet1Garbled,
     R!Packet1Failed, RP!Packet1Failed, R!Packet2Silent, RP!Packet2Silent,
     R!Packet2Nacked, RP!Packet2Nacked, R!Packet2Failed, RP!Packet2Failed,
     R!ReadResults, RP!ReadResults, R!ReadIndex, RP!ReadIndex, R!Return, RP!Return,
     R!ReadOk, RP!ReadOk, R!TagUnchanged, RP!TagUnchanged, R!tagVars, RP!tagVars,
     R!TagRefuses, RP!TagRefuses, R!TagReset, RP!TagReset, R!Reply, RP!Reply,
     R!readerVars, RP!readerVars, R!TagStores, RP!TagStores, R!WriteReturns,
     RP!WriteReturns, R!invalidate_cache, RP!invalidate_cache, R!NackStatus,
     RP!NackStatus, R!TagMisses, RP!TagMisses, R!MayRetry, RP!MayRetry,
     R!NextAttempt, RP!NextAttempt, R!ForceSectorSelect, RP!ForceSectorSelect,
     R!StateUnknown, RP!StateUnknown, R!TagAwaitsPacket2, RP!TagAwaitsPacket2,
     R!SelectFails, RP!SelectFails, R!TagSelects, RP!TagSelects, R!SelectTarget,
     RP!SelectTarget, R!TagRefusesSector, RP!TagRefusesSector
<1>2. RP!Next
  BY <1>1 DEF RP!Next
<1>3. QED
  BY <1>2, LinkConstants, RP!NextIInv

\* So is a call.
LEMMA CallKeepsReader ==
    ASSUME RP!IInv,
           \/ R!new
           \/ \E n \in 0..MaxRetries : R!set_max_retries(n)
           \/ \E b \in R!Block : R!read(b)
           \/ \E b \in R!Block, v \in Values : R!write(b, v)
           \/ \E s \in 0..(MAX_SECTOR + 1) : R!sector_select(s)
           \/ R!InvalidateCache
           \/ R!mark_tag_state_unknown
    PROVE  RP!IInv'
<1> USE DEF R!ReturnAtOnce, RP!ReturnAtOnce, R!Return, RP!Return, R!Reply, RP!Reply,
            R!NoCall, RP!NoCall, R!tagVars, RP!tagVars, R!readerVars, RP!readerVars,
            R!invalidate_cache, RP!invalidate_cache, R!StateUnknown, RP!StateUnknown,
            R!TransceiveWithRetry, RP!TransceiveWithRetry
<1>1. R!new => RP!new
  BY DEF R!new, RP!new, R!TagReset, RP!TagReset, R!ReadIndex, RP!ReadIndex,
         R!DEFAULT_MAX_RETRIES, RP!DEFAULT_MAX_RETRIES
<1>2. \A n \in 0..MaxRetries : R!set_max_retries(n) => RP!set_max_retries(n)
  BY DEF R!set_max_retries, RP!set_max_retries
<1>3. \A b \in R!Block : b \in RP!Block /\ (R!read(b) => RP!read(b))
  BY DEF R!read, RP!read, R!CacheHit, RP!CacheHit, R!ReadCall, RP!ReadCall, R!ReadOk,
         RP!ReadOk, R!Block, RP!Block
<1>4. \A b \in R!Block, v \in Values : b \in RP!Block /\ (R!write(b, v) => RP!write(b, v))
  BY DEF R!write, RP!write, R!WriteCall, RP!WriteCall, R!Block, RP!Block
<1>5. \A s \in 0..(MAX_SECTOR + 1) : R!sector_select(s) => RP!sector_select(s)
  BY DEF R!sector_select, RP!sector_select, R!SelectCall, RP!SelectCall,
         R!ForceSectorSelect, RP!ForceSectorSelect
<1>6. R!InvalidateCache => RP!InvalidateCache
  BY DEF R!InvalidateCache, RP!InvalidateCache
<1>7. R!mark_tag_state_unknown => RP!mark_tag_state_unknown
  BY DEF R!mark_tag_state_unknown, RP!mark_tag_state_unknown
<1>8. RP!Application
  BY <1>1, <1>2, <1>3, <1>4, <1>5, <1>6, <1>7 DEF RP!Application
<1>9. RP!Next
  BY <1>8 DEF RP!Next
<1>10. QED
  BY <1>9, LinkConstants, RP!NextIInv

\* And so is a step that leaves the command layer alone.
LEMMA NothingKeepsReader ==
    ASSUME RP!IInv, UNCHANGED linkVars
    PROVE  RP!IInv'
<1>1. UNCHANGED RP!vars
  BY DEF linkVars, RP!vars
<1>2. QED
  BY <1>1, LinkConstants, RP!StutterStep

\* What is known of the command layer: the types of its state, and that what it
\* believes of the sector and has in its cache is so.
LEMMA LinkFacts ==
    ASSUME RP!IInv
    PROVE  /\ tag_sector \in TagSectors
           /\ pages \in [TagSectors -> [0..(BLOCKS_PER_SECTOR - 1) ->
                            [0..(BLOCK_SIZE - 1) -> Byte]]]
           /\ reader_sector \in 0..MAX_SECTOR \cup {Unknown}
           /\ cache_block \in 0..(BLOCKS_PER_SECTOR - 1) \cup {None}
           /\ cache_data \in [0..(READ_BLOCKS - 1) -> Values]
           /\ frame = "transceive" =>
                 command.op \in {"read", "write", "custom"} /\ reader_sector = intended
           /\ frame \in {"packet1", "packet2"} => reader_sector = Unknown /\ cache_block = None
           /\ reader_sector # Unknown /\ frame # "ambiguous" =>
                 tag_sector = reader_sector /\ tag_mode = "command"
           /\ cache_block # None /\ frame \notin {"custom", "ambiguous"} =>
                 R!Holds(tag_sector, cache_block, cache_data)
  BY LinkAssumption
  DEF RP!IInv, RP!TypeOK, RP!TagTypeOK, RP!CallInv, RP!SectorAgrees, RP!CacheCoherent,
      RP!InCustom, RP!Block, RP!Sector, RP!ReadData, RP!ReadIndex, RP!Holds, R!Holds,
      R!ReadIndex

\* Before the first call nothing has happened to the tag.
LEMMA InitKeepsReader == LinkInit => RP!IInv
<1> SUFFICES ASSUME LinkInit PROVE RP!IInv
  OBVIOUS
<1>1. memory \in [Address -> Byte]
  BY NdefAssumption DEF LinkInit, Init
<1>2. pages \in [TagSectors -> [0..(BLOCKS_PER_SECTOR - 1) -> Values]]
  <2>1. \A s \in TagSectors : \A b \in 0..(BLOCKS_PER_SECTOR - 1) :
           [i \in 0..(BLOCK_SIZE - 1) |-> memory[sector_block_to_address(s, b, i)]] \in Values
    <3> SUFFICES ASSUME NEW s \in TagSectors, NEW b \in 0..(BLOCKS_PER_SECTOR - 1),
                        NEW i \in 0..(BLOCK_SIZE - 1)
                 PROVE  memory[sector_block_to_address(s, b, i)] \in Byte
      BY LinkAssumption
    <3>1. s \in 0..MAX_SECTOR
      BY LinkAssumption
    <3>2. sector_block_to_address(s, b, i) = s * SECTOR_SIZE + b * BLOCK_SIZE + i
      BY <3>1, AddressAssumption DEF sector_block_to_address
    <3>3. s * SECTOR_SIZE + b * BLOCK_SIZE + i \in Address
      BY <3>1, PlaceAddress
    <3>4. QED
      BY <1>1, <3>2, <3>3
  <2>2. QED
    BY <2>1 DEF LinkInit, R!Block
<1>3. RP!Init
  BY <1>2 DEF LinkInit, RP!Init, RP!TagInit, RP!Block, RP!ReadIndex, R!ReadIndex,
     R!DEFAULT_MAX_RETRIES, RP!DEFAULT_MAX_RETRIES, R!NoCall, RP!NoCall, R!Reply, RP!Reply
<1>4. QED
  BY <1>3, LinkConstants, RP!InitIInv

-----------------------------------------------------------------------------
(* Addresses and blocks. *)

\* Quotient and remainder are unique.
LEMMA DivisionUnique ==
    ASSUME NEW n \in Nat \ {0}, NEW y \in Int, NEW q \in Int, NEW x \in 0..(n - 1),
           y = n * q + x
    PROVE  y % n = x /\ y \div n = q
<1> DEFINE r == y % n
           p == y \div n
<1>1. r \in 0..(n - 1) /\ p \in Int /\ y = n * p + r
  <2>1. y \in Int /\ n \in Nat \ {0}
    OBVIOUS
  <2>2. QED
    BY <2>1
<1> HIDE DEF r, p
<1>2. n * (p - q) = x - r /\ p - q \in Int
  BY <1>1
<1>3. x - r < n /\ x - r > -n
  BY <1>1
<1>4. p - q = 0
  <2> DEFINE z == p - q
  <2>1. z \in Int /\ n * z < n /\ n * z > -n
    BY <1>2, <1>3
  <2> HIDE DEF z
  <2>2. ~(z >= 1)
    BY <2>1
  <2>3. ~(z <= -1)
    BY <2>1
  <2>4. QED
    BY <2>1, <2>2, <2>3 DEF z
<1>5. n * (p - q) = 0
  BY <1>4
<1>6. r = x /\ p = q
  BY <1>1, <1>2, <1>4, <1>5
<1>7. QED
  BY <1>6 DEF r, p

\* A sector, block and offset are those of their address (memory.rs:212-237).
LEMMA PlaceConverts ==
    ASSUME NEW s \in 0..MAX_SECTOR, NEW b \in 0..(BLOCKS_PER_SECTOR - 1),
           NEW i \in 0..(BLOCK_SIZE - 1)
    PROVE  /\ address_to_sector_block(s * SECTOR_SIZE + b * BLOCK_SIZE + i) = <<s, b, i>>
           /\ (s * SECTOR_SIZE + b * BLOCK_SIZE + i) % BLOCK_SIZE = i
<1> DEFINE S == SECTOR_SIZE
           w == b * BLOCK_SIZE + i
           a == s * S + b * BLOCK_SIZE + i
<1>1. S \in Nat \ {0} /\ BLOCK_SIZE \in Nat \ {0} /\ BLOCKS_PER_SECTOR \in Nat \ {0}
      /\ MAX_SECTOR \in Nat
  BY AddressSizes, AddressAssumption
<1>2. S = BLOCK_SIZE * BLOCKS_PER_SECTOR
  BY DEF SECTOR_SIZE
<1>3. address_to_sector_block(a) =
          IF a \div S > MAX_SECTOR THEN None
          ELSE <<a \div S, (a % S) \div BLOCK_SIZE, (a % S) % BLOCK_SIZE>>
  BY DEF address_to_sector_block
<1> HIDE DEF S
<1>4. w \in 0..(S - 1)
  <2>1. (b + 1) * BLOCK_SIZE <= BLOCKS_PER_SECTOR * BLOCK_SIZE
    BY <1>1
  <2>2. (b + 1) * BLOCK_SIZE = b * BLOCK_SIZE + BLOCK_SIZE /\ b * BLOCK_SIZE \in Nat
    BY <1>1
  <2>3. BLOCKS_PER_SECTOR * BLOCK_SIZE = S
    BY <1>1, <1>2
  <2>4. QED
    BY <1>1, <2>1, <2>2, <2>3
<1>5. w % BLOCK_SIZE = i /\ w \div BLOCK_SIZE = b
  <2>1. w = BLOCK_SIZE * b + i /\ w \in Int
    BY <1>1
  <2>2. QED
    BY <1>1, <2>1, DivisionUnique
<1>6. a % S = w /\ a \div S = s
  <2>1. s * S \in Nat /\ s * S = S * s /\ b * BLOCK_SIZE \in Nat
    BY <1>1
  <2>2. a = S * s + w /\ a \in Int /\ s \in Int
    BY <1>1, <2>1
  <2> HIDE DEF a, w
  <2>3. QED
    BY <1>1, <1>4, <2>2, DivisionUnique
<1>7. a % BLOCK_SIZE = i
  <2> DEFINE q == s * BLOCKS_PER_SECTOR + b
  <2>1. s * (BLOCK_SIZE * BLOCKS_PER_SECTOR) + b * BLOCK_SIZE
            = BLOCK_SIZE * (s * BLOCKS_PER_SECTOR + b)
    BY <1>1
  <2>2. s * S \in Nat /\ b * BLOCK_SIZE \in Nat /\ q \in Int
    BY <1>1
  <2>3. s * S + b * BLOCK_SIZE = BLOCK_SIZE * q
    BY <1>2, <2>1
  <2> HIDE DEF q
  <2>4. a = BLOCK_SIZE * q + i /\ a \in Int
    BY <1>1, <2>2, <2>3
  <2> HIDE DEF a
  <2>5. QED
    BY <1>1, <2>2, <2>4, DivisionUnique
<1> HIDE DEF a, w
<1>8. address_to_sector_block(a) = <<s, b, i>>
  BY <1>1, <1>3, <1>5, <1>6
<1>9. QED
  BY <1>7, <1>8 DEF a, S

\* Every address is at its place.
LEMMA AddressPlace ==
    ASSUME NEW a \in Nat, address_to_sector_block(a) # None
    PROVE  LET p == address_to_sector_block(a)
           IN /\ a \in Address
              /\ p[1] \in 0..MAX_SECTOR
              /\ p[2] \in 0..(BLOCKS_PER_SECTOR - 1)
              /\ p[3] \in 0..(BLOCK_SIZE - 1)
              /\ a = p[1] * SECTOR_SIZE + p[2] * BLOCK_SIZE + p[3]
              /\ a % BLOCK_SIZE = p[3]
<1> DEFINE p == address_to_sector_block(a)
<1>1. a \in Address
  BY PlaceOfAddress
<1>2. /\ p \in (0..MAX_SECTOR) \X (0..(BLOCKS_PER_SECTOR - 1)) \X (0..(BLOCK_SIZE - 1))
      /\ sector_block_to_address(p[1], p[2], p[3]) = a
  BY <1>1, AddressConverts
<1> HIDE DEF p
<1>3. p[1] \in 0..MAX_SECTOR /\ p[2] \in 0..(BLOCKS_PER_SECTOR - 1) /\ p[3] \in 0..(BLOCK_SIZE - 1)
  BY <1>2
<1>4. a = p[1] * SECTOR_SIZE + p[2] * BLOCK_SIZE + p[3]
  BY <1>2, <1>3, AddressAssumption DEF sector_block_to_address
<1>5. a % BLOCK_SIZE = p[3]
  BY <1>3, <1>4, PlaceConverts
<1>6. QED
  BY <1>1, <1>3, <1>4, <1>5 DEF p

\* The next byte is in the same block, or at the beginning of a block; while the
\* sector stays the same, that block is not one in front (reader.rs:347-357).
LEMMA NextByte ==
    ASSUME NEW a \in Nat, address_to_sector_block(a) # None
    PROVE  LET p == address_to_sector_block(a)
               q == address_to_sector_block(a + 1)
           IN /\ (a + 1) % BLOCK_SIZE # 0 => q # None /\ q[1] = p[1] /\ q[2] = p[2]
              /\ q # None /\ q[1] = p[1] => p[2] <= q[2]
<1> DEFINE p == address_to_sector_block(a)
           q == address_to_sector_block(a + 1)
           B == BLOCK_SIZE
<1>1. /\ p[1] \in 0..MAX_SECTOR
      /\ p[2] \in 0..(BLOCKS_PER_SECTOR - 1)
      /\ p[3] \in 0..(B - 1)
      /\ a = p[1] * SECTOR_SIZE + p[2] * B + p[3]
  BY AddressPlace
<1>2. q # None =>
         /\ q[2] \in 0..(BLOCKS_PER_SECTOR - 1)
         /\ q[3] \in 0..(B - 1)
         /\ a + 1 = q[1] * SECTOR_SIZE + q[2] * B + q[3]
  BY AddressPlace
<1>3. SECTOR_SIZE \in Nat \ {0} /\ B \in Nat \ {0} /\ BLOCKS_PER_SECTOR \in Nat \ {0}
      /\ MAX_SECTOR \in Nat
  BY AddressSizes, AddressAssumption
<1>4. p[1] * SECTOR_SIZE \in Nat /\ p[2] * B \in Nat
  BY <1>1, <1>3
<1>5. ASSUME (a + 1) % B # 0 PROVE q = <<p[1], p[2], p[3] + 1>>
  <2>1. p[3] # B - 1
    <3>1. SUFFICES ASSUME p[3] = B - 1 PROVE FALSE
      OBVIOUS
    <3> DEFINE t == p[1] * BLOCKS_PER_SECTOR + p[2] + 1
    <3>2. p[1] * (B * BLOCKS_PER_SECTOR) + p[2] * B + B = B * t /\ t \in Int
      BY <1>1, <1>3
    <3>3. p[1] * SECTOR_SIZE + p[2] * B + B = B * t
      BY <3>2 DEF SECTOR_SIZE
    <3> HIDE DEF t
    <3>4. a + 1 = p[1] * SECTOR_SIZE + p[2] * B + B
      BY <1>1, <1>3, <1>4, <3>1
    <3> HIDE DEF B, p, q
    <3>5. a + 1 = B * t + 0 /\ a + 1 \in Int /\ 0 \in 0..(B - 1)
      BY <1>3, <3>2, <3>3, <3>4
    <3>6. (a + 1) % B = 0
      BY <1>3, <3>2, <3>5, DivisionUnique
    <3>7. QED
      BY <1>5, <3>6
  <2> DEFINE o == p[3] + 1
  <2>2. o \in 0..(B - 1)
    BY <1>1, <1>3, <2>1
  <2>3. a + 1 = p[1] * SECTOR_SIZE + p[2] * B + o
    <3> DEFINE x == p[1] * SECTOR_SIZE
               y == p[2] * B
               u == p[3]
    <3>1. x \in Nat /\ y \in Nat /\ u \in Nat /\ a = x + y + u /\ o = u + 1
      BY <1>1, <1>3, <1>4
    <3> HIDE DEF x, y, u, o
    <3>2. a + 1 = x + y + o
      BY <3>1
    <3>3. QED
      BY <3>2 DEF x, y
  <2> HIDE DEF o
  <2>4. address_to_sector_block(p[1] * SECTOR_SIZE + p[2] * B + o) = <<p[1], p[2], o>>
    BY <1>1, <2>2, PlaceConverts
  <2>5. QED
    BY <2>3, <2>4 DEF o
<1>6. ASSUME q # None, q[1] = p[1] PROVE p[2] <= q[2]
  <2> DEFINE x == p[1] * SECTOR_SIZE
             b == p[2]
             c == q[2]
             y == b * B
             z == c * B
  <2>1. /\ b \in Nat /\ c \in Nat /\ x \in Nat /\ B \in Nat \ {0}
        /\ p[3] \in 0..(B - 1) /\ q[3] \in 0..(B - 1)
    BY <1>1, <1>2, <1>3, <1>4, <1>6
  <2>2. x + y + p[3] + 1 = x + z + q[3]
    BY <1>1, <1>2, <1>6
  <2>3. y \in Nat /\ z \in Nat
    BY <2>1
  <2> HIDE DEF x, b, c, B
  <2>4. SUFFICES ASSUME c + 1 <= b PROVE FALSE
    BY <2>1 DEF b, c
  <2>5. c * B + B <= b * B
    <3>1. (c + 1) * B <= b * B /\ (c + 1) * B = c * B + B
      BY <2>1, <2>4
    <3>2. QED
      BY <3>1
  <2> HIDE DEF y, z
  <2>6. z + B <= y
    BY <2>5 DEF y, z
  <2> DEFINE u == p[3]
             v == q[3]
  <2>7. u \in 0..(B - 1) /\ v \in 0..(B - 1) /\ x + y + u + 1 = x + z + v
    BY <2>1, <2>2
  <2> HIDE DEF u, v
  <2>8. QED
    BY <2>1, <2>3, <2>6, <2>7
<1>7. QED
  <2>1. \A x, y, z : <<x, y, z>>[1] = x /\ <<x, y, z>>[2] = y
    OBVIOUS
  <2>2. \A x, y \in Nat, z \in Nat : <<x, y, z>> # None
    <3>1. \A x, y, z \in Nat : <<x, y, z>> \in Nat \X Nat \X Nat
      OBVIOUS
    <3>2. QED
      BY <3>1, AddressAssumption
  <2>3. p[1] \in Nat /\ p[2] \in Nat /\ p[3] + 1 \in Nat
    BY <1>1, <1>3
  <2> DEFINE o == p[3] + 1
  <2>4. (a + 1) % B # 0 => q = <<p[1], p[2], o>> /\ o \in Nat
    BY <1>5, <2>3
  <2> HIDE DEF o, p, q, B
  <2>5. (a + 1) % B # 0 => q # None /\ q[1] = p[1] /\ q[2] = p[2]
    BY <2>1, <2>2, <2>3, <2>4
  <2>6. QED
    BY <1>6, <2>5 DEF p, q, B

\* A hit in a READ that does not begin behind the block is no roll-over.
LEMMA HitAhead ==
    ASSUME NEW n \in Nat \ {0}, NEW b \in 0..(n - 1), NEW k \in 0..(n - 1), NEW r \in Nat,
           (b - k) % n < r, k <= b \/ r <= b
    PROVE  (b - k) % n = b - k /\ (b - k) % n \in 0..(r - 1) /\ k <= b
<1>1. CASE k <= b
  <2> DEFINE x == b - k
  <2>1. x \in 0..(n - 1) /\ x = n * 0 + x /\ x \in Int
    BY <1>1
  <2> HIDE DEF x
  <2>2. x % n = x
    BY <2>1, DivisionUnique
  <2>3. x < r
    BY <2>2 DEF x
  <2>4. QED
    BY <1>1, <2>1, <2>2, <2>3 DEF x
<1>2. CASE b < k /\ r <= b
  <2> DEFINE x == b - k + n
             y == b - k
  <2>1. x \in 0..(n - 1) /\ y = n * (-1) + x /\ y \in Int
    BY <1>2
  <2> HIDE DEF x, y
  <2>2. y % n = x
    BY <2>1, DivisionUnique
  <2>3. x < r
    BY <2>2 DEF y
  <2>4. QED
    BY <1>2, <2>3 DEF x
<1>3. QED
  BY <1>1, <1>2

-----------------------------------------------------------------------------
(* The inductive invariant of the composition. *)

\* The page to be written, over what is on the tag.
Merged == Page(BlockData(memory, Target[1], Target[2]))

\* While the data area is read, the cached READ does not begin behind the next block,
\* or that block lies too far from the start of the sector to be shown by roll-over.
CacheBehind ==
    pc = "area" /\ cache # None =>
        LET p == address_to_sector_block(byte_addr)
        IN p # None /\ p[1] = sector => cache[2] <= p[2] \/ READ_BLOCKS <= p[2]

\* In the middle of a block, that block is at hand, and it came from the cache.
BlockAtHand ==
    pc = "area" /\ byte_addr % BLOCK_SIZE # 0 =>
        LET p == address_to_sector_block(byte_addr)
        IN /\ p # None /\ p[1] = sector
           /\ Cached(cache, p[2])
           /\ block_data = BlockData(memory, p[1], p[2])

\* Between two calls of the command layer the history is what there is; a call is
\* made for an access that is due, and only a WRITE changes the tag.
StepInv ==
    /\ step \in {"none", "select", "read", "write", "app"}
    /\ frame \in {"idle", "transceive", "packet1", "packet2"}
    /\ step = "none" => frame = "idle"
    /\ step = "app" => pc = "idle" /\ calls < MaxCalls
    /\ step \in {"select", "read", "write"} => pc # "idle" /\ Due
    /\ step # "write" => memory = Bytes
    /\ step = "none" => sector = reader_sector /\ cache = CachedRead

\* The application selects or reads.
AppInv == step = "app" /\ frame # "idle" => command.op \in {"read", "select"}

\* The reader forgot where it is, or it is in the sector of the access with the cache
\* it had there, or with none.
Forgot   == reader_sector = Unknown /\ cache_block = None
AsBefore == reader_sector = Target[1] /\ CachedRead \in {None, Selected(Target[1])}

\* A sector is selected for an access.
SelectInv ==
    step = "select" =>
        /\ sector # Target[1]
        /\ frame # "idle" => command = R!SelectCall(Target[1])
        /\ frame = "idle" /\ answer.status = "ok" =>
              reader_sector = Target[1] /\ cache_block = None
        /\ frame = "idle" /\ answer.status # "ok" => Forgot

\* A READ for an access.
ReadInv ==
    step = "read" =>
        /\ pc \in {"value", "length"} => ~WholePage
        /\ command = R!ReadCall(Target[2])
        /\ pc = "area" \/ frame # "idle" \/ answer.status # "ok" => AccessDue
        /\ frame # "idle" => intended = Target[1]
        /\ frame = "transceive" => AsBefore
        /\ frame = "idle" /\ answer.status # "ok" => Forgot \/ AsBefore
        /\ frame = "idle" /\ answer.status = "ok" =>
              /\ reader_sector = Target[1] /\ cache_block = Target[2]
              /\ R!Holds(Target[1], Target[2], answer.data)

\* A WRITE for an access: the page is on the tag, or what was there before.
WriteInv ==
    step = "write" =>
        /\ pc \in {"value", "length"}
        /\ Taken # {}
        /\ command = R!WriteCall(Target[2], Merged)
        /\ Bytes \in {memory, PageWritten}
        /\ frame # "idle" => intended = Target[1]
        /\ frame = "idle" =>
              /\ cache_block = None
              /\ reader_sector \in {Unknown, Target[1]}
              /\ answer.status = "ok" => reader_sector = Target[1] /\ Bytes = PageWritten

CallsInv == StepInv /\ AppInv /\ SelectInv /\ ReadInv /\ WriteInv
AreaInv  == CacheBehind /\ BlockAtHand
LinkInv  == CallsInv /\ AreaInv
AllInv   == NdefInv /\ CacheHere /\ RP!IInv /\ LinkInv

-----------------------------------------------------------------------------
(* What the pages hold. *)

\* A byte of a page the tag has.
LEMMA BytesAt ==
    ASSUME NEW s \in TagSectors, NEW b \in 0..(BLOCKS_PER_SECTOR - 1),
           NEW i \in 0..(BLOCK_SIZE - 1)
    PROVE  Bytes[s * SECTOR_SIZE + b * BLOCK_SIZE + i] = pages[s][b][i]
<1> DEFINE a == s * SECTOR_SIZE + b * BLOCK_SIZE + i
<1>1. s \in 0..MAX_SECTOR
  BY LinkAssumption
<1>2. a \in Address /\ address_to_sector_block(a) = <<s, b, i>>
  BY <1>1, PlaceAddress, PlaceConverts
<1> HIDE DEF a
<1>3. Bytes[a] = pages[s][b][i]
  BY <1>2 DEF Bytes
<1>4. QED
  BY <1>3 DEF a

\* A page is a block of the bytes.
LEMMA BlockIsPage ==
    ASSUME RP!IInv, memory = Bytes, NEW s \in TagSectors, NEW b \in 0..(BLOCKS_PER_SECTOR - 1)
    PROVE  BlockData(memory, s, b) = pages[s][b]
<1>1. pages[s][b] \in [0..(BLOCK_SIZE - 1) -> Byte]
  BY LinkFacts
<1>2. \A i \in 0..(BLOCK_SIZE - 1) :
         memory[s * SECTOR_SIZE + b * BLOCK_SIZE + i] = pages[s][b][i]
  BY BytesAt
<1>3. QED
  BY <1>1, <1>2 DEF BlockData

\* The addresses of the page of addr are those with its sector and block.
LEMMA InThePage ==
    ASSUME NdefInv, Place # None, NEW a \in Address
    PROVE  LET p == address_to_sector_block(a)
           IN /\ a - PageBase \in 0..(BLOCK_SIZE - 1) => p[1] = Place[1] /\ p[2] = Place[2]
              /\ p[1] = Place[1] /\ p[2] = Place[2] => a - PageBase = p[3]
<1> DEFINE p == address_to_sector_block(a)
           base == Place[1] * SECTOR_SIZE + Place[2] * BLOCK_SIZE
<1>1. addr \in Nat
  BY DEF NdefInv, DataInv
<1>2. /\ Place[1] \in 0..MAX_SECTOR
      /\ Place[2] \in 0..(BLOCKS_PER_SECTOR - 1)
      /\ Place[3] \in 0..(BLOCK_SIZE - 1)
      /\ addr = base + Place[3]
  BY <1>1, AddressPlace DEF Place
<1>3. base \in Nat
  BY <1>2, PlaceAddress
<1>4. PageBase = base
  <2> DEFINE o == Place[3]
  <2>1. o \in Nat /\ addr = base + o /\ PageBase = addr - o
    BY <1>2 DEF PageBase
  <2> HIDE DEF o, base
  <2>2. QED
    BY <1>3, <2>1
<1>5. a \in Nat /\ p # None
  BY AddressConverts DEF Address
<1>6. a = p[1] * SECTOR_SIZE + p[2] * BLOCK_SIZE + p[3] /\ p[3] \in 0..(BLOCK_SIZE - 1)
  BY <1>5, AddressPlace
<1>7. ASSUME a - PageBase \in 0..(BLOCK_SIZE - 1) PROVE p[1] = Place[1] /\ p[2] = Place[2]
  <2> DEFINE i == a - base
  <2>1. i \in 0..(BLOCK_SIZE - 1)
    BY <1>4, <1>7
  <2>2. a = base + i
    <3> HIDE DEF base
    <3>1. QED
      BY <1>3, <1>5
  <2> HIDE DEF i
  <2>3. address_to_sector_block(base + i) = <<Place[1], Place[2], i>>
    BY <1>2, <2>1, PlaceConverts
  <2>4. QED
    BY <2>2, <2>3
<1>8. ASSUME p[1] = Place[1], p[2] = Place[2] PROVE a - PageBase = p[3]
  <2>1. a = base + p[3] /\ p[3] \in Nat
    BY <1>6, <1>8
  <2> HIDE DEF base, p
  <2>2. QED
    BY <1>3, <1>4, <2>1
<1>9. QED
  BY <1>7, <1>8

\* A WRITE of the page to be written makes the bytes those of NdefAccess, the first
\* time and every time it is repeated (reader.rs:599-640).
LEMMA PageStored ==
    ASSUME NdefInv, RP!IInv, pc \in {"value", "length"}, Place # None, Target = Place,
           Place[1] = tag_sector, Bytes \in {memory, PageWritten},
           pages' = [pages EXCEPT ![tag_sector][Place[2]] = Merged], tag' = tag
    PROVE  Bytes' = PageWritten
<1>1. /\ tag_sector \in TagSectors
      /\ pages \in [TagSectors -> [0..(BLOCKS_PER_SECTOR - 1) -> [0..(BLOCK_SIZE - 1) -> Byte]]]
  BY LinkFacts
<1>2. Taken \in SUBSET (0..(BLOCK_SIZE - 1))
  BY OpenIs, PageIs DEF Taken
<1>3. SUFFICES ASSUME NEW a \in Address PROVE Bytes'[a] = PageWritten[a]
  BY DEF Bytes, PageWritten
<1> DEFINE p == address_to_sector_block(a)
<1>4. p[1] \in 0..MAX_SECTOR /\ p[2] \in 0..(BLOCKS_PER_SECTOR - 1) /\ p[3] \in 0..(BLOCK_SIZE - 1)
      /\ a = p[1] * SECTOR_SIZE + p[2] * BLOCK_SIZE + p[3]
  <2>1. a \in Nat /\ p # None
    BY AddressConverts DEF Address
  <2>2. QED
    BY <2>1, AddressPlace
<1>5. /\ a - PageBase \in 0..(BLOCK_SIZE - 1) => p[1] = Place[1] /\ p[2] = Place[2]
      /\ p[1] = Place[1] /\ p[2] = Place[2] => a - PageBase = p[3]
  BY InThePage
<1>6. /\ Bytes[a] = IF p[1] \in TagSectors THEN pages[p[1]][p[2]][p[3]] ELSE tag.bytes[a]
      /\ Bytes'[a] = IF p[1] \in TagSectors THEN pages'[p[1]][p[2]][p[3]] ELSE tag.bytes[a]
  BY DEF Bytes
<1>7. PageWritten[a] = IF a - PageBase \in Taken THEN todo[Rank(a - PageBase) + 1] ELSE memory[a]
  BY DEF PageWritten
<1>8. CASE p[1] = Place[1] /\ p[2] = Place[2]
  <2>1. pages'[p[1]][p[2]] = Merged
    BY <1>1, <1>4, <1>8
  <2>2. Merged[p[3]] = IF p[3] \in Taken THEN todo[Rank(p[3]) + 1]
                       ELSE BlockData(memory, Place[1], Place[2])[p[3]]
    BY <1>4 DEF Merged, Page
  <2>3. BlockData(memory, Place[1], Place[2])[p[3]] = memory[a]
    BY <1>4, <1>8 DEF BlockData
  <2>4. a - PageBase = p[3]
    BY <1>5, <1>8
  <2>5. Bytes'[a] = Merged[p[3]]
    BY <1>1, <1>6, <1>8, <2>1
  <2>6. QED
    BY <1>7, <2>2, <2>3, <2>4, <2>5
<1>9. CASE ~(p[1] = Place[1] /\ p[2] = Place[2])
  <2>1. a - PageBase \notin Taken
    BY <1>2, <1>5, <1>9
  <2>2. PageWritten[a] = memory[a] /\ Bytes[a] = memory[a]
    BY <1>7, <2>1
  <2>3. p[1] \in TagSectors => pages'[p[1]][p[2]] = pages[p[1]][p[2]]
    BY <1>1, <1>4, <1>9
  <2>4. QED
    BY <1>6, <2>2, <2>3
<1>10. QED
  BY <1>8, <1>9

-----------------------------------------------------------------------------
(* The accesses. *)

\* The block an access is for exists.
LEMMA TargetIs ==
    ASSUME NdefInv, Due
    PROVE  /\ Target[1] \in 0..MAX_SECTOR /\ Target[1] # Unknown
           /\ Target[2] \in 0..(BLOCKS_PER_SECTOR - 1) /\ Target[2] # None
           /\ pc \in {"cc", "area", "value", "length"}
           /\ pc = "cc" => Target[1] = 0 /\ Target[2] = CC_BLOCK
           /\ pc = "area" => /\ Target = address_to_sector_block(byte_addr) /\ Target # None
                             /\ Target[3] = 0 /\ Len(stream) < layout.data_area_size
                             /\ byte_addr % BLOCK_SIZE = 0
           /\ pc \in {"value", "length"} => Target = Place /\ Place # None /\ addr < limit
<1>1. \A x \in 0..(BLOCKS_PER_SECTOR - 1) : x # None
  BY AddressAssumption
<1>2. CASE pc = "cc"
  <2>1. Target = <<0, CC_BLOCK, 0>>
    BY Zenon, <1>2 DEF Target, NextPlace
  <2>2. 0 \in 0..MAX_SECTOR /\ CC_BLOCK \in 0..(BLOCKS_PER_SECTOR - 1)
    BY AddressAssumption, NdefAssumption DEF CC_BLOCK
  <2>3. Target[1] = 0 /\ Target[2] = CC_BLOCK
    BY <2>1
  <2>4. QED
    BY <1>1, <1>2, <2>2, <2>3, NdefAssumption
<1>3. CASE pc = "area"
  <2>1. Target = address_to_sector_block(byte_addr)
    BY Zenon, <1>3 DEF Target, NextPlace
  <2>2. /\ Target # None /\ byte_addr % BLOCK_SIZE = 0 /\ byte_addr \in Nat
        /\ Len(stream) < layout.data_area_size
    BY <1>3 DEF Due, NdefInv, DataInv
  <2>3. /\ Target[1] \in 0..MAX_SECTOR
        /\ Target[2] \in 0..(BLOCKS_PER_SECTOR - 1)
        /\ Target[3] = 0
    BY <2>1, <2>2, AddressPlace
  <2>4. QED
    BY <1>1, <1>3, <2>1, <2>2, <2>3, NdefAssumption
<1>4. CASE pc \in {"value", "length"}
  <2>1. Target = Place
    BY Zenon, <1>4 DEF Target, NextPlace
  <2>2. Target # None /\ addr < limit
    BY <1>4 DEF Due
  <2>3. Place \in (0..MAX_SECTOR) \X (0..(BLOCKS_PER_SECTOR - 1)) \X (0..(BLOCK_SIZE - 1))
    BY <2>1, <2>2, PageIs
  <2>4. Place[1] \in 0..MAX_SECTOR /\ Place[2] \in 0..(BLOCKS_PER_SECTOR - 1)
    BY <2>3
  <2>5. QED
    BY <1>1, <1>4, <2>1, <2>2, <2>4, NdefAssumption
<1>5. QED
  BY <1>2, <1>3, <1>4 DEF Due

\* A page to be written is one of bytes, whatever it is laid over.
LEMMA PageType ==
    ASSUME NdefInv, Place # None, NEW old \in [0..(BLOCK_SIZE - 1) -> Byte]
    PROVE  Page(old) \in Values
<1>1. todo \in Seq(Byte)
  BY DEF NdefInv, DataInv
<1>2. \A i \in Taken : todo[Rank(i) + 1] \in Byte
  BY <1>1, TakenIs
<1>3. QED
  BY <1>2, LinkAssumption DEF Page

\* The fast path fills the page: nothing of what it is laid over is left
\* (reader.rs:605-612).
LEMMA WholePageFilled ==
    ASSUME NdefInv, Place # None, WholePage
    PROVE  Taken = 0..(BLOCK_SIZE - 1) /\ Taken # {} /\ \A old : Page(Zero) = Page(old)
<1>1. Open = 0..(BLOCK_SIZE - 1) /\ Len(todo) >= BLOCK_SIZE
  BY DEF Open, WholePage
<1>2. BLOCK_SIZE \in Nat \ {0} /\ Len(todo) \in Nat
  BY AddressAssumption DEF NdefInv, DataInv
<1>3. \A i \in 0..(BLOCK_SIZE - 1) : Rank(i) <= i
  <2>1. SUFFICES ASSUME NEW i \in 0..(BLOCK_SIZE - 1) PROVE Rank(i) <= i
    OBVIOUS
  <2>2. {j \in Open : j < i} = 0..(i - 1)
    BY <1>1, <1>2
  <2>3. 0 \in Int /\ i - 1 \in Int
    BY <1>2
  <2>4. Cardinality(0..(i - 1)) = IF 0 > i - 1 THEN 0 ELSE (i - 1) - 0 + 1
    BY <2>3, FS_Interval
  <2>5. Rank(i) = Cardinality(0..(i - 1))
    BY <2>2 DEF Rank
  <2> DEFINE n == Cardinality(0..(i - 1))
  <2>6. n = (IF 0 > i - 1 THEN 0 ELSE (i - 1) - 0 + 1) /\ i \in Nat
    BY <1>2, <2>4
  <2> HIDE DEF n
  <2>7. n <= i
    BY <2>6
  <2>8. QED
    BY <2>5, <2>7 DEF n
<1>4. \A i \in 0..(BLOCK_SIZE - 1) : Rank(i) < Len(todo)
  <2>1. \A i : Rank(i) \in Nat
    BY OpenIs
  <2>2. QED
    BY <1>1, <1>2, <1>3, <2>1
<1>5. Taken = 0..(BLOCK_SIZE - 1)
  BY <1>1, <1>4 DEF Taken
<1>6. \A old : Page(Zero) = Page(old)
  BY <1>5 DEF Page
<1>7. 0 \in 0..(BLOCK_SIZE - 1)
  BY <1>2
<1>8. QED
  BY <1>5, <1>6, <1>7

\* Where no byte of the page is open to one, nothing is written.
LEMMA NothingTaken ==
    ASSUME NdefInv, Taken = {}
    PROVE  PageWritten = memory
  BY DEF PageWritten, NdefInv, DataInv

\* While the command layer works, the NDEF operation stands still.
LEMMA NdefStays ==
    ASSUME UNCHANGED <<ndefVars, accessVars, block_data>>
    PROVE  /\ UNCHANGED vars
           /\ Target' = Target /\ Due' = Due /\ AccessDue' = AccessDue
           /\ (Selected(Target[1]))' = Selected(Target[1])
           /\ WholePage' = WholePage /\ Taken' = Taken
           /\ PageWritten' = PageWritten /\ Merged' = Merged
           /\ AreaInv' = AreaInv
<1>1. UNCHANGED vars /\ block_data' = block_data
  BY DEF ndefVars, accessVars, vars
<1>2. UNCHANGED <<memory, sector, cache, pc, byte_addr, addr, stream, layout, limit, todo>>
  BY DEF ndefVars, accessVars
<1> HIDE DEF ndefVars, accessVars
<1>3. Place' = Place /\ NextPlace' = NextPlace
  <2>1. Place' = Place
    BY <1>2 DEF Place
  <2>2. NextPlace' = NextPlace
    BY Zenon, <1>2, <2>1 DEF NextPlace
  <2>3. QED
    BY <2>1, <2>2
<1>4. Target' = Target /\ PageBase' = PageBase
  BY <1>2, <1>3 DEF Target, PageBase
<1>5. Due' = Due
  BY <1>2, <1>4 DEF Due
<1>6. \A s : (Selected(s))' = Selected(s)
  BY <1>2 DEF Selected
<1>7. (Selected(Target[1]))' = Selected(Target[1])
  BY <1>2, <1>4 DEF Selected
<1>8. AccessDue' = AccessDue
  BY <1>2, <1>3 DEF AccessDue, Selected
<1>9. WholePage' = WholePage
  BY <1>2, <1>3, <1>4 DEF WholePage
<1>10. Open' = Open
  BY <1>2, <1>3, <1>4, <1>9 DEF Open
<1>11. \A i : (Rank(i))' = Rank(i)
  BY <1>10 DEF Rank
<1>12. Taken' = Taken
  BY <1>2, <1>10, <1>11 DEF Taken
<1>13. PageWritten' = PageWritten
  BY <1>2, <1>4, <1>11, <1>12 DEF PageWritten
<1>14. Merged' = Merged
  BY <1>2, <1>4, <1>11, <1>12 DEF Merged, Page, BlockData
<1>15. AreaInv' = AreaInv
  <2>1. CacheBehind' = CacheBehind
    BY <1>2 DEF CacheBehind
  <2>2. BlockAtHand' = BlockAtHand
    BY <1>1, <1>2 DEF BlockAtHand, Cached, Ahead, BlockData
  <2>3. QED
    BY <2>1, <2>2 DEF AreaInv
<1>16. QED
  BY <1>1, <1>4, <1>5, <1>7, <1>8, <1>9, <1>12, <1>13, <1>14, <1>15

\* The bytes are the same as long as the pages are.
LEMMA BytesStay ==
    ASSUME pages' = pages, tag' = tag
    PROVE  Bytes' = Bytes
  BY DEF Bytes

\* So is what NdefAccess sees of the cache.
LEMMA CachedReadStays ==
    ASSUME UNCHANGED <<reader_sector, cache_block>>
    PROVE  CachedRead' = CachedRead
  BY DEF CachedRead

-----------------------------------------------------------------------------
(* One exchange over the link. *)

\* The pages with the block of the running WRITE stored.
Stored == [pages EXCEPT ![tag_sector][command.block] = command.value]

\* The call is over, with an error.
EndsBadly == frame' = "idle" /\ answer'.status # "ok"

\* What an exchange can do, the types of the frames left out.
Answered ==
    /\ frame = "transceive" /\ command.op = "read"
    /\ pages' = pages /\ UNCHANGED reader_sector
    /\ cache_block' = command.block
    /\ frame' = "idle" /\ answer'.status = "ok"
    /\ R!Holds(tag_sector, command.block, answer'.data)
Declined ==
    /\ frame = "transceive" /\ command.op = "read"
    /\ pages' = pages /\ UNCHANGED <<reader_sector, cache_block>>
    /\ EndsBadly
Acknowledged ==
    /\ frame = "transceive" /\ command.op = "write"
    /\ pages' \in {pages, Stored} /\ UNCHANGED reader_sector
    /\ cache_block' = None
    /\ frame' = "idle" /\ (answer'.status = "ok" => pages' = Stored)
Lost ==
    /\ frame = "transceive"
    /\ pages' = pages \/ (command.op = "write" /\ pages' = Stored)
    /\ reader_sector' = Unknown /\ cache_block' = None
    /\ (frame' = "packet1" /\ UNCHANGED intended) \/ EndsBadly
Selecting ==
    /\ frame \in {"packet1", "packet2"}
    /\ pages' = pages /\ UNCHANGED <<reader_sector, cache_block>>
    /\ (frame' = "packet2" /\ UNCHANGED intended) \/ EndsBadly
SelectionMade ==
    /\ frame = "packet2"
    /\ pages' = pages /\ UNCHANGED cache_block
    /\ \/ /\ command.op = "select" /\ reader_sector' = command.sector
          /\ frame' = "idle" /\ answer'.status = "ok"
       \/ /\ command.op # "select" /\ reader_sector' = intended
          /\ frame' = "transceive" /\ UNCHANGED intended

\* An exchange is one of these.
LEMMA ExchangeEffects ==
    ASSUME RP!IInv, R!Exchange, command.op # "custom"
    PROVE  /\ command' = command /\ frame # "idle"
           /\ \/ Answered \/ Declined \/ Acknowledged \/ Lost \/ Selecting \/ SelectionMade
<1> USE DEF R!Return, R!Reply, R!TagUnchanged, R!tagVars, R!readerVars, EndsBadly
<1>1. R!TagRefuses \/ R!TagMisses => pages' = pages
  BY DEF R!TagRefuses, R!TagMisses, R!TagReset
<1>2. \A b, v : R!TagStores(b, v) => pages' = [pages EXCEPT ![tag_sector][b] = v]
  BY DEF R!TagStores
<1>3. CASE R!ReadAnswered
  <2>1. PICK d : /\ cache_block' = command.block /\ cache_data' = d
                 /\ frame' = "idle" /\ answer' = R!ReadOk(d)
    BY <1>3 DEF R!ReadAnswered
  <2>2. /\ frame = "transceive" /\ command.op = "read" /\ command' = command
        /\ pages' = pages /\ tag_sector' = tag_sector /\ reader_sector' = reader_sector
    BY <1>3 DEF R!ReadAnswered
  <2>3. answer'.status = "ok" /\ answer'.data = d
    BY <2>1 DEF R!ReadOk
  <2>4. command.block # None
    <3>1. command \in RP!Calls /\ None \notin RP!Block
      BY LinkConstants DEF RP!IInv, RP!TypeOK
    <3>2. command.block \in RP!Block
      BY <2>2, <3>1 DEF RP!Calls, RP!NoCall
    <3>3. QED
      BY <3>1, <3>2
  <2>5. RP!CacheCoherent'
    BY ExchangeKeepsReader DEF RP!IInv
  <2>6. R!Holds(tag_sector, command.block, d)
    BY <2>1, <2>2, <2>4, <2>5
    DEF RP!CacheCoherent, RP!InCustom, RP!Holds, R!Holds, RP!ReadIndex, R!ReadIndex
  <2>7. Answered
    BY <2>1, <2>2, <2>3, <2>6 DEF Answered
  <2>8. QED
    BY <2>2, <2>7
<1>4. CASE R!ReadTooShort
  <2>1. Declined /\ command' = command
    BY <1>1, <1>4 DEF R!ReadTooShort, Declined
  <2>2. QED
    BY <2>1 DEF Declined
<1>5. CASE R!WriteAcked \/ R!WriteNacked \/ R!WriteGarbled
  <2>1. Acknowledged /\ command' = command
    BY <1>1, <1>2, <1>5 DEF R!WriteAcked, R!WriteNacked, R!WriteGarbled, R!WriteReturns,
       R!NackStatus, R!invalidate_cache, Acknowledged, Stored
  <2>2. QED
    BY <2>1 DEF Acknowledged
<1>6. CASE R!TransceiveFailed
  <2>1. Lost /\ command' = command
    BY <1>1, <1>2, <1>6 DEF R!TransceiveFailed, R!NextAttempt, R!ForceSectorSelect,
       R!StateUnknown, R!invalidate_cache, Lost, Stored
  <2>2. QED
    BY <2>1 DEF Lost
<1>7. CASE R!Packet1Acked
  <2>1. Selecting /\ command' = command
    BY <1>7 DEF R!Packet1Acked, R!TagAwaitsPacket2, Selecting
  <2>2. QED
    BY <2>1 DEF Selecting
<1>8. CASE R!Packet1Nacked \/ R!Packet1Garbled \/ R!Packet1Failed
  <2>1. Selecting /\ command' = command
    BY <1>1, <1>8 DEF R!Packet1Nacked, R!Packet1Garbled, R!Packet1Failed, R!SelectFails,
       R!TagAwaitsPacket2, Selecting
  <2>2. QED
    BY <2>1 DEF Selecting
<1>9. CASE R!Packet2Silent
  <2>1. SelectionMade /\ command' = command
    BY <1>9 DEF R!Packet2Silent, R!TagSelects, R!SelectTarget, SelectionMade
  <2>2. QED
    BY <2>1 DEF SelectionMade
<1>10. CASE R!Packet2Nacked \/ R!Packet2Failed
  <2>1. Selecting /\ command' = command
    BY <1>1, <1>10 DEF R!Packet2Nacked, R!Packet2Failed, R!SelectFails, R!TagRefusesSector,
       R!TagSelects, Selecting
  <2>2. QED
    BY <2>1 DEF Selecting
<1>11. CASE R!CustomAnswered
  BY <1>11 DEF R!CustomAnswered
<1>12. QED
  BY <1>3, <1>4, <1>5, <1>6, <1>7, <1>8, <1>9, <1>10, <1>11 DEF R!Exchange

\* An exchange goes on with the call in progress (reader.rs:175-263).
LEMMA ExchangeStep ==
    ASSUME AllInv, Exchange
    PROVE  UNCHANGED vars /\ LinkInv' /\ RP!IInv'
<1> USE DEF AllInv, LinkInv, CallsInv
<1>1. R!Exchange /\ UNCHANGED <<ndefVars, accessVars, block_data>> /\ step' = step
  BY DEF Exchange
<1>2. RP!IInv'
  BY <1>1, ExchangeKeepsReader
<1>3. /\ UNCHANGED vars
      /\ Target' = Target /\ Due' = Due /\ AccessDue' = AccessDue
      /\ (Selected(Target[1]))' = Selected(Target[1])
      /\ WholePage' = WholePage /\ Taken' = Taken
      /\ PageWritten' = PageWritten /\ Merged' = Merged
      /\ AreaInv' = AreaInv
  BY <1>1, NdefStays
<1>4. UNCHANGED <<memory, sector, cache, pc, calls, tag>>
  BY <1>3 DEF vars
<1>5. frame # "idle"
  BY <1>1 DEF R!Exchange, R!ReadAnswered, R!ReadTooShort, R!WriteAcked, R!WriteNacked,
     R!WriteGarbled, R!CustomAnswered, R!TransceiveFailed, R!Packet1Acked, R!Packet1Nacked,
     R!Packet1Garbled, R!Packet1Failed, R!Packet2Silent, R!Packet2Nacked, R!Packet2Failed
<1>6. /\ step \in {"select", "read", "write", "app"}
      /\ step = "app" => command.op \in {"read", "select"}
      /\ step = "select" => command = R!SelectCall(Target[1])
      /\ step = "read" => command = R!ReadCall(Target[2])
      /\ step = "write" => command = R!WriteCall(Target[2], Merged)
      /\ step \in {"read", "write"} => intended = Target[1]
  BY <1>5 DEF StepInv, AppInv, SelectInv, ReadInv, WriteInv
<1>7. /\ step = "app" => command.op \in {"read", "select"}
      /\ step = "select" => command.op = "select" /\ command.sector = Target[1]
      /\ step = "read" => command.op = "read" /\ command.block = Target[2]
      /\ step = "write" => /\ command.op = "write" /\ command.block = Target[2]
                           /\ command.value = Merged
  BY <1>6 DEF R!SelectCall, R!ReadCall, R!WriteCall
<1>8. /\ command' = command
      /\ \/ Answered \/ Declined \/ Acknowledged \/ Lost \/ Selecting \/ SelectionMade
  BY <1>1, <1>6, <1>7, ExchangeEffects
<1>9. /\ frame = "transceive" => command.op \in {"read", "write"} /\ reader_sector = intended
      /\ frame \in {"packet1", "packet2"} => reader_sector = Unknown /\ cache_block = None
      /\ reader_sector # Unknown => tag_sector = reader_sector
      /\ frame \in {"transceive", "packet1", "packet2"}
  BY <1>5, <1>6, <1>7, LinkFacts DEF StepInv
<1>10. step \in {"select", "read", "write"} => Target[1] # Unknown /\ Target[2] # None
  BY TargetIs DEF StepInv
<1>11. step # "write" => pages' = pages /\ Bytes' = Bytes
  <2>1. step # "write" => pages' = pages
    BY <1>6, <1>7, <1>8 DEF Answered, Declined, Acknowledged, Lost, Selecting, SelectionMade
  <2>2. QED
    BY <1>4, <2>1, BytesStay
<1>12. ASSUME step = "write"
       PROVE  /\ Bytes' \in {memory, PageWritten}
              /\ frame = "transceive" /\ pages' = Stored => Bytes' = PageWritten
  <2>1. step = "write"
    BY <1>12
  <2>2. pc \in {"value", "length"} /\ Due /\ Bytes \in {memory, PageWritten}
    BY <2>1 DEF StepInv, WriteInv
  <2>3. Target = Place /\ Place # None
    BY <2>2, TargetIs
  <2>4. pages' = pages => Bytes' = Bytes
    BY <1>4, BytesStay
  <2>5. pages' = Stored /\ frame = "transceive" => Bytes' = PageWritten
    <3>1. SUFFICES ASSUME pages' = Stored, frame = "transceive" PROVE Bytes' = PageWritten
      OBVIOUS
    <3>2. Place[1] = tag_sector
      BY <1>6, <1>9, <1>10, <2>1, <2>3, <3>1
    <3>3. pages' = [pages EXCEPT ![tag_sector][Place[2]] = Merged]
      BY <1>7, <2>1, <2>3, <3>1 DEF Stored
    <3>4. QED
      BY <1>4, <2>2, <2>3, <3>2, <3>3, PageStored
  <2>6. pages' = pages \/ (pages' = Stored /\ frame = "transceive")
    BY <1>8 DEF Answered, Declined, Acknowledged, Lost, Selecting, SelectionMade
  <2>7. Bytes' \in {memory, PageWritten}
    BY <2>2, <2>4, <2>5, <2>6
  <2>8. QED
    BY <2>5, <2>7
<1>13. StepInv'
  <2>1. frame' \in {"idle", "transceive", "packet1", "packet2"}
    BY <1>8 DEF Answered, Declined, Acknowledged, Lost, Selecting, SelectionMade, EndsBadly
  <2>2. step # "write" => memory' = Bytes'
    BY <1>4, <1>11 DEF StepInv
  <2>3. QED
    BY <1>1, <1>3, <1>4, <1>6, <2>1, <2>2 DEF StepInv
<1>14. AppInv'
  BY <1>1, <1>6, <1>8 DEF AppInv
<1>15. SelectInv'
  <2>1. SUFFICES ASSUME step = "select" PROVE SelectInv'
    BY <1>1 DEF SelectInv
  <2>2. Selecting \/ SelectionMade
    BY <1>7, <1>8, <1>9, <2>1 DEF Answered, Declined, Acknowledged, Lost
  <2>3. sector' # Target'[1] /\ (frame' # "idle" => command' = R!SelectCall(Target'[1]))
    BY <1>3, <1>4, <1>6, <1>8, <2>1 DEF SelectInv
  <2>4. frame' = "idle" =>
           IF answer'.status = "ok" THEN reader_sector' = Target[1] /\ cache_block' = None
                                    ELSE Forgot'
    BY <1>7, <1>9, <2>1, <2>2 DEF Selecting, SelectionMade, EndsBadly, Forgot
  <2>5. QED
    BY <1>3, <2>3, <2>4 DEF SelectInv
<1>16. ReadInv'
  <2>1. SUFFICES ASSUME step = "read" PROVE ReadInv'
    BY <1>1 DEF ReadInv
  <2>2. Answered \/ Declined \/ Lost \/ Selecting \/ SelectionMade
    BY <1>7, <1>8, <2>1 DEF Acknowledged
  <2>3. /\ pc' \in {"value", "length"} => ~WholePage'
        /\ command' = R!ReadCall(Target'[2])
        /\ AccessDue'
    BY <1>3, <1>4, <1>5, <1>6, <1>8, <2>1 DEF ReadInv
  <2>4. frame = "transceive" => AsBefore /\ tag_sector = Target[1]
    BY <1>6, <1>9, <1>10, <2>1 DEF ReadInv
  <2>5. frame' # "idle" => intended' = Target[1]
    BY <1>6, <2>1, <2>2 DEF Answered, Declined, Lost, Selecting, SelectionMade, EndsBadly
  <2>6. frame' = "transceive" => reader_sector' = Target[1] /\ cache_block' = None
    BY <1>6, <1>9, <2>1, <2>2
    DEF Answered, Declined, Lost, Selecting, SelectionMade, EndsBadly
  <2>7. frame' = "transceive" => AsBefore'
    BY <1>3, <2>6 DEF AsBefore, CachedRead
  <2>8. frame' = "idle" /\ answer'.status # "ok" => Forgot' \/ AsBefore'
    <3>1. CASE Declined
      <4>1. reader_sector' = reader_sector /\ CachedRead' = CachedRead
        BY <3>1, CachedReadStays DEF Declined
      <4>2. QED
        BY <1>3, <2>4, <3>1, <4>1 DEF AsBefore, Declined
    <3>2. CASE ~Declined
      BY <1>7, <1>9, <2>1, <2>2, <3>2 DEF Answered, Lost, Selecting, SelectionMade, Forgot
    <3>3. QED
      BY <3>1, <3>2
  <2>9. frame' = "idle" /\ answer'.status = "ok" =>
           /\ reader_sector' = Target[1] /\ cache_block' = Target[2]
           /\ R!Holds(Target[1], Target[2], answer'.data)
           /\ pages' = pages
    BY <1>7, <2>1, <2>2, <2>4 DEF Answered, Declined, Lost, Selecting, SelectionMade,
       EndsBadly, AsBefore
  <2>10. frame' = "idle" /\ answer'.status = "ok" =>
            (R!Holds(Target[1], Target[2], answer.data))'
    BY <1>3, <2>9 DEF R!Holds
  <2>11. QED
    BY <1>3, <2>3, <2>5, <2>7, <2>8, <2>9, <2>10 DEF ReadInv
<1>17. WriteInv'
  <2>1. SUFFICES ASSUME step = "write" PROVE WriteInv'
    BY <1>1 DEF WriteInv
  <2>2. Acknowledged \/ Lost \/ Selecting \/ SelectionMade
    BY <1>7, <1>8, <2>1 DEF Answered, Declined
  <2>3. /\ pc' \in {"value", "length"} /\ Taken' # {}
        /\ command' = R!WriteCall(Target'[2], Merged')
    BY <1>3, <1>4, <1>6, <1>8, <2>1 DEF WriteInv
  <2>4. Bytes' \in {memory', PageWritten'}
    BY <1>3, <1>4, <1>12, <2>1
  <2>5. frame' # "idle" => intended' = Target[1]
    BY <1>6, <2>1, <2>2 DEF Acknowledged, Lost, Selecting, SelectionMade, EndsBadly
  <2>6. frame' = "idle" =>
           /\ cache_block' = None
           /\ reader_sector' \in {Unknown, Target[1]}
           /\ answer'.status = "ok" => /\ reader_sector' = Target[1] /\ pages' = Stored
                                       /\ frame = "transceive"
    BY <1>6, <1>7, <1>9, <2>1, <2>2
    DEF Acknowledged, Lost, Selecting, SelectionMade, EndsBadly
  <2>7. QED
    BY <1>3, <1>12, <2>1, <2>3, <2>4, <2>5, <2>6 DEF WriteInv
<1>18. QED
  BY <1>2, <1>3, <1>13, <1>14, <1>15, <1>16, <1>17

-----------------------------------------------------------------------------
(* Calls of the command layer. *)

\* Ready for an access in its sector: what the reader has in its cache is what the
\* NDEF operation left there, unless a selection has dropped it.
LEMMA ReadyThere ==
    ASSUME AllInv, Ready, Due, ~Elsewhere
    PROVE  /\ frame = "idle" /\ pc # "idle" /\ step \in {"none", "select"} /\ memory = Bytes
           /\ reader_sector = Target[1] /\ tag_sector = Target[1] /\ Target[1] \in TagSectors
           /\ CachedRead = Selected(Target[1])
           /\ cache_block = None => CachedRead = None
           /\ cache_block # None =>
                 /\ step = "none" /\ CachedRead = <<Target[1], cache_block>> /\ CachedRead # None
                 /\ cache_block \in 0..(BLOCKS_PER_SECTOR - 1)
                 /\ R!Holds(Target[1], cache_block, cache_data)
<1> USE DEF AllInv, LinkInv, CallsInv
<1>1. frame = "idle" /\ pc # "idle" /\ step \in {"none", "select"}
  BY DEF Ready, Done, Running
<1>2. memory = Bytes
  BY <1>1 DEF StepInv
<1>3. reader_sector = Target[1] /\ Target[1] # Unknown /\ Target[1] \in 0..MAX_SECTOR
  BY TargetIs DEF Elsewhere
<1>4. /\ tag_sector = Target[1] /\ Target[1] \in TagSectors
      /\ cache_block \in 0..(BLOCKS_PER_SECTOR - 1) \cup {None}
      /\ cache_block # None => R!Holds(Target[1], cache_block, cache_data)
  BY <1>1, <1>3, LinkFacts
<1>5. step = "none" => CachedRead = Selected(Target[1])
  BY <1>3 DEF StepInv, Selected
<1>6. step = "select" => cache_block = None /\ sector # Target[1]
  BY <1>1 DEF SelectInv, Ready, Done
<1>7. CachedRead = IF cache_block = None THEN None ELSE <<Target[1], cache_block>>
  BY <1>3 DEF CachedRead
<1>8. CachedRead = Selected(Target[1])
  BY <1>1, <1>5, <1>6, <1>7 DEF Selected
<1>9. cache_block # None => <<Target[1], cache_block>> # None
  <2>1. cache_block # None => <<Target[1], cache_block>> \in Nat \X Nat
    BY <1>3, <1>4, AddressAssumption
  <2>2. QED
    BY <2>1, NdefAssumption
<1>10. QED
  BY <1>1, <1>2, <1>3, <1>4, <1>6, <1>7, <1>8, <1>9

\* The sector of an access is selected first (reader.rs:309-311, 601-603).
LEMMA SelectStep ==
    ASSUME AllInv, Select
    PROVE  UNCHANGED vars /\ LinkInv' /\ RP!IInv'
<1> USE DEF AllInv, LinkInv, CallsInv
<1>1. /\ Ready /\ Due /\ reader_sector # Target[1] /\ R!sector_select(Target[1])
      /\ step' = "select" /\ UNCHANGED <<ndefVars, accessVars, block_data>>
  BY DEF Select, Elsewhere, Calls
<1>2. frame = "idle" /\ step = "none" /\ pc # "idle"
  BY <1>1 DEF Ready, Done, Running, SelectInv
<1>3. Target[1] \in 0..MAX_SECTOR
  BY <1>1, TargetIs
<1>4. /\ frame' = "packet1" /\ command' = R!SelectCall(Target[1]) /\ pages' = pages
      /\ reader_sector' = Unknown /\ cache_block' = None
  BY <1>1, <1>3, AddressAssumption
  DEF R!sector_select, R!ForceSectorSelect, R!StateUnknown, R!invalidate_cache, R!tagVars
<1>5. RP!IInv'
  <2>1. Target[1] \in 0..(MAX_SECTOR + 1)
    BY <1>3, AddressAssumption
  <2>2. QED
    BY <1>1, <2>1, CallKeepsReader
<1>6. UNCHANGED vars /\ Target' = Target /\ Due' = Due /\ AreaInv' = AreaInv
  BY <1>1, NdefStays
<1>7. UNCHANGED <<memory, sector, pc, tag>>
  BY <1>6 DEF vars
<1>8. memory' = Bytes'
  BY <1>2, <1>4, <1>7, BytesStay DEF StepInv
<1>9. StepInv'
  BY <1>1, <1>2, <1>4, <1>6, <1>7, <1>8 DEF StepInv
<1>10. sector' # Target'[1]
  BY <1>1, <1>2, <1>6, <1>7 DEF StepInv
<1>11. SelectInv' /\ AppInv' /\ ReadInv' /\ WriteInv'
  BY <1>1, <1>4, <1>6, <1>10 DEF SelectInv, AppInv, ReadInv, WriteInv
<1>12. QED
  BY <1>5, <1>6, <1>9, <1>11

\* A READ is called for, and answered from the cache or sent (reader.rs:175-183).
LEMMA FetchStep ==
    ASSUME AllInv, Fetch
    PROVE  UNCHANGED vars /\ LinkInv' /\ RP!IInv'
<1> USE DEF AllInv, LinkInv, CallsInv
<1>1. /\ Ready /\ Due /\ ~Elsewhere /\ R!read(Target[2])
      /\ \/ pc = "cc"
         \/ pc = "area" /\ ~Hit
         \/ pc \in {"value", "length"} /\ ~WholePage
      /\ step' = "read" /\ UNCHANGED <<ndefVars, accessVars, block_data>>
  BY DEF Fetch, Calls
<1>2. /\ frame = "idle" /\ pc # "idle" /\ step \in {"none", "select"} /\ memory = Bytes
      /\ reader_sector = Target[1]
      /\ CachedRead = Selected(Target[1])
      /\ cache_block = None => CachedRead = None
      /\ cache_block # None => /\ CachedRead = <<Target[1], cache_block>> /\ CachedRead # None
                               /\ cache_block \in 0..(BLOCKS_PER_SECTOR - 1)
                               /\ R!Holds(Target[1], cache_block, cache_data)
  BY <1>1, ReadyThere
<1>3. /\ Target[2] \in 0..(BLOCKS_PER_SECTOR - 1) /\ Target[2] # None
      /\ pc = "cc" => Target[1] = 0 /\ Target[2] = CC_BLOCK
  BY <1>1, TargetIs
<1>4. /\ command' = R!ReadCall(Target[2]) /\ pages' = pages
      /\ UNCHANGED <<reader_sector, cache_block>>
      /\ \/ /\ cache_block = Target[2] /\ frame' = "idle"
            /\ answer'.status = "ok" /\ answer'.data = cache_data
         \/ cache_block # Target[2] /\ frame' = "transceive" /\ intended' = reader_sector
  BY <1>1 DEF R!read, R!CacheHit, R!ReturnAtOnce, R!Return, R!ReadOk, R!TransceiveWithRetry,
     R!tagVars, R!readerVars
<1>5. RP!IInv'
  BY <1>1, <1>3, CallKeepsReader DEF R!Block
<1>6. /\ UNCHANGED vars /\ Target' = Target /\ Due' = Due /\ AreaInv' = AreaInv
      /\ AccessDue' = AccessDue /\ WholePage' = WholePage
      /\ (Selected(Target[1]))' = Selected(Target[1])
  BY <1>1, NdefStays
<1>7. UNCHANGED <<memory, sector, pc, tag>>
  BY <1>6 DEF vars
<1>8. memory' = Bytes'
  BY <1>2, <1>4, <1>7, BytesStay
<1>9. StepInv'
  BY <1>1, <1>2, <1>4, <1>6, <1>7, <1>8 DEF StepInv
<1>10. pc = "area" => cache_block # Target[2]
  <2>1. SUFFICES ASSUME pc = "area", cache_block = Target[2] PROVE FALSE
    OBVIOUS
  <2>2. BLOCKS_PER_SECTOR \in Nat \ {0} /\ READ_BLOCKS \in Nat \ {0}
    BY AddressAssumption, NdefAssumption
  <2> DEFINE t == Target[2]
  <2>3. t - t = 0 /\ 0 = BLOCKS_PER_SECTOR * 0 + 0 /\ 0 \in 0..(BLOCKS_PER_SECTOR - 1)
    BY <1>3, <2>2
  <2>4. (t - t) % BLOCKS_PER_SECTOR = 0
    BY <2>2, <2>3, DivisionUnique
  <2>5. Hit
    BY <1>3, <2>1, <2>2, <2>4 DEF Hit, Index
  <2>6. QED
    BY <1>1, <2>1, <2>5
<1>11. cache_block # Target[2] => AccessDue
  <2>1. SUFFICES ASSUME cache_block # Target[2] PROVE AccessDue
    OBVIOUS
  <2>2. CASE pc = "cc"
    <3>1. Selected(0) = CachedRead
      BY <1>2, <1>3, <2>2
    <3>2. <<0, CC_BLOCK>> # None
      <4>1. <<0, CC_BLOCK>> \in Nat \X Nat
        BY <1>3, <2>2, AddressAssumption
      <4>2. QED
        BY <4>1, NdefAssumption
    <3>3. CachedRead # <<0, CC_BLOCK>>
      BY <1>2, <1>3, <2>1, <2>2, <3>2
    <3>4. QED
      BY <2>2, <3>1, <3>3 DEF AccessDue
  <2>3. CASE pc = "area"
    <3>1. ~Cached(Selected(Target[1]), Target[2])
      BY <1>1, <1>2, <2>3 DEF Cached, Ahead, Hit, Index
    <3>2. QED
      BY <1>1, <2>3, <3>1, TargetIs DEF AccessDue, Target
  <2>4. CASE pc \in {"value", "length"}
    BY <1>1, <2>4, TargetIs DEF AccessDue
  <2>5. QED
    BY <1>1, <2>2, <2>3, <2>4
<1>12. AsBefore'
  BY <1>2, <1>4, <1>6, CachedReadStays DEF AsBefore
<1>13. cache_block = Target[2] => (R!Holds(Target[1], Target[2], cache_data))
  BY <1>2, <1>3
<1>14. frame' = "idle" => (R!Holds(Target[1], Target[2], answer.data))'
  BY <1>4, <1>6, <1>13 DEF R!Holds
<1>15. ReadInv'
  BY <1>1, <1>2, <1>4, <1>6, <1>7, <1>10, <1>11, <1>12, <1>14 DEF ReadInv
<1>16. SelectInv' /\ AppInv' /\ WriteInv'
  BY <1>1 DEF SelectInv, AppInv, WriteInv
<1>17. QED
  BY <1>5, <1>6, <1>9, <1>15, <1>16

\* A WRITE of the page is called for.
LEMMA StoreStep ==
    ASSUME AllInv, frame = "idle", pc \in {"value", "length"}, Due, Taken # {},
           memory = Bytes, reader_sector = Target[1], R!write(Target[2], Merged),
           Merged \in Values, Calls("write")
    PROVE  UNCHANGED vars /\ LinkInv' /\ RP!IInv'
<1> USE DEF AllInv, LinkInv, CallsInv
<1>1. step' = "write" /\ UNCHANGED <<ndefVars, accessVars, block_data>>
  BY DEF Calls
<1>2. Target[2] \in 0..(BLOCKS_PER_SECTOR - 1)
  BY TargetIs
<1>3. /\ command' = R!WriteCall(Target[2], Merged) /\ pages' = pages
      /\ frame' = "transceive" /\ intended' = reader_sector
  BY DEF R!write, R!TransceiveWithRetry, R!tagVars
<1>4. RP!IInv'
  BY <1>2, CallKeepsReader DEF R!Block
<1>5. /\ UNCHANGED vars /\ Target' = Target /\ Due' = Due /\ AreaInv' = AreaInv
      /\ Taken' = Taken /\ Merged' = Merged
  BY <1>1, NdefStays
<1>6. UNCHANGED <<memory, sector, pc, tag>>
  BY <1>5 DEF vars
<1>7. memory' = Bytes'
  BY <1>3, <1>6, BytesStay
<1>8. StepInv'
  BY <1>1, <1>3, <1>5, <1>6 DEF StepInv
<1>9. WriteInv'
  BY <1>1, <1>3, <1>5, <1>6, <1>7 DEF WriteInv
<1>10. SelectInv' /\ AppInv' /\ ReadInv'
  BY <1>1 DEF SelectInv, AppInv, ReadInv
<1>11. QED
  BY <1>4, <1>5, <1>8, <1>9, <1>10

\* The fast path writes the page without having read it (reader.rs:605-618).
LEMMA StoreWholeStep ==
    ASSUME AllInv, StoreWhole
    PROVE  UNCHANGED vars /\ LinkInv' /\ RP!IInv'
<1>1. /\ Ready /\ Due /\ ~Elsewhere /\ pc \in {"value", "length"} /\ WholePage
      /\ R!write(Target[2], Page(Zero)) /\ Calls("write")
  BY DEF StoreWhole
<1>2. NdefInv
  BY DEF AllInv
<1>3. Place # None
  BY <1>1, <1>2, TargetIs
<1>4. Taken # {} /\ Page(Zero) = Merged
  BY <1>1, <1>2, <1>3, WholePageFilled DEF Merged
<1>5. Merged \in Values
  BY <1>2, <1>3, <1>4, PageType, LinkAssumption
<1>6. frame = "idle" /\ memory = Bytes /\ reader_sector = Target[1]
  BY <1>1, ReadyThere
<1>7. QED
  BY <1>1, <1>4, <1>5, <1>6, StoreStep

\* The READ for an access has returned what the tag holds there.
LEMMA ReadDone ==
    ASSUME AllInv, Done("read")
    PROVE  /\ frame = "idle" /\ pc # "idle" /\ Due /\ memory = Bytes
           /\ reader_sector = Target[1] /\ cache_block = Target[2]
           /\ CachedRead = <<Target[1], Target[2]>> /\ CachedRead # None
           /\ answer.data[0] = BlockData(memory, Target[1], Target[2])
           /\ answer.data[0] \in [0..(BLOCK_SIZE - 1) -> Byte]
<1> USE DEF AllInv, LinkInv, CallsInv
<1>1. frame = "idle" /\ pc # "idle" /\ step = "read" /\ answer.status = "ok"
  BY DEF Done, Running
<1>2. /\ Due /\ memory = Bytes /\ reader_sector = Target[1] /\ cache_block = Target[2]
      /\ R!Holds(Target[1], Target[2], answer.data)
  BY <1>1 DEF StepInv, ReadInv
<1>3. /\ Target[1] \in 0..MAX_SECTOR /\ Target[1] # Unknown
      /\ Target[2] \in 0..(BLOCKS_PER_SECTOR - 1) /\ Target[2] # None
  BY <1>2, TargetIs
<1>4. CachedRead = <<Target[1], Target[2]>> /\ CachedRead # None
  <2>1. <<Target[1], Target[2]>> \in Nat \X Nat
    BY <1>3, AddressAssumption
  <2>2. QED
    BY <1>2, <1>3, <2>1, NdefAssumption DEF CachedRead
<1>5. /\ Target[1] \in TagSectors
      /\ pages \in [TagSectors -> [0..(BLOCKS_PER_SECTOR - 1) -> [0..(BLOCK_SIZE - 1) -> Byte]]]
  BY <1>1, <1>2, <1>3, LinkFacts
<1>6. answer.data[0] = pages[Target[1]][Target[2]]
  <2>1. 0 \in R!ReadIndex
    BY NdefAssumption DEF R!ReadIndex
  <2> DEFINE b == Target[2]
  <2>2. b + 0 = b /\ b + 0 < BLOCKS_PER_SECTOR
    BY <1>3, AddressAssumption
  <2>3. answer.data[0] = pages[Target[1]][b + 0]
    BY <1>2, <2>1, <2>2 DEF R!Holds
  <2>4. QED
    BY <2>2, <2>3
<1>7. BlockData(memory, Target[1], Target[2]) = pages[Target[1]][Target[2]]
  BY <1>2, <1>3, <1>5, BlockIsPage
<1>8. pages[Target[1]][Target[2]] \in [0..(BLOCK_SIZE - 1) -> Byte]
  BY <1>3, <1>5
<1>9. QED
  BY <1>1, <1>2, <1>4, <1>6, <1>7, <1>8

\* The slow path lays the bytes over what it has read (reader.rs:619-640).
LEMMA StoreMergedStep ==
    ASSUME AllInv, StoreMerged
    PROVE  UNCHANGED vars /\ LinkInv' /\ RP!IInv'
<1>1. /\ Done("read") /\ pc \in {"value", "length"} /\ Taken # {}
      /\ R!write(Target[2], Page(answer.data[0])) /\ Calls("write")
  BY DEF StoreMerged
<1>2. /\ frame = "idle" /\ Due /\ memory = Bytes /\ reader_sector = Target[1]
      /\ answer.data[0] = BlockData(memory, Target[1], Target[2])
      /\ answer.data[0] \in [0..(BLOCK_SIZE - 1) -> Byte]
  BY <1>1, ReadDone
<1>3. NdefInv
  BY DEF AllInv
<1>4. Place # None
  BY <1>1, <1>2, <1>3, TargetIs
<1>5. Page(answer.data[0]) = Merged /\ Page(answer.data[0]) \in Values
  BY <1>2, <1>3, <1>4, PageType DEF Merged
<1>6. QED
  BY <1>1, <1>2, <1>5, StoreStep

\* The application calls the command layer itself.
LEMMA AppCallsStep ==
    ASSUME AllInv, AppCalls
    PROVE  UNCHANGED vars /\ LinkInv' /\ RP!IInv'
<1> USE DEF AllInv, LinkInv, CallsInv
<1>1. /\ pc = "idle" /\ step = "none" /\ calls < MaxCalls
      /\ step' = "app" /\ UNCHANGED <<ndefVars, accessVars, block_data>>
  BY DEF AppCalls, Calls
<1>2. /\ pages' = pages /\ frame' \in {"idle", "transceive", "packet1"}
      /\ frame' # "idle" => command'.op \in {"read", "select"}
  <2> USE DEF R!ReturnAtOnce, R!Return, R!tagVars, R!TransceiveWithRetry, R!ReadCall,
              R!SelectCall, R!ForceSectorSelect
  <2>1. ASSUME NEW n \in 0..MaxRetries, R!set_max_retries(n) PROVE <1>2!:
    BY <2>1 DEF R!set_max_retries
  <2>2. ASSUME NEW s \in 0..(MAX_SECTOR + 1), R!sector_select(s) PROVE <1>2!:
    BY <2>2 DEF R!sector_select
  <2>3. ASSUME NEW b \in AppBlocks, R!read(b) PROVE <1>2!:
    BY <2>3 DEF R!read
  <2>4. ASSUME R!InvalidateCache \/ R!mark_tag_state_unknown PROVE <1>2!:
    BY <2>4 DEF R!InvalidateCache, R!mark_tag_state_unknown
  <2>5. QED
    BY <2>1, <2>2, <2>3, <2>4 DEF AppCalls
<1>3. RP!IInv'
  <2>1. AppBlocks \subseteq R!Block
    BY LinkAssumption
  <2>2. QED
    BY <2>1, CallKeepsReader DEF AppCalls
<1>4. UNCHANGED vars /\ AreaInv' = AreaInv
  BY <1>1, NdefStays
<1>5. UNCHANGED <<memory, sector, pc, tag, calls>>
  BY <1>4 DEF vars
<1>6. memory' = Bytes'
  BY <1>1, <1>2, <1>5, BytesStay DEF StepInv
<1>7. StepInv' /\ AppInv'
  BY <1>1, <1>2, <1>5, <1>6 DEF StepInv, AppInv
<1>8. SelectInv' /\ ReadInv' /\ WriteInv'
  BY <1>1 DEF SelectInv, ReadInv, WriteInv
<1>9. QED
  BY <1>3, <1>4, <1>7, <1>8

-----------------------------------------------------------------------------
(* The NDEF operation goes on: what it does next is a step of NdefAccess. *)

\* The history is brought up to date.
LEMMA ResumesSettles ==
    ASSUME AllInv, frame = "idle", NEW b, Resumes(b)
    PROVE  /\ CallsInv' /\ RP!IInv'
           /\ memory' = Bytes /\ sector' = reader_sector /\ cache' = CachedRead
           /\ UNCHANGED <<tag, call, msg, histVars, calls>>
<1> USE DEF AllInv, LinkInv, CallsInv
<1>1. /\ step' = "none" /\ UNCHANGED linkVars
      /\ memory' = Bytes /\ sector' = reader_sector /\ cache' = CachedRead
      /\ UNCHANGED <<tag, call, msg, histVars, calls>>
  BY DEF Resumes, Settles
<1>2. UNCHANGED <<pages, reader_sector, cache_block, frame>>
  BY <1>1 DEF linkVars
<1>3. Bytes' = Bytes /\ CachedRead' = CachedRead
  BY <1>1, <1>2, BytesStay, CachedReadStays
<1>4. StepInv'
  BY <1>1, <1>2, <1>3 DEF StepInv
<1>5. AppInv' /\ SelectInv' /\ ReadInv' /\ WriteInv'
  BY <1>1 DEF AppInv, SelectInv, ReadInv, WriteInv
<1>6. RP!IInv'
  BY <1>1, NothingKeepsReader
<1>7. QED
  BY <1>1, <1>4, <1>5, <1>6

\* Outside read_data_area there is nothing to know of the next block.
LEMMA NoArea == ASSUME pc' # "area" PROVE AreaInv'
  BY DEF AreaInv, CacheBehind, BlockAtHand

\* The data area begins with a block, and too far from the sector's start for a READ
\* that rolls over to show it.
LEMMA AreaStarts ==
    ASSUME byte_addr' = DATA_START
    PROVE  AreaInv'
<1> DEFINE a == byte_addr'
<1>1. /\ MAX_SECTOR \in Nat /\ BLOCK_SIZE \in Nat \ {0}
      /\ DATA_START_BLOCK \in 0..(BLOCKS_PER_SECTOR - 1) /\ DATA_START_BLOCK \in Nat
  BY AddressAssumption
<1>2. a = 0 * SECTOR_SIZE + DATA_START_BLOCK * BLOCK_SIZE + 0
  <2>1. DATA_START_BLOCK * BLOCK_SIZE \in Nat
    BY <1>1
  <2>2. QED
    BY <2>1, AddressSizes DEF DATA_START
<1>3. address_to_sector_block(a) = <<0, DATA_START_BLOCK, 0>> /\ a % BLOCK_SIZE = 0
  BY <1>1, <1>2, PlaceConverts
<1>4. CacheBehind'
  BY <1>3, LinkAssumption DEF CacheBehind
<1>5. BlockAtHand'
  BY <1>3 DEF BlockAtHand
<1>6. QED
  BY <1>4, <1>5 DEF AreaInv

\* Behind a byte taken comes the next one.
LEMMA TakeByteMoves ==
    ASSUME NEW v, TakeByte(v)
    PROVE  pc' = "area" => byte_addr' = byte_addr + 1
<1>1. CASE is_skip_area(layout, byte_addr)
  BY <1>1 DEF TakeByte
<1>2. CASE ~is_skip_area(layout, byte_addr) /\ try_push(stream, v, DATA_CAPACITY).status # "ok"
  BY <1>2 DEF TakeByte, Return
<1>3. CASE ~is_skip_area(layout, byte_addr) /\ try_push(stream, v, DATA_CAPACITY).status = "ok"
  BY <1>3 DEF TakeByte
<1>4. QED
  BY <1>1, <1>2, <1>3

\* A byte is taken from a block that is in the cache and at hand: the byte of
\* read_data_area in NdefAccess (reader.rs:309-357).
LEMMA AreaStep ==
    ASSUME AllInv, Running, pc = "area", Len(stream) < layout.data_area_size,
           address_to_sector_block(byte_addr) # None, memory = Bytes, NEW k, NEW b,
           LET p == address_to_sector_block(byte_addr)
           IN /\ reader_sector = p[1]
              /\ CachedRead = <<p[1], k>> /\ CachedRead # None
              /\ k <= p[2] \/ READ_BLOCKS <= p[2]
              /\ k \in 0..(BLOCKS_PER_SECTOR - 1)
              /\ Cached(CachedRead, p[2])
              /\ CachedRead = IF Cached(Selected(p[1]), p[2]) THEN Selected(p[1])
                                                              ELSE <<p[1], p[2]>>
              /\ b = BlockData(memory, p[1], p[2])
              /\ TakeByte(b[p[3]]),
           Resumes(b)
    PROVE  ReadByte /\ LinkInv' /\ RP!IInv'
<1> DEFINE p == address_to_sector_block(byte_addr)
           q == address_to_sector_block(byte_addr + 1)
           c == Selected(p[1])
<1>1. NdefInv /\ CacheHere /\ frame = "idle" /\ byte_addr \in Nat
  BY DEF AllInv, Running, NdefInv, DataInv
<1>2. /\ CallsInv' /\ RP!IInv'
      /\ memory' = Bytes /\ sector' = reader_sector /\ cache' = CachedRead
      /\ UNCHANGED <<tag, call, msg, histVars, calls>>
  BY <1>1, ResumesSettles
<1>3. /\ p[1] \in 0..MAX_SECTOR /\ p[2] \in 0..(BLOCKS_PER_SECTOR - 1)
      /\ p[3] \in 0..(BLOCK_SIZE - 1)
      /\ byte_addr = p[1] * SECTOR_SIZE + p[2] * BLOCK_SIZE + p[3]
  BY <1>1, AddressPlace
<1>4. b[p[3]] = memory[byte_addr]
  BY <1>3 DEF BlockData
<1>5. Cached(c, p[2]) => CachedData(c, p[2])[p[3]] = memory[byte_addr]
  BY <1>1, CachedIsHeld
<1>6. TakeByte(b[p[3]])
  OBVIOUS
<1>7. ReadByte
  <2>1. TakeByte(IF Cached(c, p[2]) THEN CachedData(c, p[2])[p[3]] ELSE memory[byte_addr])
    BY <1>4, <1>5, <1>6
  <2>2. sector' = p[1] /\ cache' = (IF Cached(c, p[2]) THEN c ELSE <<p[1], p[2]>>)
    BY <1>2
  <2>3. UNCHANGED <<tag, memory, call, msg, histVars, calls>>
    BY <1>2
  <2> HIDE DEF c
  <2>4. QED
    BY <2>1, <2>2, <2>3 DEF ReadByte, c
<1>8. AreaInv'
  <2>1. SUFFICES ASSUME pc' = "area" PROVE AreaInv'
    BY NoArea
  <2>2. byte_addr' = byte_addr + 1
    BY <1>6, <2>1, TakeByteMoves
  <2>3. /\ (byte_addr + 1) % BLOCK_SIZE # 0 => q # None /\ q[1] = p[1] /\ q[2] = p[2]
        /\ q # None /\ q[1] = p[1] => p[2] <= q[2]
    BY <1>1, NextByte
  <2>4. q # None => q[2] \in 0..(BLOCKS_PER_SECTOR - 1)
    BY <1>1, AddressPlace
  <2>5. address_to_sector_block(byte_addr') = q
    BY <2>2
  <2>6. sector' = p[1] /\ cache' = <<p[1], k>> /\ memory' = memory
    BY <1>2
  <2>7. CacheBehind'
    <3>1. SUFFICES ASSUME q # None, q[1] = p[1] PROVE k <= q[2] \/ READ_BLOCKS <= q[2]
      BY <2>5, <2>6 DEF CacheBehind
    <3>2. k <= p[2] \/ READ_BLOCKS <= p[2]
      OBVIOUS
    <3> DEFINE x == p[2]
               y == q[2]
    <3>3. x <= y /\ x \in Int /\ y \in Int /\ k \in Int /\ READ_BLOCKS \in Int
          /\ (k <= x \/ READ_BLOCKS <= x)
      BY <1>3, <2>3, <2>4, <3>1, <3>2, AddressAssumption, NdefAssumption
    <3> HIDE DEF x, y
    <3>4. k <= y \/ READ_BLOCKS <= y
      BY <3>3
    <3>5. QED
      BY <3>4 DEF y
  <2>8. BlockAtHand'
    <3>1. SUFFICES ASSUME (byte_addr + 1) % BLOCK_SIZE # 0 PROVE BlockAtHand'
      BY <2>2 DEF BlockAtHand
    <3>2. block_data' = b
      BY <2>1, <2>2, <3>1 DEF Resumes
    <3>3. q # None /\ q[1] = p[1] /\ q[2] = p[2]
      BY <2>3, <3>1
    <3>4. QED
      BY <2>1, <2>2, <2>5, <2>6, <3>2, <3>3 DEF BlockAtHand
  <2>9. QED
    BY <2>7, <2>8 DEF AreaInv
<1>9. QED
  BY <1>2, <1>7, <1>8 DEF LinkInv

\* A block that a cached READ shows ahead of it is one of the tag (reader.rs:313-329).
LEMMA TakeCachedStep ==
    ASSUME AllInv, TakeCached
    PROVE  ReadByte /\ LinkInv' /\ RP!IInv'
<1>1. /\ Ready /\ Due /\ ~Elsewhere /\ pc = "area" /\ Hit
      /\ TakeByte(cache_data[Index][0]) /\ Resumes(cache_data[Index])
  BY DEF TakeCached
<1>2. NdefInv /\ RP!IInv /\ StepInv /\ CacheBehind
  BY DEF AllInv, LinkInv, CallsInv, AreaInv
<1>3. cache_block # None
  BY <1>1 DEF Hit
<1>4. /\ frame = "idle" /\ step = "none" /\ memory = Bytes
      /\ reader_sector = Target[1] /\ Target[1] \in TagSectors
      /\ CachedRead = Selected(Target[1])
      /\ CachedRead = <<Target[1], cache_block>> /\ CachedRead # None
      /\ cache_block \in 0..(BLOCKS_PER_SECTOR - 1)
      /\ R!Holds(Target[1], cache_block, cache_data)
  BY <1>1, <1>3, ReadyThere
<1>5. /\ Target[2] \in 0..(BLOCKS_PER_SECTOR - 1)
      /\ Target = address_to_sector_block(byte_addr) /\ Target # None
      /\ Target[3] = 0 /\ Len(stream) < layout.data_area_size
  BY <1>1, <1>2, TargetIs
<1>6. cache = <<Target[1], cache_block>> /\ sector = Target[1]
  BY <1>2, <1>4 DEF StepInv
<1>7. cache_block <= Target[2] \/ READ_BLOCKS <= Target[2]
  BY <1>1, <1>2, <1>4, <1>5, <1>6 DEF CacheBehind
<1>8. BLOCKS_PER_SECTOR \in Nat \ {0} /\ READ_BLOCKS \in Nat
  BY AddressAssumption, NdefAssumption
<1>9. cache_data[Index] = BlockData(memory, Target[1], Target[2])
  <2> DEFINE b == Target[2]
             k == cache_block
             i == Index
  <2>1. i = (b - k) % BLOCKS_PER_SECTOR /\ i < READ_BLOCKS
    BY <1>1 DEF Index, Hit
  <2>2. i = b - k /\ i \in 0..(READ_BLOCKS - 1) /\ k <= b
    BY <1>4, <1>5, <1>7, <1>8, <2>1, HitAhead
  <2>3. k + i = b /\ k + i < BLOCKS_PER_SECTOR
    BY <1>4, <1>5, <1>8, <2>2
  <2>4. cache_data[i] = pages[Target[1]][k + i]
    BY <1>4, <2>2, <2>3 DEF R!Holds, R!ReadIndex
  <2>5. BlockData(memory, Target[1], b) = pages[Target[1]][b]
    BY <1>2, <1>4, <1>5, BlockIsPage
  <2>6. QED
    BY <2>3, <2>4, <2>5
<1>10. Cached(CachedRead, Target[2])
  BY <1>1, <1>4 DEF Cached, Ahead, Hit, Index
<1>11. CachedRead = IF Cached(Selected(Target[1]), Target[2]) THEN Selected(Target[1])
                    ELSE <<Target[1], Target[2]>>
  BY <1>4, <1>10
<1>12. Running
  BY <1>1 DEF Ready, Done
<1>13. QED
  BY <1>1, <1>4, <1>5, <1>7, <1>9, <1>10, <1>11, <1>12, AreaStep

\* A block that was read over the link (reader.rs:330-345).
LEMMA BlockFetchedStep ==
    ASSUME AllInv, BlockFetched
    PROVE  ReadByte /\ LinkInv' /\ RP!IInv'
<1>1. /\ Done("read") /\ pc = "area" /\ Running
      /\ TakeByte(answer.data[0][0]) /\ Resumes(answer.data[0])
  BY DEF BlockFetched, Done
<1>2. NdefInv /\ ReadInv
  BY DEF AllInv, LinkInv, CallsInv
<1>3. /\ Due /\ memory = Bytes
      /\ reader_sector = Target[1]
      /\ CachedRead = <<Target[1], Target[2]>> /\ CachedRead # None
      /\ answer.data[0] = BlockData(memory, Target[1], Target[2])
  BY <1>1, ReadDone
<1>4. /\ Target[2] \in 0..(BLOCKS_PER_SECTOR - 1)
      /\ Target = address_to_sector_block(byte_addr) /\ Target # None
      /\ Target[3] = 0 /\ Len(stream) < layout.data_area_size
  BY <1>1, <1>2, <1>3, TargetIs
<1>5. ~Cached(Selected(Target[1]), Target[2])
  BY <1>1, <1>2 DEF ReadInv, Done, AccessDue, Target
<1>6. Cached(CachedRead, Target[2])
  <2> DEFINE t == Target[2]
  <2>1. BLOCKS_PER_SECTOR \in Nat \ {0} /\ READ_BLOCKS \in Nat \ {0}
    BY AddressAssumption, NdefAssumption
  <2>2. t - t = 0 /\ 0 = BLOCKS_PER_SECTOR * 0 + 0 /\ 0 \in 0..(BLOCKS_PER_SECTOR - 1)
    BY <1>4, <2>1
  <2>3. (t - t) % BLOCKS_PER_SECTOR = 0
    BY <2>1, <2>2, DivisionUnique
  <2>4. QED
    BY <1>3, <2>1, <2>3 DEF Cached, Ahead
<1>7. CachedRead = IF Cached(Selected(Target[1]), Target[2]) THEN Selected(Target[1])
                   ELSE <<Target[1], Target[2]>>
  BY <1>3, <1>5
<1>8. Target[2] <= Target[2]
  BY <1>4
<1>9. QED
  BY <1>1, <1>3, <1>4, <1>6, <1>7, <1>8, AreaStep

\* A byte in the middle of the block at hand (reader.rs:347-357).
LEMMA TakeNextStep ==
    ASSUME AllInv, TakeNext
    PROVE  ReadByte /\ LinkInv' /\ RP!IInv'
<1> DEFINE p == address_to_sector_block(byte_addr)
<1>1. /\ Running /\ pc = "area" /\ Len(stream) < layout.data_area_size
      /\ byte_addr % BLOCK_SIZE # 0
      /\ TakeByte(block_data[byte_addr % BLOCK_SIZE]) /\ Resumes(block_data)
  BY DEF TakeNext
<1>2. NdefInv /\ RP!IInv /\ StepInv /\ CacheBehind /\ BlockAtHand /\ byte_addr \in Nat
  BY DEF AllInv, LinkInv, CallsInv, AreaInv, NdefInv, DataInv
<1>3. step = "none"
  BY <1>1, <1>2 DEF StepInv, Due
<1>4. memory = Bytes /\ sector = reader_sector /\ cache = CachedRead
  BY <1>2, <1>3 DEF StepInv
<1>5. /\ p # None /\ p[1] = sector /\ Cached(cache, p[2])
      /\ block_data = BlockData(memory, p[1], p[2])
  BY <1>1, <1>2 DEF BlockAtHand
<1>6. byte_addr % BLOCK_SIZE = p[3]
  BY <1>2, <1>5, AddressPlace
<1>7. cache # None
  BY <1>5 DEF Cached
<1>8. cache = <<p[1], cache_block>> /\ cache_block \in 0..(BLOCKS_PER_SECTOR - 1)
  BY <1>2, <1>4, <1>5, <1>7, LinkFacts DEF CachedRead
<1>9. cache_block <= p[2] \/ READ_BLOCKS <= p[2]
  <2>1. cache[2] = cache_block
    BY <1>8
  <2>2. QED
    BY <1>1, <1>2, <1>5, <1>7, <2>1 DEF CacheBehind
<1>10. Selected(p[1]) = cache
  BY <1>5 DEF Selected
<1>11. QED
  BY <1>1, <1>4, <1>5, <1>6, <1>7, <1>8, <1>9, <1>10, AreaStep

\* The container has been read (reader.rs:270-281).
LEMMA CcFetchedStep ==
    ASSUME AllInv, CcFetched
    PROVE  ReadCc /\ LinkInv' /\ RP!IInv'
<1>1. /\ Done("read") /\ pc = "cc" /\ CheckCc(answer.data[0]) /\ Resumes(None)
  BY DEF CcFetched
<1>2. NdefInv
  BY DEF AllInv
<1>3. /\ frame = "idle" /\ Due /\ memory = Bytes
      /\ reader_sector = Target[1]
      /\ CachedRead = <<Target[1], Target[2]>>
      /\ answer.data[0] = BlockData(memory, Target[1], Target[2])
  BY <1>1, ReadDone
<1>4. Target[1] = 0 /\ Target[2] = CC_BLOCK
  BY <1>1, <1>2, <1>3, TargetIs
<1>5. /\ CallsInv' /\ RP!IInv'
      /\ memory' = Bytes /\ sector' = reader_sector /\ cache' = CachedRead
      /\ UNCHANGED <<tag, call, msg, histVars, calls>>
  BY <1>1, <1>3, ResumesSettles
<1>6. ReadCc
  BY <1>1, <1>3, <1>4, <1>5 DEF ReadCc
<1>7. AreaInv'
  <2>1. pc' = "idle" \/ byte_addr' = DATA_START
    BY <1>1 DEF CheckCc, Return, BeginRead
  <2>2. QED
    BY <2>1, NoArea, AreaStarts
<1>8. QED
  BY <1>5, <1>6, <1>7 DEF LinkInv

\* write_usable_bytes goes on behind a page, to another or to the end.
LEMMA ProceedLeaves ==
    ASSUME pc \in {"value", "length"}, Proceed
    PROVE  pc' # "area"
  BY DEF Proceed, BeginLength, Return

\* A page is done (reader.rs:617, 638-640).
LEMMA PageDoneStep ==
    ASSUME AllInv, PageDone
    PROVE  WritePage /\ LinkInv' /\ RP!IInv'
<1> USE DEF AllInv, LinkInv, CallsInv
<1>1. Proceed /\ Resumes(None)
  BY DEF PageDone
<1>2. /\ frame = "idle" /\ pc \in {"value", "length"} /\ Due
  <2>1. CASE Done("write")
    BY <2>1 DEF Done, Running, StepInv, WriteInv
  <2>2. CASE Done("read") /\ pc \in {"value", "length"}
    BY <2>2, ReadDone
  <2>3. QED
    BY <2>1, <2>2 DEF PageDone
<1>3. Target = Place /\ WithinLimit
  BY <1>2, TargetIs, PageFits
<1>4. /\ Bytes = PageWritten /\ reader_sector = Place[1]
      /\ CachedRead = IF Taken = {} THEN CacheAfterRead ELSE None
  <2>1. CASE Done("write")
    <3>1. /\ Taken # {} /\ cache_block = None
          /\ reader_sector = Target[1] /\ Bytes = PageWritten
      BY <2>1 DEF Done, Running, WriteInv
    <3>2. QED
      BY <1>3, <3>1 DEF CachedRead
  <2>2. CASE Done("read") /\ Taken = {}
    <3>1. /\ memory = Bytes /\ reader_sector = Target[1]
          /\ CachedRead = <<Target[1], Target[2]>>
      BY <2>2, ReadDone
    <3>2. ~WholePage
      BY <1>2, <2>2 DEF Done, Running, ReadInv
    <3>3. PageWritten = memory
      BY <2>2, NothingTaken
    <3>4. QED
      BY <1>3, <2>2, <3>1, <3>2, <3>3 DEF CacheAfterRead
  <2>3. QED
    BY <2>1, <2>2 DEF PageDone
<1>5. /\ CallsInv' /\ RP!IInv'
      /\ memory' = Bytes /\ sector' = reader_sector /\ cache' = CachedRead
      /\ UNCHANGED <<tag, call, msg, histVars, calls>>
  BY <1>1, <1>2, ResumesSettles
<1>6. WritePage
  BY <1>1, <1>2, <1>3, <1>4, <1>5 DEF WritePage
<1>7. AreaInv'
  BY <1>1, <1>2, ProceedLeaves, NoArea
<1>8. QED
  BY <1>5, <1>6, <1>7

\* There is no such address (reader.rs:306, 594): while a page is written this does not
\* happen, so only read_data_area is refused.
LEMMA RefusedStep ==
    ASSUME AllInv, Refused
    PROVE  ReadByte /\ LinkInv' /\ RP!IInv'
<1> USE DEF AllInv, LinkInv, CallsInv
<1>1. Return(Reply("out_of_range")) /\ Resumes(None)
  BY DEF Refused
<1>2. frame = "idle"
  BY DEF Refused, Ready, Done, Running
<1>3. pc \notin {"value", "length"}
  <2>1. SUFFICES ASSUME pc \in {"value", "length"} PROVE FALSE
    OBVIOUS
  <2>2. Place # None /\ addr < limit /\ ~LimitInPage
    BY <2>1, PageFits DEF WithinLimit
  <2>3. addr \in Nat /\ limit \in Nat
    BY DEF NdefInv, DataInv
  <2>4. Target = Place
    BY Zenon, <2>1 DEF Target, NextPlace
  <2>5. QED
    BY <2>1, <2>2, <2>3, <2>4 DEF Refused
<1>4. Ready /\ pc = "area" /\ Len(stream) < layout.data_area_size /\ Target = None
  BY <1>3 DEF Refused
<1>5. step = "none"
  BY <1>4 DEF Ready, Done, StepInv, Due
<1>6. address_to_sector_block(byte_addr) = None
  <2>1. Target = address_to_sector_block(byte_addr)
    BY Zenon, <1>4 DEF Target, NextPlace
  <2>2. QED
    BY <1>4, <2>1
<1>7. /\ CallsInv' /\ RP!IInv'
      /\ memory' = Bytes /\ sector' = reader_sector /\ cache' = CachedRead
      /\ UNCHANGED <<tag, call, msg, histVars, calls>>
  BY <1>1, <1>2, ResumesSettles
<1>8. UNCHANGED <<memory, sector, cache>>
  BY <1>5, <1>7 DEF StepInv
<1>9. ReadByte
  BY <1>1, <1>4, <1>6, <1>7, <1>8 DEF ReadByte
<1>10. AreaInv'
  BY <1>1, NoArea DEF Return
<1>11. QED
  BY <1>7, <1>9, <1>10

\* A call that fails is a failing access: of the selection, the READ or the WRITE it
\* needs, with nothing remembered that is not so (reader.rs:147-164, 230-232).
LEMMA FailedStep ==
    ASSUME AllInv, Failed
    PROVE  AccessFails /\ LinkInv' /\ RP!IInv'
<1> USE DEF AllInv, LinkInv, CallsInv
<1>1. /\ frame = "idle" /\ pc # "idle" /\ step \in {"select", "read", "write"}
      /\ answer.status # "ok" /\ Return(Reply("link")) /\ Resumes(None)
  BY DEF Failed, Running, StepInv
<1>2. Due
  BY <1>1 DEF StepInv
<1>3. /\ CallsInv' /\ RP!IInv'
      /\ memory' = Bytes /\ sector' = reader_sector /\ cache' = CachedRead
      /\ UNCHANGED <<tag, call, msg, histVars, calls>>
  BY <1>1, ResumesSettles
<1>4. step = "select" => AccessDue /\ Forgot /\ Bytes = memory
  <2>1. SUFFICES ASSUME step = "select" PROVE AccessDue
    BY <1>1 DEF SelectInv, StepInv
  <2>2. Selected(Target[1]) = None
    BY <2>1 DEF SelectInv, Selected
  <2>3. CASE pc = "cc"
    <3>1. <<0, CC_BLOCK>> \in Nat \X Nat
      BY AddressAssumption, NdefAssumption DEF CC_BLOCK
    <3>2. Target[1] = 0
      BY <1>2, <2>3, TargetIs
    <3>3. QED
      BY <2>2, <2>3, <3>1, <3>2, NdefAssumption DEF AccessDue
  <2>4. CASE pc = "area"
    BY <1>2, <2>2, <2>4, TargetIs DEF AccessDue, Cached, Target
  <2>5. CASE pc \in {"value", "length"}
    BY <1>2, <2>5, TargetIs DEF AccessDue
  <2>6. QED
    BY <1>2, <2>3, <2>4, <2>5, TargetIs
<1>5. step = "read" => AccessDue /\ (Forgot \/ AsBefore) /\ Bytes = memory
  BY <1>1 DEF ReadInv, StepInv
<1>6. step = "write" => /\ AccessDue /\ pc \in {"value", "length"} /\ WithinLimit
                        /\ cache_block = None /\ reader_sector \in {Unknown, Target[1]}
                        /\ Bytes \in {memory, PageWritten}
  <2>1. SUFFICES ASSUME step = "write" PROVE <1>6!2
    OBVIOUS
  <2>2. /\ pc \in {"value", "length"} /\ cache_block = None
        /\ reader_sector \in {Unknown, Target[1]} /\ Bytes \in {memory, PageWritten}
    BY <1>1, <2>1 DEF WriteInv
  <2>3. AccessDue /\ WithinLimit
    BY <1>2, <2>2, TargetIs, PageFits DEF AccessDue
  <2>4. QED
    BY <2>2, <2>3
<1>7. AccessDue /\ MaybeWritten
  BY <1>1, <1>3, <1>4, <1>5, <1>6 DEF MaybeWritten
<1>8. \/ sector' \in {Unknown, Target[1]} /\ cache' = None
      \/ UNCHANGED memory /\ sector' = Target[1] /\ cache' = Selected(Target[1])
  <2>1. CASE cache_block = None /\ reader_sector \in {Unknown, Target[1]}
    BY <1>3, <2>1 DEF CachedRead
  <2>2. CASE step = "read" /\ AsBefore
    BY <1>3, <1>5, <2>2 DEF AsBefore
  <2>3. QED
    BY <1>1, <1>4, <1>5, <1>6, <2>1, <2>2 DEF Forgot
<1>9. AccessFails
  BY <1>1, <1>3, <1>7, <1>8 DEF AccessFails, Target
<1>10. AreaInv'
  BY <1>1, NoArea DEF Return
<1>11. QED
  BY <1>3, <1>9, <1>10

\* A step that uses no radio leaves the command layer alone.
LEMMA QuietStep ==
    ASSUME AllInv, step = "none", UNCHANGED <<linkVars, accessVars, step, block_data, tag>>
    PROVE  CallsInv' /\ RP!IInv'
<1> USE DEF AllInv, LinkInv, CallsInv
<1>1. UNCHANGED <<memory, sector, cache, pages, reader_sector, cache_block, frame>>
  BY DEF accessVars, linkVars
<1>2. Bytes' = Bytes /\ CachedRead' = CachedRead
  BY <1>1, BytesStay, CachedReadStays
<1>3. StepInv'
  BY <1>1, <1>2 DEF StepInv
<1>4. AppInv' /\ SelectInv' /\ ReadInv' /\ WriteInv'
  BY DEF AppInv, SelectInv, ReadInv, WriteInv
<1>5. QED
  BY <1>3, <1>4, NothingKeepsReader

\* Parsing and planning (reader.rs:371-391, 443-535).
LEMMA ComputeStep ==
    ASSUME AllInv, Compute
    PROVE  (Parse \/ Plan) /\ LinkInv' /\ RP!IInv'
<1>1. /\ step = "none" /\ UNCHANGED <<linkVars, accessVars, step, block_data>>
      /\ Parse \/ Plan
  BY DEF Compute
<1>2. tag' = tag
  BY <1>1 DEF Parse, Plan
<1>3. CallsInv' /\ RP!IInv'
  BY <1>1, <1>2, QuietStep
<1>4. pc' # "area" \/ byte_addr' = DATA_START
  <2>1. CASE Parse
    BY <2>1 DEF Parse, Return, BeginRead
  <2>2. CASE Plan
    BY <2>2 DEF Plan, Return
  <2>3. QED
    BY <1>1, <2>1, <2>2
<1>5. AreaInv'
  BY <1>4, NoArea, AreaStarts
<1>6. QED
  BY <1>1, <1>3, <1>5 DEF LinkInv

\* An NDEF call begins (reader.rs:404, 424).
LEMMA BeginNdefStep ==
    ASSUME AllInv, BeginNdef
    PROVE  Application /\ LinkInv' /\ RP!IInv'
<1>1. /\ step = "none" /\ UNCHANGED <<linkVars, accessVars, step, block_data>>
      /\ read_ndef \/ \E m \in Messages : write_ndef(m)
  BY DEF BeginNdef
<1>2. tag' = tag /\ pc' = "cc"
  BY <1>1 DEF read_ndef, write_ndef, Begin
<1>3. CallsInv' /\ RP!IInv'
  BY <1>1, <1>2, QuietStep
<1>4. AreaInv'
  BY <1>2, NoArea
<1>5. QED
  BY <1>1, <1>3, <1>4 DEF Application, LinkInv

\* What the application's own calls leave behind is a sector, known or not, and a READ
\* of that sector or none.
LEMMA OtherUseAllowed ==
    ASSUME RP!IInv
    PROVE  /\ reader_sector \in 0..MAX_SECTOR \cup {Unknown}
           /\ CachedRead \in {None} \cup
                 ({reader_sector} \ {Unknown}) \X (0..(BLOCKS_PER_SECTOR - 1))
  BY LinkFacts DEF CachedRead

\* The application's own call has returned.
LEMMA AppReturnsStep ==
    ASSUME AllInv, AppReturns
    PROVE  Application /\ LinkInv' /\ RP!IInv'
<1> USE DEF AllInv, LinkInv, CallsInv
<1>1. /\ step = "app" /\ frame = "idle" /\ step' = "none"
      /\ memory' = Bytes /\ sector' = reader_sector /\ cache' = CachedRead
      /\ UNCHANGED linkVars /\ UNCHANGED ndefVars
  BY DEF AppReturns, Settles
<1>2. pc = "idle" /\ calls < MaxCalls /\ memory = Bytes
  BY <1>1 DEF StepInv
<1>3. UNCHANGED <<pages, reader_sector, cache_block, frame>>
  BY <1>1 DEF linkVars
<1>4. UNCHANGED <<tag, pc, call, msg, cc, layout, readVars, writeVars, ret, histVars, calls>>
  BY <1>1 DEF ndefVars, readVars, writeVars, histVars
<1>5. OtherUse(reader_sector, CachedRead)
  BY <1>1, <1>2, <1>4 DEF OtherUse
<1>6. Application
  BY <1>5, OtherUseAllowed DEF Application
<1>7. Bytes' = Bytes /\ CachedRead' = CachedRead
  BY <1>3, <1>4, BytesStay, CachedReadStays
<1>8. StepInv'
  BY <1>1, <1>2, <1>3, <1>4, <1>7 DEF StepInv
<1>9. AppInv' /\ SelectInv' /\ ReadInv' /\ WriteInv'
  BY <1>1 DEF AppInv, SelectInv, ReadInv, WriteInv
<1>10. AreaInv'
  BY <1>2, <1>4, NoArea
<1>11. RP!IInv'
  BY <1>1, NothingKeepsReader
<1>12. QED
  BY <1>6, <1>8, <1>9, <1>10, <1>11

\* The reader dies between any two exchanges: a page is written whole or not at all.
LEMMA RestartStep ==
    ASSUME AllInv, Restart
    PROVE  (Application \/ Crash) /\ LinkInv' /\ RP!IInv'
<1> USE DEF AllInv, LinkInv, CallsInv
<1>1. /\ R!new /\ step' = "none" /\ memory' = Bytes /\ sector' = 0 /\ cache' = None
      /\ pc # "idle" \/ step = "app"
  BY DEF Restart
<1>2. /\ pages' = pages /\ reader_sector' = 0 /\ cache_block' = None /\ frame' = "idle"
  BY <1>1 DEF R!new, R!TagReset, R!ReturnAtOnce, R!Return
<1>3. RP!IInv'
  BY <1>1, CallKeepsReader
<1>4. tag' = tag /\ pc' = "idle"
  BY DEF Restart, ndefVars, Return
<1>5. Bytes' = Bytes /\ CachedRead' = None
  BY <1>2, <1>4, BytesStay DEF CachedRead
<1>6. StepInv'
  BY <1>1, <1>2, <1>5 DEF StepInv
<1>7. AppInv' /\ SelectInv' /\ ReadInv' /\ WriteInv'
  BY <1>1 DEF AppInv, SelectInv, ReadInv, WriteInv
<1>8. AreaInv'
  BY <1>4, NoArea
<1>9. CASE pc = "idle"
  <2>1. step = "app" /\ UNCHANGED ndefVars
    BY <1>1, <1>9 DEF Restart
  <2>2. calls < MaxCalls /\ memory = Bytes
    BY <2>1 DEF StepInv
  <2>3. UNCHANGED <<tag, pc, call, msg, cc, layout, readVars, writeVars, ret, histVars, calls>>
    BY <2>1 DEF ndefVars, readVars, writeVars, histVars
  <2>4. OtherUse(0, None)
    BY <1>1, <1>9, <2>2, <2>3 DEF OtherUse
  <2>5. 0 \in 0..MAX_SECTOR
    BY AddressAssumption
  <2>6. Application
    BY <2>4, <2>5 DEF Application
  <2>7. QED
    BY <1>3, <1>6, <1>7, <1>8, <2>6
<1>10. CASE pc # "idle"
  <2>1. Return(Reply("crashed")) /\ UNCHANGED <<tag, call, msg, histVars, calls>>
    BY <1>10 DEF Restart
  <2>2. MaybeWritten
    <3>1. CASE step = "write"
      <4>1. pc \in {"value", "length"} /\ Bytes \in {memory, PageWritten}
        BY <3>1 DEF WriteInv
      <4>2. WithinLimit
        BY <4>1, PageFits
      <4>3. QED
        BY <1>1, <4>1, <4>2 DEF MaybeWritten
    <3>2. CASE step # "write"
      BY <1>1, <3>2 DEF StepInv, MaybeWritten
    <3>3. QED
      BY <3>1, <3>2
  <2>3. Crash
    BY <1>1, <1>10, <2>1, <2>2 DEF Crash
  <2>4. QED
    BY <1>3, <1>6, <1>7, <1>8, <2>3
<1>11. QED
  BY <1>9, <1>10

-----------------------------------------------------------------------------
(* The composition. *)

\* A step of the composition is a step of NdefAccess or none, and keeps the invariant.
LEMMA LinkStep ==
    ASSUME AllInv, [LinkNext]_allVars
    PROVE  [Next]_vars /\ LinkInv' /\ RP!IInv'
<1>1. CASE BeginNdef
  BY <1>1, BeginNdefStep DEF Next
<1>2. CASE AppCalls
  BY <1>2, AppCallsStep
<1>3. CASE Restart
  BY <1>3, RestartStep DEF Next
<1>4. CASE Select \/ Fetch \/ StoreWhole \/ StoreMerged \/ Exchange
  BY <1>4, SelectStep, FetchStep, StoreWholeStep, StoreMergedStep, ExchangeStep
<1>5. CASE TakeCached \/ BlockFetched \/ TakeNext \/ Refused
  <2>1. ReadByte /\ LinkInv' /\ RP!IInv'
    BY <1>5, TakeCachedStep, BlockFetchedStep, TakeNextStep, RefusedStep
  <2>2. QED
    BY <2>1 DEF Next, Progress
<1>6. CASE CcFetched
  BY <1>6, CcFetchedStep DEF Next, Progress
<1>7. CASE PageDone
  BY <1>7, PageDoneStep DEF Next, Progress
<1>8. CASE Failed
  BY <1>8, FailedStep DEF Next
<1>9. CASE Compute
  BY <1>9, ComputeStep DEF Next, Progress
<1>10. CASE AppReturns
  BY <1>10, AppReturnsStep DEF Next
<1>11. CASE UNCHANGED allVars
  <2>1. UNCHANGED <<ndefVars, accessVars, block_data>> /\ UNCHANGED linkVars /\ step' = step
    BY <1>11 DEF allVars, ndefVars, accessVars, linkVars
  <2>2. /\ UNCHANGED vars
        /\ Target' = Target /\ Due' = Due /\ AccessDue' = AccessDue
        /\ (Selected(Target[1]))' = Selected(Target[1])
        /\ WholePage' = WholePage /\ Taken' = Taken
        /\ PageWritten' = PageWritten /\ Merged' = Merged
        /\ AreaInv' = AreaInv
    BY <2>1, NdefStays
  <2>3. RP!IInv'
    BY <2>1, NothingKeepsReader DEF AllInv
  <2>4. UNCHANGED <<memory, sector, cache, pc, calls, tag>>
    BY <2>2 DEF vars
  <2>5. UNCHANGED <<pages, reader_sector, cache_block, frame, command, intended, answer>>
    BY <2>1 DEF linkVars
  <2>6. Bytes' = Bytes /\ CachedRead' = CachedRead
    BY <2>4, <2>5, BytesStay, CachedReadStays
  <2>7. Forgot' = Forgot /\ AsBefore' = AsBefore
    BY <2>2, <2>5, <2>6 DEF Forgot, AsBefore
  <2>8. StepInv' /\ AppInv' /\ SelectInv'
    BY <2>1, <2>2, <2>4, <2>5, <2>6, <2>7
    DEF AllInv, LinkInv, CallsInv, StepInv, AppInv, SelectInv
  <2>9. ReadInv' /\ WriteInv'
    BY <2>1, <2>2, <2>4, <2>5, <2>6, <2>7
    DEF AllInv, LinkInv, CallsInv, ReadInv, WriteInv, R!Holds
  <2>10. QED
    BY <2>2, <2>3, <2>8, <2>9 DEF AllInv, LinkInv, CallsInv
<1>12. QED
  BY <1>1, <1>2, <1>3, <1>4, <1>5, <1>6, <1>7, <1>8, <1>9, <1>10, <1>11
  DEF LinkNext, LinkProgress

\* The invariant holds when the reader is created.
LEMMA InitAllInv == LinkInit => AllInv
<1> SUFFICES ASSUME LinkInit PROVE AllInv
  OBVIOUS
<1>1. Init
  BY DEF LinkInit
<1>2. NdefInv /\ CacheHere /\ RP!IInv
  BY <1>1, InitNdefInv, InitHeldInv, InitKeepsReader DEF HeldInv
<1>3. /\ pc = "idle" /\ memory = tag.bytes /\ sector = 0 /\ cache = None
      /\ frame = "idle" /\ step = "none" /\ reader_sector = 0 /\ cache_block = None
  BY DEF LinkInit, Init
<1>4. memory = Bytes
  <2>1. memory \in [Address -> Byte]
    BY <1>2 DEF NdefInv, DataInv
  <2>2. SUFFICES ASSUME NEW a \in Address PROVE Bytes[a] = memory[a]
    BY <2>1 DEF Bytes
  <2> DEFINE p == address_to_sector_block(a)
  <2>3. /\ p \in (0..MAX_SECTOR) \X (0..(BLOCKS_PER_SECTOR - 1)) \X (0..(BLOCK_SIZE - 1))
        /\ sector_block_to_address(p[1], p[2], p[3]) = a
    BY AddressConverts
  <2>4. Bytes[a] = IF p[1] \in TagSectors THEN pages[p[1]][p[2]][p[3]] ELSE memory[a]
    BY <1>3 DEF Bytes
  <2> HIDE DEF p
  <2>5. p[2] \in R!Block /\ p[3] \in 0..(BLOCK_SIZE - 1)
    BY <2>3 DEF R!Block
  <2>6. p[1] \in TagSectors =>
           pages[p[1]][p[2]][p[3]] = memory[sector_block_to_address(p[1], p[2], p[3])]
    BY <2>5 DEF LinkInit
  <2>7. QED
    BY <2>3, <2>4, <2>6
<1>5. CallsInv
  BY <1>3, <1>4 DEF CallsInv, StepInv, AppInv, SelectInv, ReadInv, WriteInv, CachedRead
<1>6. AreaInv
  BY <1>3 DEF AreaInv, CacheBehind, BlockAtHand
<1>7. QED
  BY <1>2, <1>5, <1>6 DEF AllInv, LinkInv

\* Every step keeps it.
LEMMA NextAllInv == AllInv /\ [LinkNext]_allVars => AllInv'
<1> SUFFICES ASSUME AllInv, [LinkNext]_allVars PROVE AllInv'
  OBVIOUS
<1>1. [Next]_vars /\ LinkInv' /\ RP!IInv'
  BY LinkStep
<1>2. NdefInv'
  BY <1>1, NextKeeps DEF AllInv
<1>3. CacheHere'
  <2>1. CASE Next
    BY <2>1, NextCacheHere DEF AllInv
  <2>2. CASE UNCHANGED vars
    BY <2>2 DEF AllInv, CacheHere, vars
  <2>3. QED
    BY <1>1, <2>1, <2>2
<1>4. QED
  BY <1>1, <1>2, <1>3 DEF AllInv

\* What holds throughout the composition.
THEOREM SpecAllInv == LinkSpec => []AllInv
  BY InitAllInv, NextAllInv, PTL DEF LinkSpec

\* The NDEF operations over the command layer, with its cache, its failures and its
\* retries, on a link that loses, refuses and repeats, and with a reader that dies
\* between two exchanges, implement NdefAccess: whatever is proved of read_ndef and
\* write_ndef there holds of the reader as a whole (reader.rs:270-363, 584-648).
THEOREM ReaderImplementsNdef == LinkSpec => ImplementsNdef
<1>1. LinkInit => Init
  BY DEF LinkInit
<1>2. AllInv /\ [LinkNext]_allVars => [Next]_vars
  BY LinkStep
<1>3. QED
  BY <1>1, <1>2, SpecAllInv, PTL DEF LinkSpec, ImplementsNdef, Spec

\* No READ or WRITE of an NDEF operation is ever made in another sector than the one of
\* its address, however often it is repeated (reader.rs:147-158, 309-311, 601-603).
THEOREM NdefAccessesMeantSector == LinkSpec => []AccessesMeantSector
<1>1. AllInv => AccessesMeantSector
  <2>1. SUFFICES ASSUME AllInv, frame = "transceive", pc # "idle"
                 PROVE  /\ tag_sector = Target[1] /\ reader_sector = Target[1]
                        /\ tag_mode = "command"
    BY DEF AccessesMeantSector
  <2>2. command.op \in {"read", "write", "custom"} /\ reader_sector = intended
    BY <2>1, LinkFacts DEF AllInv
  <2>3. step \in {"select", "read", "write"} /\ Due
    BY <2>1 DEF AllInv, LinkInv, CallsInv, StepInv
  <2>4. step # "select"
    <3>1. step = "select" => command = R!SelectCall(Target[1])
      BY <2>1 DEF AllInv, LinkInv, CallsInv, SelectInv
    <3>2. QED
      BY <2>2, <3>1 DEF R!SelectCall
  <2>5. intended = Target[1]
    BY <2>1, <2>3, <2>4 DEF AllInv, LinkInv, CallsInv, ReadInv, WriteInv
  <2>6. Target[1] # Unknown
    BY <2>1, <2>3, TargetIs DEF AllInv
  <2>7. QED
    BY <2>1, <2>2, <2>5, <2>6, LinkFacts DEF AllInv
<1>2. QED
  BY <1>1, SpecAllInv, PTL

=============================================================================
