CONSTANTS Bits = 2  Retries = 1  MaxLen = 2
SPECIFICATION FairSpec
INVARIANTS TypeOK SuccessIsDelivery BusGivenBack ErrorHasCause
PROPERTIES TransferEnds
