------------------------- MODULE MCProducerConsumer --------------------------
EXTENDS ProducerConsumer
=============================================================================
