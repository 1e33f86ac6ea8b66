------------------------- MODULE MCJdbcTransactions -------------------------
EXTENDS JdbcTransactions, TLC
=============================================================================
